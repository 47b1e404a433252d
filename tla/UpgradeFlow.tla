------------------------------- MODULE UpgradeFlow -------------------------------
(***************************************************************************)
(* The upgrade over the diagnostic port, from opening it to the last       *)
(* reset: process_streaming_fastboot_upgarde (download.cpp) with           *)
(* update_method 1, the helpers it calls, and the user who runs QFlash     *)
(* again after a failure. The module may restart at any step: it re-enters *)
(* download mode if its download flag is set, and starts its firmware      *)
(* otherwise, if that is good enough.                                      *)
(*                                                                         *)
(* The handshake and the flashing appear as what Handshake and             *)
(* StreamingDownload make of them: two and two steps.                      *)
(***************************************************************************)
EXTENDS Naturals

CONSTANTS
    MaxCuts,    \* bound: power cuts
    MaxRounds,  \* bound: times the module starts over by itself
    MaxRuns     \* bound: runs of the program

ASSUME FlowAssumption == MaxCuts \in Nat /\ MaxRounds \in Nat /\ MaxRuns \in Nat \ {0}

VARIABLES
    label,                  \* the label or the call in progress
    g_hCom,                 \* the port, or descriptor 0
    emergency_diag_port,
    emergency_mode,         \* the module asked for ENPRG
    image,                  \* what GetReadDataPacket serves ("none": flag is 0)
    reported,               \* of this run: "ok" or "failed"; "none"
    resent,                 \* history: handle_write has sent a chunk of this run again
    runs,                   \* runs of the program so far
    mode,                   \* what the module runs
    boot,                   \* how far its sahara protocol has got
    fw,                     \* the firmware in its flash ("none": a blank module;
                            \* "torn": images to come; "holed": chunks missing)
    flag,                   \* its download flag
    same,                   \* its partition table is the package's
    missed,                 \* history: something of the last handshake was lost, late
                            \* or refused
    cuts, rounds            \* faults so far

hostVars    == <<label, g_hCom, emergency_diag_port, emergency_mode, image, reported,
                 resent, runs>>
devVars     == <<mode, boot, fw, flag, same, missed, cuts, rounds>>
upgradeVars == <<hostVars, devVars>>

InSahara == mode \in {"sahara", "edl"}

(* What a module may start when it is powered. Firmware that some chunk is *)
(* missing from may start or not.                                          *)
Boots(f, w) ==
    CASE f                             -> {"sahara"}
      [] ~f /\ w = "none"              -> {"edl"}
      [] ~f /\ w = "torn"              -> {"bricked"}
      [] ~f /\ w = "holed"             -> {"normal", "bricked"}
      [] ~f /\ w \in {"old", "new"}    -> {"normal"}

FlowInit ==
    /\ label = "open"
    /\ g_hCom = "fd0"
    /\ emergency_diag_port = FALSE
    /\ emergency_mode = FALSE
    /\ image = "none"
    /\ reported = "none"
    /\ resent = FALSE
    /\ runs = 1
    /\ fw \in {"none", "old"}
    /\ flag \in BOOLEAN
    /\ same \in BOOLEAN
    /\ missed = FALSE
    /\ mode \in Boots(flag, fw)
    /\ boot = "hello"
    /\ cuts = 0
    /\ rounds = 0

GotoLabel(p) ==
    /\ label' = p
    /\ UNCHANGED <<emergency_diag_port, emergency_mode, image, reported, resent, runs>>

Finish(r) ==
    /\ label' = "done"
    /\ reported' = r
    /\ UNCHANGED <<emergency_diag_port, emergency_mode, image, resent, runs>>

(* What reaches the module and comes back from it goes through the port.   *)
Connected == g_hCom = "port" /\ mode # "bricked"

-----------------------------------------------------------------------------
(* openport: the error of open is reported as success, and every transfer  *)
(* that follows goes to descriptor 0.                                      *)
OpenPort ==
    /\ mode # "bricked"
    /\ g_hCom' \in {"port", "fd0"}

(* __normal_download_ *)
OpenDiagPort ==
    /\ label = "open"
    /\ OpenPort
    /\ label' = "hello"
    /\ emergency_diag_port' = (mode = "edl")
    /\ UNCHANGED <<emergency_mode, image, reported, resent, runs, devVars>>

NoPort ==
    /\ label \in {"open", "reopen", "reopen_do"}
    /\ Finish("failed")
    /\ UNCHANGED <<g_hCom, devVars>>

(* get_sahara_hello_packet returned 0: the module waits for the response.  *)
HelloReceived ==
    /\ label = "hello"
    /\ Connected /\ InSahara
    /\ GotoLabel("sahara_get_hello")
    /\ UNCHANGED <<g_hCom, devVars>>

HelloMissed ==
    /\ label = "hello"
    /\ GotoLabel(IF emergency_diag_port THEN "sahara_get_hello" ELSE "module_state")
    /\ UNCHANGED <<g_hCom, devVars>>

(* module_state: what the first of ten send_sync that learns anything      *)
(* learns; "unspecified" when none does.                                   *)
Seen ==
    {"unspecified"} \cup
        (IF ~Connected THEN {}
         ELSE CASE mode = "normal" -> {"normal"}
                [] InSahara        -> {"sahara"}
                [] mode = "prog"   -> {"going"})

ModuleState ==
    /\ label = "module_state"
    /\ \E s \in Seen :
          CASE s = "normal"      -> GotoLabel("switch_to_dload")
            [] s = "sahara"      -> GotoLabel("sahara_download")
            [] s = "going"       -> GotoLabel("stream_download")
            [] s = "unspecified" -> Finish("failed")
    /\ UNCHANGED <<g_hCom, devVars>>

(* The module restarts into sahara, or the packet is lost.                 *)
SwitchToDload ==
    /\ label = "switch_to_dload"
    /\ GotoLabel("reopen")
    /\ g_hCom' = "fd0"               \* closeport
    /\ \/ /\ Connected /\ mode = "normal"
          /\ mode' = "sahara"
          /\ boot' = "hello"
          /\ UNCHANGED <<fw, flag, same, missed, cuts, rounds>>
       \/ UNCHANGED devVars

(* The port appears again, and close_and_reopen opens it.                  *)
ReopenPort ==
    /\ label \in {"reopen", "reopen_do"}
    /\ OpenPort
    /\ GotoLabel(IF label = "reopen" THEN "sahara_download" ELSE "module_state_do")
    /\ UNCHANGED devVars

RetryHelloMutant ==      \* waits until there is a hello packet
    /\ label = "sahara_download"
    /\ \/ Connected /\ InSahara /\ GotoLabel("sahara_get_hello")
       \/ GotoLabel("sahara_download")
    /\ UNCHANGED <<g_hCom, devVars>>

(* sahara_download: whether there was a hello packet is only logged.       *)
SaharaDownload ==
    /\ label = "sahara_download"
    /\ GotoLabel("sahara_get_hello")
    /\ UNCHANGED <<g_hCom, devVars>>

(* SendHelloPacketTest; then GetReadDataPacket starts with flag = 0.       *)
SaharaGetHello ==
    /\ label = "sahara_get_hello"
    /\ label' = "read_data"
    /\ image' = "none"
    /\ \/ /\ Connected /\ InSahara
          /\ boot' = "data"
          /\ UNCHANGED <<mode, fw, flag, same, missed, cuts, rounds>>
       \/ UNCHANGED devVars
    /\ UNCHANGED <<g_hCom, emergency_diag_port, emergency_mode, reported, resent, runs>>

ServeDataMutant ==       \* the mode is taken from the port that was opened
    /\ label = "read_data"
    /\ Connected /\ InSahara /\ boot = "data"
    /\ image = "none"
    /\ image' = IF mode = "edl" THEN "ENPRG" ELSE "NPRG"
    /\ emergency_mode' = emergency_diag_port
    /\ UNCHANGED <<label, g_hCom, emergency_diag_port, reported, resent, runs, devVars>>

(* The first request decides which file is served.                         *)
ServeData ==
    /\ label = "read_data"
    /\ Connected /\ InSahara /\ boot = "data"
    /\ image = "none"
    /\ image' = IF mode = "edl" THEN "ENPRG" ELSE "NPRG"
    /\ emergency_mode' = (emergency_mode \/ mode = "edl")
    /\ UNCHANGED <<label, g_hCom, emergency_diag_port, reported, resent, runs, devVars>>

(* END_IMAGE_TRNSER_PACKET with state 0.                                   *)
EndImage ==
    /\ label = "read_data"
    /\ Connected /\ InSahara /\ boot = "data"
    /\ image # "none"
    /\ boot' = "loaded"
    /\ GotoLabel("do")
    /\ UNCHANGED <<g_hCom, mode, fw, flag, same, missed, cuts, rounds>>

(* Another hello packet: the module has started its protocol over.         *)
HelloAgain ==
    /\ label = "read_data"
    /\ Connected /\ InSahara
    /\ rounds < MaxRounds
    /\ rounds' = rounds + 1
    /\ boot' = "hello"
    /\ GotoLabel("sahara_get_hello")
    /\ UNCHANGED <<g_hCom, mode, fw, flag, same, missed, cuts>>

(* send_sahara_do_packet, and closeport. The module runs the programmer,   *)
(* or starts over.                                                         *)
SendDo ==
    /\ label = "do"
    /\ Connected /\ InSahara /\ boot = "loaded"
    /\ GotoLabel("reopen_do")
    /\ g_hCom' = "fd0"
    /\ boot' = "hello"
    /\ \/ mode' = "prog" /\ UNCHANGED rounds
       \/ /\ rounds < MaxRounds
          /\ rounds' = rounds + 1
          /\ mode' \in Boots(flag, fw)
    /\ UNCHANGED <<fw, flag, same, missed, cuts>>

(* A write or a read of the sahara protocol failed, a wait for it timed    *)
(* out, or the module reported an error. A "do" may have been carried out. *)
SaharaFails ==
    /\ label \in {"switch_to_dload", "sahara_get_hello", "read_data", "do"}
    /\ Finish("failed")
    /\ UNCHANGED <<g_hCom, boot, fw, flag, same, missed, cuts, rounds>>
    /\ \/ UNCHANGED mode
       \/ label = "do" /\ Connected /\ InSahara /\ boot = "loaded" /\ mode' = "prog"

(* A module in normal state is upgraded from the start, in the same run.   *)
ModuleStateDo ==
    /\ label = "module_state_do"
    /\ \E s \in Seen :
          CASE s = "going"  -> GotoLabel("stream_download") /\ UNCHANGED g_hCom
            [] s = "normal" -> GotoLabel("open") /\ g_hCom' = "fd0"
            [] OTHER        -> Finish("failed") /\ UNCHANGED g_hCom
    /\ UNCHANGED devVars

-----------------------------------------------------------------------------
(* stream_download. Which command each of the answers belongs to is the    *)
(* subject of Handshake; here is what may become of flag and table.        *)
ProgrammerRuns == Connected /\ mode = "prog"

(* Hello, security and partition table. The hello sets the flag if it is   *)
(* heard, but five silent waits pass for an answer. If the table is not    *)
(* accepted, or its answer does not come, it is sent with override, which  *)
(* clears the flag; an override that is lost may be taken for accepted by  *)
(* a late answer to the table.                                             *)
Shake ==
    /\ label = "stream_download"
    /\ ProgrammerRuns
    /\ same' = TRUE
    /\ \E heard, answered \in BOOLEAN :
          /\ answered => same
          /\ missed' = (~heard \/ answered # same)
          /\ IF answered
             THEN flag' = (flag \/ heard) /\ GotoLabel("flash")
             ELSE /\ flag' \in {FALSE} \cup (IF same THEN {flag \/ heard} ELSE {})
                  /\ GotoLabel("set_flag")
    /\ UNCHANGED <<g_hCom, mode, boot, fw, cuts, rounds>>

(* An answer is a refusal, or does not come: before the hello was heard,   *)
(* before an override was, or after.                                       *)
ShakeFails ==
    /\ label = "stream_download"
    /\ Finish("failed")
    /\ \/ UNCHANGED <<flag, same, missed>>
       \/ ProgrammerRuns /\ flag' = TRUE /\ UNCHANGED <<same, missed>>
       \/ ProgrammerRuns /\ flag' = FALSE /\ same' = TRUE /\ missed' = TRUE
    /\ UNCHANGED <<g_hCom, mode, boot, fw, cuts, rounds>>

SetFlagMutant ==         \* the flag is not set again
    /\ label = "set_flag"
    /\ GotoLabel("flash")
    /\ UNCHANGED <<g_hCom, devVars>>

(* handle_quectel_download_flag: a command that is lost, refused or not    *)
(* known to the programmer is only logged.                                 *)
SetFlag ==
    /\ label = "set_flag"
    /\ GotoLabel("flash")
    /\ \/ ProgrammerRuns /\ flag' = TRUE /\ UNCHANGED missed
       \/ missed' = TRUE /\ UNCHANGED flag
    /\ UNCHANGED <<g_hCom, mode, boot, fw, same, cuts, rounds>>

(* The first image reaches the flash.                                      *)
Flash ==
    /\ label = "flash"
    /\ ProgrammerRuns
    /\ fw' = "torn"
    /\ GotoLabel("flashing")
    /\ UNCHANGED <<g_hCom, mode, boot, flag, same, missed, cuts, rounds>>

(* handle_write: an answer is late or strange, and the chunk is sent once  *)
(* more. From here on an acknowledgement may be that of an earlier chunk.  *)
ResendChunk ==
    /\ label = "flashing"
    /\ ProgrammerRuns
    /\ ~resent
    /\ resent' = TRUE
    /\ UNCHANGED <<label, g_hCom, emergency_diag_port, emergency_mode, image, reported, runs,
                   devVars>>

FlashedMutant ==         \* do_streaming_download goes on after a failed image
    /\ label = "flashing"
    /\ fw' \in IF ~ProgrammerRuns THEN {fw} ELSE IF resent THEN {"new", "holed"} ELSE {"new"}
    /\ GotoLabel("reset")
    /\ UNCHANGED <<g_hCom, mode, boot, flag, same, missed, cuts, rounds>>

(* The last image is closed; every chunk is there if none was sent twice   *)
(* (StreamingDownload).                                                    *)
Flashed ==
    /\ label = "flashing"
    /\ ProgrammerRuns
    /\ fw' \in IF resent THEN {"new", "holed"} ELSE {"new"}
    /\ GotoLabel("reset")
    /\ UNCHANGED <<g_hCom, mode, boot, flag, same, missed, cuts, rounds>>

FlashFails ==
    /\ label \in {"flash", "flashing"}
    /\ Finish("failed")
    /\ UNCHANGED <<g_hCom, devVars>>

(* handle_reset does not wait; the reset clears the flag, if it arrives.   *)
Reset ==
    /\ label = "reset"
    /\ Finish("ok")
    /\ \/ /\ ProgrammerRuns
          /\ flag' = FALSE
          /\ mode' \in Boots(FALSE, fw)
          /\ UNCHANGED <<boot, fw, same, missed, cuts, rounds>>
       \/ UNCHANGED devVars
    /\ UNCHANGED g_hCom

UpgradeStep ==
    \/ OpenDiagPort \/ NoPort \/ HelloReceived \/ HelloMissed \/ ModuleState
    \/ SwitchToDload \/ ReopenPort \/ SaharaDownload \/ SaharaGetHello
    \/ ServeData \/ EndImage \/ HelloAgain \/ SendDo \/ SaharaFails \/ ModuleStateDo
    \/ Shake \/ ShakeFails \/ SetFlag \/ Flash \/ ResendChunk \/ Flashed \/ FlashFails
    \/ Reset

-----------------------------------------------------------------------------
(* The module loses power, whatever the host is doing.                     *)
PowerCut ==
    /\ cuts < MaxCuts
    /\ cuts' = cuts + 1
    /\ mode' \in Boots(flag, fw)
    /\ boot' = "hello"
    /\ UNCHANGED <<hostVars, fw, flag, same, missed, rounds>>

(* The user runs QFlash again with the same package.                       *)
RunAgain ==
    /\ label = "done"
    /\ reported = "failed"
    /\ runs < MaxRuns
    /\ runs' = runs + 1
    /\ label' = "open"
    /\ g_hCom' = "fd0"
    /\ emergency_diag_port' = FALSE
    /\ emergency_mode' = FALSE
    /\ image' = "none"
    /\ reported' = "none"
    /\ resent' = FALSE
    /\ UNCHANGED devVars

FlowNext == UpgradeStep \/ PowerCut \/ RunAgain

(* The program runs, and each of its waits has a limit; the module and the *)
(* user need not do anything.                                              *)
FlowSpec == FlowInit /\ [][FlowNext]_upgradeVars /\ WF_upgradeVars(UpgradeStep)

-----------------------------------------------------------------------------
Labels == {"open", "hello", "module_state", "switch_to_dload", "reopen", "sahara_download",
           "sahara_get_hello", "read_data", "do", "reopen_do", "module_state_do",
           "stream_download", "set_flag", "flash", "flashing", "reset"}

TypeOK ==
    /\ label \in Labels \cup {"done"}
    /\ g_hCom \in {"port", "fd0"}
    /\ emergency_diag_port \in BOOLEAN
    /\ emergency_mode \in BOOLEAN
    /\ image \in {"none", "NPRG", "ENPRG"}
    /\ reported \in {"none", "ok", "failed"}
    /\ label = "done" <=> reported # "none"
    /\ resent \in BOOLEAN
    /\ runs \in 1..MaxRuns
    /\ mode \in {"normal", "sahara", "edl", "prog", "bricked"}
    /\ boot \in {"hello", "data", "loaded"}
    /\ fw \in {"none", "old", "torn", "holed", "new"}
    /\ flag \in BOOLEAN
    /\ same \in BOOLEAN
    /\ missed \in BOOLEAN
    /\ cuts \in 0..MaxCuts
    /\ rounds \in 0..MaxRounds

(* Wherever power is cut, in this run or one before it, the module starts  *)
(* something that can be upgraded, although the flag is cleared on the way *)
(* and its failures are only logged: unless in the last handshake a        *)
(* command or an answer was lost, late or refused, or a closed image lacks *)
(* chunks. A handshake in which nothing is lost repairs an earlier one.    *)
BricksOnlyIfMissed == mode = "bricked" => missed \/ fw = "holed"

(* After a run that reports success and has sent no chunk twice, the       *)
(* module starts whole new firmware, now or at the next power cut, or      *)
(* waits for QFlash because the reset was lost; power cuts at any step,    *)
(* a flag that was missed and earlier runs that failed included.           *)
SuccessStarts ==
    reported = "ok" /\ ~resent => fw = "new" /\ mode \in {"normal", "sahara", "prog"}

(* emergency_mode, which is set and never cleared, is right when the wait  *)
(* for the port depends on it, after any number of rounds of one run.      *)
WaitsAsServed == label = "reopen_do" => (emergency_mode <=> image = "ENPRG")

(* Each loop of the flow (to sahara_get_hello and to __normal_download_)   *)
(* is taken only when the module starts over: every run ends.              *)
RunEnds == label = "open" ~> label = "done"

(* The port is open when the protocols use it.                             *)
PortIsOpen == label \in Labels \ {"open", "reopen", "reopen_do"} => g_hCom = "port"
=============================================================================
