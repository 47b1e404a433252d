-------------------------------- MODULE Handshake --------------------------------
(***************************************************************************)
(* The handshake with the programmer that runs on the module, before any   *)
(* image is flashed: handle_hello, handle_security_mode, handle_parti_tbl  *)
(* and handle_quectel_download_flag (serialif.cpp), in the order of        *)
(* stream_download (process_streaming_fastboot_upgarde, download.cpp).     *)
(*                                                                         *)
(* The hello makes the module set its download flag: if the upgrade is     *)
(* interrupted, the module starts in download mode. Overriding the         *)
(* partition table clears the flag, so the host sets it again.             *)
(*                                                                         *)
(* Each handler sends one command and waits for its answer, at most        *)
(* Tries times. Only the hello flushes the line: an answer that comes      *)
(* after its handler has given up is read by the next one. The programmer  *)
(* and the line are external.                                              *)
(***************************************************************************)
EXTENDS Naturals, Sequences

CONSTANTS
    Tries,      \* int timeout = 5 of every handler
    Refuses,    \* BOOLEAN: the programmer may refuse what it is asked
    MaxLogs     \* bound: log packets of the programmer

ASSUME HandshakeAssumption ==
    /\ Tries \in Nat \ {0}
    /\ Refuses \in BOOLEAN
    /\ MaxLogs \in Nat

VARIABLES
    pc,         \* the handler in progress; "flash" and "failed" end it
    sent,       \* the handler has sent its command
    timeout,    \* the handler's local
    late,       \* history: some wait for an answer timed out
    toDev,      \* commands on their way
    toHost,     \* answers the next read would return
    same,       \* the package has the partition table of the module
    trusted,    \* the programmer is in trusted mode
    accepted,   \* the programmer has accepted the partition table
    flag,       \* the module's download flag
    refused,    \* history: the programmer has refused a command
    logs        \* log packets so far

hostVars == <<pc, sent, timeout, late>>
devVars  == <<same, trusted, accepted, flag, refused, logs>>
vars     == <<hostVars, toDev, toHost, devVars>>

(* 0x01, 0x17 and 0x60; 0x19 without and with override.                    *)
Command  == {"hello", "security", "table", "override", "setflag"}

(* 0x02; 0x18; 0x1a and 0x61 with status 0 and with another; 0x0e; 0x0d.   *)
Answers  == {"hello", "trusted", "tableOk", "tableBad", "flagOk", "flagBad",
             "invalid", "log"}

Init ==
    /\ pc = "hello"
    /\ sent = FALSE
    /\ timeout = 0
    /\ late = FALSE
    /\ toDev = <<>>
    /\ toHost = <<>>
    /\ same \in BOOLEAN
    /\ trusted = FALSE
    /\ accepted = FALSE
    /\ flag = FALSE
    /\ refused = FALSE
    /\ logs = 0

-----------------------------------------------------------------------------
(* The host. *)

Goto(p) ==
    /\ pc' = p
    /\ sent' = FALSE
    /\ timeout' = 0
    /\ UNCHANGED late

(* The handler's command is written to the port, or lost on it.            *)
Send ==
    /\ ~sent
    /\ pc \in Command
    /\ sent' = TRUE
    /\ timeout' = Tries
    /\ IF pc = "hello"           \* qdl_flush_fifo(g_hCom, 1, 1, 0)
       THEN /\ toHost' = <<>>
            /\ toDev' \in {<<>>, <<pc>>}
       ELSE /\ UNCHANGED toHost
            /\ toDev' \in {toDev, Append(toDev, pc)}
    /\ UNCHANGED <<pc, late, devVars>>

(* handle_parti_tbl cannot read the table's file: nothing is sent.         *)
Unreadable ==
    /\ ~sent
    /\ pc \in {"table", "override"}
    /\ Goto(IF pc = "table" THEN "override" ELSE "failed")
    /\ UNCHANGED <<toDev, toHost, devVars>>

(* receive_packet: all that has arrived, of which the first byte counts.   *)
Receive(r) ==
    /\ sent
    /\ toHost # <<>>
    /\ Head(toHost) = r
    /\ toHost' = <<>>

Greeted ==
    /\ pc = "hello"
    /\ Receive("hello")
    /\ Goto("security")
    /\ UNCHANGED <<toDev, devVars>>

(* "continue" leaves timeout as it is.                                     *)
HelloLog ==
    /\ pc = "hello"
    /\ Receive("log")
    /\ UNCHANGED <<hostVars, toDev, devVars>>

HelloRefused ==
    /\ pc = "hello"
    /\ \E r \in Answers \ {"hello", "log"} : Receive(r)
    /\ Goto("failed")
    /\ UNCHANGED <<toDev, devVars>>

TrustedMutant ==         \* whatever arrives is the answer
    /\ pc = "security"
    /\ \E r \in Answers : Receive(r)
    /\ Goto("table")
    /\ UNCHANGED <<toDev, devVars>>

Trusted ==
    /\ pc = "security"
    /\ Receive("trusted")
    /\ Goto("table")
    /\ UNCHANGED <<toDev, devVars>>

NotTrusted ==
    /\ pc = "security"
    /\ \E r \in Answers \ {"trusted"} : Receive(r)
    /\ Goto("failed")
    /\ UNCHANGED <<toDev, devVars>>

TableAcceptedMutant ==   \* the flag is not set again after an override
    /\ pc \in {"table", "override"}
    /\ Receive("tableOk")
    /\ Goto("flash")
    /\ UNCHANGED <<toDev, devVars>>

TableAccepted ==
    /\ pc \in {"table", "override"}
    /\ Receive("tableOk")
    /\ Goto(IF pc = "table" THEN "flash" ELSE "setflag")
    /\ UNCHANGED <<toDev, devVars>>

(* Whatever else arrives for the table is a mismatch, for the override the *)
(* end.                                                                    *)
TableRefused ==
    /\ pc \in {"table", "override"}
    /\ \E r \in Answers \ {"tableOk"} : Receive(r)
    /\ Goto(IF pc = "table" THEN "override" ELSE "failed")
    /\ UNCHANGED <<toDev, devVars>>

(* The result of handle_quectel_download_flag is only logged.              *)
FlagAnswered ==
    /\ pc = "setflag"
    /\ \E r \in Answers : Receive(r)
    /\ Goto("flash")
    /\ UNCHANGED <<toDev, devVars>>

WaitAgainMutant ==       \* timeout-- is forgotten
    /\ sent
    /\ toHost = <<>>
    /\ timeout > 1
    /\ late' = TRUE
    /\ UNCHANGED <<pc, sent, timeout, toDev, toHost, devVars>>

WaitAgain ==
    /\ sent
    /\ toHost = <<>>
    /\ timeout > 1
    /\ timeout' = timeout - 1
    /\ late' = TRUE
    /\ UNCHANGED <<pc, sent, toDev, toHost, devVars>>

(* The last timeout: handle_hello returns 1 and handle_parti_tbl 0, which  *)
(* for the table without override is a mismatch.                           *)
GiveUp ==
    /\ sent
    /\ toHost = <<>>
    /\ timeout = 1
    /\ pc' = CASE pc = "hello"    -> "security"
               [] pc = "security" -> "failed"
               [] pc = "table"    -> "override"
               [] pc = "override" -> "failed"
               [] pc = "setflag"  -> "flash"
    /\ sent' = FALSE
    /\ timeout' = 0
    /\ late' = TRUE
    /\ UNCHANGED <<toDev, toHost, devVars>>

Host ==
    \/ Send \/ Unreadable \/ WaitAgain \/ GiveUp
    \/ Greeted \/ HelloLog \/ HelloRefused \/ Trusted \/ NotTrusted
    \/ TableAccepted \/ TableRefused \/ FlagAnswered

-----------------------------------------------------------------------------
(* The programmer (external). *)

Take(c) ==
    /\ toDev # <<>>
    /\ Head(toDev) = c
    /\ toDev' = Tail(toDev)
    /\ UNCHANGED <<hostVars, same, logs>>

(* An answer may be lost. *)
Say(r) == toHost' \in {toHost, Append(toHost, r)}

DevHello ==
    /\ Take("hello")
    /\ flag' = TRUE
    /\ Say("hello")
    /\ UNCHANGED <<trusted, accepted, refused>>

DevSecurity ==
    /\ Take("security")
    /\ trusted' = TRUE
    /\ Say("trusted")
    /\ UNCHANGED <<accepted, flag, refused>>

(* Without override the table is accepted if it is the module's.           *)
DevTable ==
    /\ Take("table")
    /\ accepted' = same
    /\ Say(IF same THEN "tableOk" ELSE "tableBad")
    /\ UNCHANGED <<trusted, flag, refused>>

DevOverride ==
    /\ Take("override")
    /\ flag' = FALSE
    /\ accepted' = TRUE
    /\ Say("tableOk")
    /\ UNCHANGED <<trusted, refused>>

DevSetFlag ==
    /\ Take("setflag")
    /\ flag' = TRUE
    /\ Say("flagOk")
    /\ UNCHANGED <<trusted, accepted, refused>>

(* A status that is not 0, or "invalid command".                           *)
DevRefuse ==
    /\ Refuses
    /\ \E c \in Command, r \in {"tableBad", "flagBad", "invalid"} :
          /\ Take(c)
          /\ r = "tableBad" => c \in {"table", "override"}
          /\ r = "flagBad" => c = "setflag"
          /\ Say(r)
    /\ refused' = TRUE
    /\ UNCHANGED <<trusted, accepted, flag>>

DevLog ==
    /\ logs < MaxLogs
    /\ logs' = logs + 1
    /\ toHost' = Append(toHost, "log")
    /\ UNCHANGED <<hostVars, toDev, same, trusted, accepted, flag, refused>>

Programmer ==
    \/ DevHello \/ DevSecurity \/ DevTable \/ DevOverride \/ DevSetFlag
    \/ DevRefuse \/ DevLog

Next == Host \/ Programmer

(* The waits of the host end by themselves.                                *)
Spec == Init /\ [][Next]_vars /\ WF_vars(Host)

-----------------------------------------------------------------------------
TypeOK ==
    /\ pc \in Command \cup {"flash", "failed"}
    /\ sent \in BOOLEAN
    /\ timeout \in 0..Tries
    /\ sent <=> timeout > 0
    /\ late \in BOOLEAN
    /\ toDev \in Seq(Command)
    /\ toHost \in Seq(Answers)
    /\ same \in BOOLEAN /\ trusted \in BOOLEAN /\ accepted \in BOOLEAN
    /\ flag \in BOOLEAN /\ refused \in BOOLEAN
    /\ logs \in 0..MaxLogs

(* Nothing is flashed to a programmer that has not been told to trust the  *)
(* host and has not accepted this package's partition table, whichever     *)
(* command a late answer belonged to.                                      *)
FlashIsAccepted == pc = "flash" => trusted /\ accepted

(* With a prompt programmer that refuses nothing and sends no log packets, *)
(* the download flag is set when the first image is flashed, also after an *)
(* override.                                                               *)
PromptFlashIsFlagged == pc = "flash" /\ ~late /\ ~refused /\ logs = 0 => flag

(* "the download flag will be clear, so set it again": a package with      *)
(* another partition table is only flashed with the flag set.              *)
OverrideIsFlagged == pc = "flash" /\ ~same => flag

(* The handshake ends, whatever the programmer does.                       *)
Ends == <>(pc \in {"flash", "failed"})
=============================================================================
