-------------------------------- MODULE AtChannel --------------------------------
(***************************************************************************)
(* The AT channel (atchannel.cpp) under the command sequence that asks the *)
(* module to go to fastboot (process_at_fastboot_upgrade, download.cpp).   *)
(*                                                                         *)
(* Two threads share the channel: the command thread sends a command and   *)
(* waits on s_commandcond for its final response; the reader thread reads  *)
(* lines, credits them to the pending command, and tears the channel down  *)
(* when the port is gone. s_commandmutex protects the response, but        *)
(* at_close closes the port without it. Every section of the source under  *)
(* the mutex is one action, except that a command is written in a step of  *)
(* its own (the mutex is held, at_close does not care).                    *)
(*                                                                         *)
(* The module at the other end is external. A line is a record: what the   *)
(* reader takes it for, the command it answers, its number in the answer.  *)
(***************************************************************************)
EXTENDS Naturals, Sequences, SequencesExt

CONSTANTS
    Infos,      \* the information lines of the answer to "ATI;+CSUB;+CVERSION"
    MaxUrcs     \* bound: unsolicited lines of the module

ASSUME ChannelAssumption == Infos \in Nat /\ MaxUrcs \in Nat

Ate      == 1     \* "ATE0Q0V1": NO_RESULT
Ati      == 2     \* "ATI;+CSUB;+CVERSION": MULTILINE, any prefix
Qfast    == 3     \* "AT+qfastboot": NO_RESULT
Commands == Ate..Qfast

(* s_type: at_send_command or at_send_command_multiline, with the prefix   *)
(* "", that every line has.                                                *)
TypeOf(c) == IF c = Ati THEN "MULTILINE" ELSE "NO_RESULT"

VARIABLES
    cpc,                \* where the command thread is
    cmd,                \* the command it sends
    rpc,                \* where the reader thread is
    line,               \* the line readline returned
    s_commandmutex,     \* the mutex is held across steps
    s_commandcond,      \* a signal the waiting command thread has not taken
    s_onReaderClosed,   \* the callback is set
    s_readerClosed,
    s_fd,               \* s_fd >= 0
    sp_response,        \* the response of the pending command, or NULL
    returned,           \* what each at_send_command returned
    opened,             \* the descriptor is open
    hungUp,             \* the module has left the bus
    wire,               \* lines the reader has not read
    asked,              \* commands the module has not answered
    urcs,               \* unsolicited lines so far
    carriers            \* those of them that look like a final response

commandVars == <<cpc, cmd, returned>>
readerVars  == <<rpc, line>>
sharedVars  == <<s_commandmutex, s_commandcond, s_onReaderClosed, s_readerClosed,
                 s_fd, sp_response, opened>>
moduleVars  == <<hungUp, wire, asked, urcs, carriers>>
vars        == <<commandVars, readerVars, sharedVars, moduleVars>>

NoLine == [kind |-> "urc", of |-> 0, n |-> 0]
Line   == [kind : {"info", "OK", "ERROR", "urc", "sms"}, of : 0..Qfast, n : 0..Infos]

NULL        == [final |-> NoLine, lines |-> <<>>, pending |-> FALSE]
NewResponse == [final |-> NoLine, lines |-> <<>>, pending |-> TRUE]
NotReturned == [err |-> "none", final |-> NoLine, lines |-> <<>>]

IsSMSUnsolicited(l) == l.kind = "sms"

IsFinal(l) == l.kind \in {"OK", "ERROR"}

(* serial_open and at_open have returned; the reader thread runs.          *)
Init ==
    /\ cpc = "register"
    /\ cmd = Ate
    /\ returned = [c \in Commands |-> NotReturned]
    /\ rpc = "read"
    /\ line = NoLine
    /\ s_commandmutex = "free"
    /\ s_commandcond = FALSE
    /\ s_onReaderClosed = FALSE
    /\ s_readerClosed = FALSE
    /\ s_fd = TRUE
    /\ sp_response = NULL
    /\ opened = TRUE
    /\ hungUp = FALSE
    /\ wire = <<>>
    /\ asked = {}
    /\ urcs = 0
    /\ carriers = 0

(* pthread_cond_signal reaches a thread that waits, or nobody.             *)
SignalMutant ==          \* the signal is forgotten
    UNCHANGED s_commandcond

Signal == s_commandcond' = (cpc = "waiting")

HandleFinalResponse(l) ==
    /\ sp_response' = [sp_response EXCEPT !.final = l]
    /\ Signal

(* The unsolicited handler only logs.                                      *)
HandleUnsolicited == UNCHANGED <<sp_response, s_commandcond>>

(* In front of the others: the lines are collected in reverse.             *)
AddIntermediate(l) ==
    /\ sp_response' = [sp_response EXCEPT !.lines = <<l>> \o @]
    /\ UNCHANGED s_commandcond

-----------------------------------------------------------------------------
(* The reader thread. *)

(* readline returned a line; an SMS notification takes a second one.       *)
ReadLine ==
    /\ rpc = "read"
    /\ wire # <<>>
    /\ line' = Head(wire)
    /\ wire' = Tail(wire)
    /\ rpc' = IF IsSMSUnsolicited(line') THEN "read2" ELSE "process"
    /\ UNCHANGED <<commandVars, sharedVars, hungUp, asked, urcs, carriers>>

(* The second line goes to the unsolicited handler, whatever it is.        *)
ReadSecondLine ==
    /\ rpc = "read2"
    /\ wire # <<>>
    /\ wire' = Tail(wire)
    /\ rpc' = "read"
    /\ UNCHANGED <<commandVars, line, sharedVars, hungUp, asked, urcs, carriers>>

(* readline returned NULL: end of file or an error.                        *)
ReadEnd ==
    /\ rpc \in {"read", "read2"}
    /\ wire = <<>>
    /\ hungUp
    /\ rpc' = "ended"
    /\ UNCHANGED <<commandVars, line, sharedVars, moduleVars>>

ProcessLine ==
    /\ rpc = "process"
    /\ s_commandmutex = "free"
    /\ rpc' = "read"
    /\ \/ ~sp_response.pending /\ HandleUnsolicited
       \/ sp_response.pending /\ IsFinal(line) /\ HandleFinalResponse(line)
       \/ /\ sp_response.pending /\ ~IsFinal(line)
          /\ TypeOf(cmd) = "NO_RESULT"
          /\ HandleUnsolicited
       \/ /\ sp_response.pending /\ ~IsFinal(line)
          /\ TypeOf(cmd) = "MULTILINE"
          /\ AddIntermediate(line)
    /\ UNCHANGED <<commandVars, line, s_commandmutex, s_onReaderClosed, s_readerClosed,
                   s_fd, opened, moduleVars>>

(* onReaderClosed looks at its flags before it takes the mutex.            *)
CheckClosed ==
    /\ rpc = "ended"
    /\ rpc' = IF s_onReaderClosed /\ ~s_readerClosed THEN "mark" ELSE "dead"
    /\ UNCHANGED <<commandVars, line, sharedVars, moduleVars>>

MarkClosedMutant ==      \* the channel is closed first and marked afterwards
    /\ rpc = "mark"
    /\ s_commandmutex = "free"
    /\ rpc' = "close"
    /\ UNCHANGED <<commandVars, line, sharedVars, moduleVars>>

MarkClosed ==
    /\ rpc = "mark"
    /\ s_commandmutex = "free"
    /\ s_readerClosed' = TRUE
    /\ Signal
    /\ rpc' = "close"
    /\ UNCHANGED <<commandVars, line, s_commandmutex, s_onReaderClosed, s_fd,
                   sp_response, opened, moduleVars>>

(* at_close, called by onATReaderClosed: the port first, without the mutex *)
ClosePort ==
    /\ rpc = "close"
    /\ s_fd' = FALSE
    /\ opened' = IF s_fd THEN FALSE ELSE opened
    /\ rpc' = "mark2"
    /\ UNCHANGED <<commandVars, line, s_commandmutex, s_commandcond, s_onReaderClosed,
                   s_readerClosed, sp_response, moduleVars>>

(* ... then s_readerClosed again, with it.                                 *)
MarkClosedAgain ==
    /\ rpc = "mark2"
    /\ s_commandmutex = "free"
    /\ s_readerClosed' = TRUE
    /\ Signal
    /\ rpc' = "dead"
    /\ UNCHANGED <<commandVars, line, s_commandmutex, s_onReaderClosed, s_fd,
                   sp_response, opened, moduleVars>>

Reader ==
    \/ ReadLine \/ ReadSecondLine \/ ReadEnd \/ ProcessLine
    \/ CheckClosed \/ MarkClosed \/ ClosePort \/ MarkClosedAgain

-----------------------------------------------------------------------------
(* The command thread. *)

(* at_set_on_reader_closed and at_set_on_timeout.                          *)
Register ==
    /\ cpc = "register"
    /\ s_onReaderClosed' = TRUE
    /\ cpc' = "send"
    /\ UNCHANGED <<cmd, returned, readerVars, s_commandmutex, s_commandcond,
                   s_readerClosed, s_fd, sp_response, opened, moduleVars>>

(* What process_at_fastboot_upgrade does next, once at_send_command has    *)
(* returned err with a final response: only ATI has to succeed.            *)
Proceed(err, final) ==
    \/ cmd = Ate /\ cpc' = "send" /\ cmd' = Ati
    \/ /\ cmd = Ati /\ err = "ok" /\ final.kind = "OK"
       /\ cpc' = "send" /\ cmd' = Qfast
    \/ /\ cmd = Ati /\ ~(err = "ok" /\ final.kind = "OK")
       /\ cpc' = "failed" /\ UNCHANGED cmd
    \/ /\ cmd = Qfast
       /\ cpc' = IF err = "closed" THEN "close" ELSE "wait_adb"
       /\ UNCHANGED cmd

ReverseIntermediatesMutant(lines) == lines    \* as they were collected

ReverseIntermediates(lines) == Reverse(lines)

ClearPendingCommand == sp_response' = NULL

(* The caller of "ATI" gets the lines, the others throw them away.         *)
Return(err) ==
    /\ returned' = [returned EXCEPT ![cmd] =
          [err |-> err, final |-> sp_response.final,
           lines |-> ReverseIntermediates(sp_response.lines)]]
    /\ ClearPendingCommand
    /\ Proceed(err, sp_response.final)

(* The mutex is taken, no command is pending, and writeline finds the port *)
(* open.                                                                   *)
CheckChannel ==
    /\ cpc = "send"
    /\ s_commandmutex = "free"
    /\ s_fd /\ ~s_readerClosed
    /\ s_commandmutex' = "command"
    /\ cpc' = "write"
    /\ UNCHANGED <<cmd, returned, readerVars, s_commandcond, s_onReaderClosed,
                   s_readerClosed, s_fd, sp_response, opened, moduleVars>>

SendOnClosed ==
    /\ cpc = "send"
    /\ s_commandmutex = "free"
    /\ ~s_fd \/ s_readerClosed
    /\ Return("closed")
    /\ UNCHANGED <<readerVars, s_commandmutex, s_commandcond, s_onReaderClosed,
                   s_readerClosed, s_fd, opened, moduleVars>>

(* The command is written; pthread_cond_wait releases the mutex.           *)
WriteCommand ==
    /\ cpc = "write"
    /\ ~hungUp
    /\ asked' = asked \cup {cmd}
    /\ sp_response' = NewResponse
    /\ s_commandcond' = FALSE
    /\ s_commandmutex' = "free"
    /\ cpc' = "waiting"
    /\ UNCHANGED <<cmd, returned, readerVars, s_onReaderClosed, s_readerClosed, s_fd,
                   opened, hungUp, wire, urcs, carriers>>

WriteFails ==
    /\ cpc = "write"
    /\ Return("generic")
    /\ s_commandmutex' = "free"
    /\ UNCHANGED <<readerVars, s_commandcond, s_onReaderClosed, s_readerClosed, s_fd,
                   opened, moduleVars>>

WakeMutant ==            \* the time given to at_set_on_timeout is honoured
    /\ cpc = "waiting"
    /\ s_commandmutex = "free"
    /\ IF sp_response.final = NoLine THEN Return("timeout") ELSE Return("ok")
    /\ s_commandcond' = FALSE
    /\ UNCHANGED <<readerVars, s_commandmutex, s_onReaderClosed, s_readerClosed, s_fd,
                   opened, moduleVars>>

(* Woken by a signal. The wait has no timeout: timeoutMsec is 0 in every   *)
(* call, and s_timeoutMsec, which is not, is only used if it is 0.         *)
Wake ==
    /\ cpc = "waiting"
    /\ s_commandcond
    /\ s_commandmutex = "free"
    /\ s_commandcond' = FALSE
    /\ sp_response.final # NoLine \/ s_readerClosed
    /\ Return(IF s_readerClosed THEN "closed" ELSE "ok")
    /\ UNCHANGED <<readerVars, s_commandmutex, s_onReaderClosed, s_readerClosed, s_fd,
                   opened, moduleVars>>

(* close(modem_fd): the descriptor at_close closes as well.                *)
CloseModem ==
    /\ cpc = "close"
    /\ opened' = FALSE
    /\ cpc' = "wait_adb"
    /\ UNCHANGED <<cmd, returned, readerVars, s_commandmutex, s_commandcond,
                   s_onReaderClosed, s_readerClosed, s_fd, sp_response, moduleVars>>

Command ==
    \/ Register \/ CheckChannel \/ SendOnClosed \/ WriteCommand \/ WriteFails
    \/ Wake \/ CloseModem

-----------------------------------------------------------------------------
(* The module (external). It answers each command once, in full, or never, *)
(* and in their order; it may leave the bus at any time, and what was not  *)
(* read is then lost.                                                      *)

Answer ==
    /\ ~hungUp
    /\ \E c \in asked, k \in {"OK", "ERROR"} :
          /\ asked' = {d \in asked : d > c}
          /\ wire' = wire
                \o (IF c = Ati /\ k = "OK"
                    THEN [i \in 1..Infos |-> [kind |-> "info", of |-> c, n |-> i]]
                    ELSE <<>>)
                \o <<[kind |-> k, of |-> c, n |-> 0]>>
    /\ UNCHANGED <<commandVars, readerVars, sharedVars, hungUp, urcs, carriers>>

(* An ERROR of no command is the NO CARRIER of a call: "some final         *)
(* responses are sometimes unsolicited".                                   *)
Unsolicited ==
    /\ ~hungUp
    /\ urcs < MaxUrcs
    /\ urcs' = urcs + 1
    /\ \E k \in {"urc", "sms", "ERROR"} :
          /\ wire' = Append(wire, [kind |-> k, of |-> 0, n |-> 0])
          /\ carriers' = carriers + (IF k = "ERROR" THEN 1 ELSE 0)
    /\ UNCHANGED <<commandVars, readerVars, sharedVars, hungUp, asked>>

HangUp ==
    /\ ~hungUp
    /\ hungUp' = TRUE
    /\ \E k \in 0..Len(wire) : wire' = SubSeq(wire, 1, k)
    /\ UNCHANGED <<commandVars, readerVars, sharedVars, asked, urcs, carriers>>

Module == Answer \/ Unsolicited \/ HangUp

Next == Command \/ Reader \/ Module

(* Both threads run; the module need not do anything.                      *)
Spec == Init /\ [][Next]_vars /\ WF_vars(Command) /\ WF_vars(Reader)

-----------------------------------------------------------------------------
Response == [final : Line, lines : Seq(Line), pending : BOOLEAN]

(* The types, and who may hold the mutex, a signal and a response.         *)
TypeOK ==
    /\ cpc \in {"register", "send", "write", "waiting", "close", "wait_adb", "failed"}
    /\ cmd \in Commands
    /\ rpc \in {"read", "read2", "process", "ended", "mark", "close", "mark2", "dead"}
    /\ line \in Line
    /\ s_commandmutex \in {"free", "command"}
    /\ s_commandcond \in BOOLEAN
    /\ s_onReaderClosed \in BOOLEAN
    /\ s_readerClosed \in BOOLEAN
    /\ s_fd \in BOOLEAN
    /\ sp_response \in Response
    /\ returned \in [Commands -> [err : {"none", "ok", "closed", "generic", "timeout"},
                                  final : Line, lines : Seq(Line)]]
    /\ opened \in BOOLEAN
    /\ hungUp \in BOOLEAN
    /\ wire \in Seq(Line)
    /\ asked \subseteq Commands
    /\ urcs \in 0..MaxUrcs
    /\ carriers \in 0..urcs
    /\ s_commandmutex = "command" <=> cpc = "write"
    /\ sp_response.pending <=> cpc = "waiting"
    /\ s_commandcond => cpc = "waiting"

(* The port is not closed under the command thread while it writes to it,  *)
(* though at_close takes the mutex only after the close.                   *)
WritesToOpenPort == cpc = "write" => opened /\ s_fd

(* A command that returned was ended by its own final line. Each final     *)
(* response that comes unsolicited may end one command too early, and put  *)
(* the answers one command behind, never more.                             *)
OwnAnswer ==
    \A c \in Commands : returned[c].err = "ok" =>
        LET of == returned[c].final.of
        IN IF of = 0 THEN carriers > 0 ELSE of <= c /\ c - of <= carriers

(* Whoever reads the answer to ATI finds its lines in the order the module *)
(* sent them, none twice; a line is missing only if an SMS notification    *)
(* swallowed it or something else unsolicited ended the command early.     *)
IsInfo(l, n) == l.kind = "info" /\ l.n = n

AnswerInOrder ==
    \A c \in Commands : returned[c].err = "ok" =>
        LET lines == returned[c].lines
        IN /\ \A i, j \in 1..Len(lines) :
                 i < j /\ lines[i].kind = "info" /\ lines[j].kind = "info" =>
                    lines[i].n < lines[j].n
           /\ urcs = 0 /\ returned[c].final.kind = "OK" /\ c = Ati =>
                 \A n \in 1..Infos : \E i \in 1..Len(lines) : IsInfo(lines[i], n)

(* When the module leaves the bus the command thread gets to the end of    *)
(* its sequence, wherever it was and whichever flag the reader saw first.  *)
HangUpEndsWait == hungUp ~> cpc \in {"wait_adb", "failed"}

(* at_set_on_timeout(onATTimeout, 15000): no command waits for ever.       *)
CommandReturns == cpc = "waiting" ~> cpc # "waiting"
=============================================================================
