---------------------------- MODULE AtChannelProofs ----------------------------
(***************************************************************************)
(* What is proved of AtChannel, for every number of information lines and  *)
(* of unsolicited lines: the type invariant with who holds the mutex, that *)
(* the port is never closed under a command that is being written, that no *)
(* signal is lost, so that the command thread only waits for what has not  *)
(* happened yet; and of the answers, that each command gets its own unless *)
(* carriers came between (AnswersAreOwn), and the caller of ATI its lines  *)
(* in order and whole (AnswersComeWhole). The last two rest on the order   *)
(* of what is on its way to the reader (OrderInv), on a count of carriers  *)
(* (CountInv) and on where the lines of an answer are (WholeInv).          *)
(***************************************************************************)
EXTENDS AtChannel, FiniteSetTheorems, TLAPS

(* The safety part of HangUpEndsWait: a command thread that waits although *)
(* its final response is there, or the reader has closed, has been         *)
(* signalled (handleFinalResponse, onReaderClosed, at_close).              *)
NoLostSignal ==
    cpc = "waiting" /\ (sp_response.final # NoLine \/ s_readerClosed) => s_commandcond

(* Why the port stays open under writeline: at_close runs after            *)
(* onReaderClosed has marked the channel, a command is only written on a   *)
(* channel that is not marked, and the mark needs the mutex.               *)
PortInv ==
    /\ rpc \in {"close", "mark2"} => s_readerClosed
    /\ cpc = "write" => s_fd /\ ~s_readerClosed
    /\ ~opened => ~s_fd \/ cpc = "wait_adb"

IInv == TypeOK /\ PortInv /\ NoLostSignal

(* The place holder of no line is a line.                                  *)
LEMMA NoLineIsLine == NoLine \in Line
  BY ChannelAssumption DEF NoLine, Line, Qfast

(* No response is pending, or a new one is.                                *)
LEMMA FreshResponses == NULL \in Response /\ NewResponse \in Response
  BY NoLineIsLine DEF NULL, NewResponse, Response

(* What a command returns is typed, and its lines are the collected ones   *)
(* turned round.                                                           *)
LEMMA ReturnedType ==
  ASSUME TypeOK, NEW err \in {"ok", "closed", "generic"}, Return(err)
  PROVE  /\ returned' \in [Commands -> [err : {"none", "ok", "closed", "generic", "timeout"},
                                        final : Line, lines : Seq(Line)]]
         /\ sp_response' = NULL
<1>1. sp_response.lines \in Seq(Line) /\ sp_response.final \in Line
  BY DEF TypeOK, Response
<1>2. ReverseIntermediates(sp_response.lines) \in Seq(Line)
  <2> DEFINE s == sp_response.lines
  <2>1. Len(s) \in Nat /\ \A i \in 1..Len(s) : s[i] \in Line
    BY <1>1
  <2>2. \A i \in 1..Len(s) : (Len(s) - i) + 1 \in 1..Len(s)
    BY <2>1
  <2>3. \A i \in 1..Len(s) : s[(Len(s) - i) + 1] \in Line
    BY <2>1, <2>2
  <2> HIDE DEF s
  <2>4. [i \in 1..Len(s) |-> s[(Len(s) - i) + 1]] \in Seq(Line)
    BY <2>1, <2>3
  <2> QED
    BY <2>4 DEF ReverseIntermediates, Reverse, s
<1>3. [err |-> err, final |-> sp_response.final,
       lines |-> ReverseIntermediates(sp_response.lines)]
        \in [err : {"none", "ok", "closed", "generic", "timeout"},
             final : Line, lines : Seq(Line)]
  BY <1>1, <1>2
<1>4. returned \in [Commands -> [err : {"none", "ok", "closed", "generic", "timeout"},
                                 final : Line, lines : Seq(Line)]]
  BY DEF TypeOK
<1>5. sp_response' = NULL
  BY DEF Return, ClearPendingCommand
<1>6. returned' = [returned EXCEPT ![cmd] =
          [err |-> err, final |-> sp_response.final,
           lines |-> ReverseIntermediates(sp_response.lines)]]
  BY DEF Return
<1> QED
  BY <1>3, <1>4, <1>5, <1>6

(* Where process_at_fastboot_upgrade goes after a command.                 *)
LEMMA ProceedType ==
  ASSUME TypeOK, NEW err, NEW final, Proceed(err, final)
  PROVE  cpc' \in {"send", "failed", "close", "wait_adb"} /\ cmd' \in Commands
  BY DEF TypeOK, Proceed, Commands, Ate, Ati, Qfast

(* Whatever a command returns, the pending response is gone and nothing is *)
(* written or waited for.                                                  *)
LEMMA ReturnKeeps ==
  ASSUME IInv, NEW err \in {"ok", "closed", "generic"}, Return(err),
         cpc # "wait_adb", s_commandmutex' = "free", s_commandcond' = FALSE,
         UNCHANGED <<readerVars, s_onReaderClosed, s_readerClosed, s_fd, opened, moduleVars>>
  PROVE  IInv'
<1>1. cpc' \in {"send", "failed", "close", "wait_adb"} /\ cmd' \in Commands
  BY ProceedType DEF Return, IInv
<1>2. /\ returned' \in [Commands -> [err : {"none", "ok", "closed", "generic", "timeout"},
                                     final : Line, lines : Seq(Line)]]
      /\ sp_response' = NULL
  BY ReturnedType DEF IInv
<1>3. TypeOK'
  BY <1>1, <1>2, FreshResponses DEF IInv, TypeOK, readerVars, moduleVars, NULL
<1>4. PortInv'
  BY <1>1, <1>2 DEF IInv, PortInv, Return, Proceed, readerVars
<1>5. NoLostSignal'
  BY <1>1 DEF NoLostSignal
<1> QED
  BY <1>3, <1>4, <1>5 DEF IInv

(* One lemma per thread: each of its steps keeps the invariant.            *)
LEMMA CommandKeeps ==
  ASSUME IInv, Command
  PROVE  IInv'
<1> USE DEF IInv, commandVars, readerVars, sharedVars, moduleVars
<1>1. CASE Register
  BY <1>1 DEF Register, TypeOK, PortInv, NoLostSignal
<1>2. CASE CheckChannel
  BY <1>2 DEF CheckChannel, TypeOK, PortInv, NoLostSignal
<1>3. CASE SendOnClosed
  BY <1>3, ReturnKeeps DEF SendOnClosed, TypeOK
<1>4. CASE WriteCommand
  <2>1. TypeOK'
    BY <1>4, FreshResponses DEF WriteCommand, TypeOK, NewResponse
  <2>2. PortInv' /\ NoLostSignal'
    BY <1>4 DEF WriteCommand, TypeOK, PortInv, NoLostSignal, NewResponse
  <2> QED
    BY <2>1, <2>2
<1>5. CASE WriteFails
  BY <1>5, ReturnKeeps DEF WriteFails, TypeOK
<1>6. CASE Wake
  BY <1>6, ReturnKeeps DEF Wake, TypeOK
<1>7. CASE CloseModem
  BY <1>7 DEF CloseModem, TypeOK, PortInv, NoLostSignal
<1> QED
  BY <1>1, <1>2, <1>3, <1>4, <1>5, <1>6, <1>7 DEF Command

(* The lines the reader takes from the wire and credits to a response.     *)
LEMMA WireTypes ==
  ASSUME TypeOK, wire # <<>>
  PROVE  Head(wire) \in Line /\ Tail(wire) \in Seq(Line)
  BY DEF TypeOK

(* A line that is credited leaves the pending response typed.              *)
LEMMA CreditedType ==
  ASSUME TypeOK,
         \/ UNCHANGED sp_response
         \/ sp_response' = [sp_response EXCEPT !.final = line]
         \/ sp_response' = [sp_response EXCEPT !.lines = <<line>> \o @]
  PROVE  sp_response' \in Response /\ sp_response'.pending = sp_response.pending
<1>1. line \in Line /\ sp_response.lines \in Seq(Line) /\ sp_response \in Response
  BY DEF TypeOK, Response
<1>2. <<line>> \o sp_response.lines \in Seq(Line)
  <2>1. <<line>> \in Seq(Line)
    BY <1>1
  <2> QED
    BY <1>1, <2>1
<1> QED
  BY <1>1, <1>2 DEF Response

(* The reader thread: what it credits and signals, and that at_close comes *)
(* after the channel was marked.                                           *)
LEMMA ReaderKeeps ==
  ASSUME IInv, Reader
  PROVE  IInv'
<1> USE DEF IInv, commandVars, readerVars, sharedVars, moduleVars
<1>1. CASE ReadLine
  BY <1>1, WireTypes DEF ReadLine, TypeOK, PortInv, NoLostSignal
<1>2. CASE ReadSecondLine
  BY <1>2, WireTypes DEF ReadSecondLine, TypeOK, PortInv, NoLostSignal
<1>3. CASE ReadEnd
  BY <1>3 DEF ReadEnd, TypeOK, PortInv, NoLostSignal
<1>4. CASE ProcessLine
  <2>1. \/ UNCHANGED <<sp_response, s_commandcond>>
        \/ /\ sp_response.pending
           /\ sp_response' = [sp_response EXCEPT !.final = line]
           /\ s_commandcond' = (cpc = "waiting")
        \/ /\ sp_response' = [sp_response EXCEPT !.lines = <<line>> \o @]
           /\ UNCHANGED s_commandcond
    BY <1>4 DEF ProcessLine, HandleUnsolicited, HandleFinalResponse, AddIntermediate, Signal
  <2>2. sp_response' \in Response /\ sp_response'.pending = sp_response.pending
    BY <2>1, CreditedType
  <2>3. TypeOK'
    <3>1. s_commandcond' \in BOOLEAN /\ (s_commandcond' => cpc = "waiting")
      <4>1. s_commandcond \in BOOLEAN /\ (s_commandcond => cpc = "waiting")
        BY DEF TypeOK
      <4>2. CASE UNCHANGED s_commandcond
        BY <4>1, <4>2
      <4>3. CASE s_commandcond' = (cpc = "waiting")
        BY <4>3
      <4> QED
        BY <2>1, <4>2, <4>3
    <3>2. sp_response'.pending <=> cpc = "waiting"
      BY <2>2 DEF TypeOK
    <3>3. /\ rpc' = "read"
          /\ UNCHANGED <<commandVars, line, s_commandmutex, s_onReaderClosed,
                         s_readerClosed, s_fd, opened, moduleVars>>
      BY <1>4 DEF ProcessLine
    <3> QED
      BY <2>2, <3>1, <3>2, <3>3 DEF TypeOK
  <2>4. PortInv'
    BY <1>4 DEF ProcessLine, PortInv
  <2>5. \/ UNCHANGED <<sp_response, s_commandcond>>
        \/ sp_response'.final = sp_response.final /\ UNCHANGED s_commandcond
        \/ s_commandcond' = (cpc = "waiting")
    BY <2>1 DEF TypeOK, Response
  <2>6. NoLostSignal'
    BY <1>4, <2>5 DEF ProcessLine, NoLostSignal
  <2> QED
    BY <2>3, <2>4, <2>6
<1>5. CASE CheckClosed
  BY <1>5 DEF CheckClosed, TypeOK, PortInv, NoLostSignal
<1>6. CASE MarkClosed
  BY <1>6 DEF MarkClosed, Signal, TypeOK, PortInv, NoLostSignal
<1>7. CASE ClosePort
  BY <1>7 DEF ClosePort, TypeOK, PortInv, NoLostSignal
<1>8. CASE MarkClosedAgain
  BY <1>8 DEF MarkClosedAgain, Signal, TypeOK, PortInv, NoLostSignal
<1> QED
  BY <1>1, <1>2, <1>3, <1>4, <1>5, <1>6, <1>7, <1>8 DEF Reader

(* What the module puts on the wire is lines, and what a hang-up leaves of *)
(* it too.                                                                 *)
LEMMA ModuleKeeps ==
  ASSUME IInv, Module
  PROVE  IInv'
<1> USE DEF IInv, commandVars, readerVars, sharedVars, moduleVars
<1>1. CASE Answer
  <2>1. PICK c \in asked, k \in {"OK", "ERROR"} :
          /\ asked' = {d \in asked : d > c}
          /\ wire' = wire
                \o (IF c = Ati /\ k = "OK"
                    THEN [i \in 1..Infos |-> [kind |-> "info", of |-> c, n |-> i]]
                    ELSE <<>>)
                \o <<[kind |-> k, of |-> c, n |-> 0]>>
    BY <1>1 DEF Answer
  <2>2. c \in 0..Qfast
    BY DEF TypeOK, Commands, Ate, Qfast
  <2>3. <<[kind |-> k, of |-> c, n |-> 0]>> \in Seq(Line)
    BY <2>2, ChannelAssumption DEF Line
  <2>4. [i \in 1..Infos |-> [kind |-> "info", of |-> c, n |-> i]] \in Seq(Line)
    BY <2>2, ChannelAssumption DEF Line
  <2>5. (IF c = Ati /\ k = "OK"
         THEN [i \in 1..Infos |-> [kind |-> "info", of |-> c, n |-> i]]
         ELSE <<>>) \in Seq(Line)
    BY <2>4
  <2>6. wire' \in Seq(Line)
    BY <2>1, <2>3, <2>5 DEF TypeOK
  <2> QED
    BY <1>1, <2>1, <2>6 DEF Answer, TypeOK, PortInv, NoLostSignal
<1>2. CASE Unsolicited
  <2>1. PICK k \in {"urc", "sms", "ERROR"} :
          /\ wire' = Append(wire, [kind |-> k, of |-> 0, n |-> 0])
          /\ carriers' = carriers + (IF k = "ERROR" THEN 1 ELSE 0)
    BY <1>2 DEF Unsolicited
  <2>2. [kind |-> k, of |-> 0, n |-> 0] \in Line
    BY ChannelAssumption DEF Line, Qfast
  <2>3. wire' \in Seq(Line)
    BY <2>1, <2>2 DEF TypeOK
  <2>4. urcs' \in 0..MaxUrcs /\ carriers' \in 0..urcs'
    BY <1>2, <2>1, ChannelAssumption DEF Unsolicited, TypeOK
  <2> QED
    BY <1>2, <2>3, <2>4 DEF Unsolicited, TypeOK, PortInv, NoLostSignal
<1>3. CASE HangUp
  <2>1. PICK k \in 0..Len(wire) : wire' = SubSeq(wire, 1, k)
    BY <1>3 DEF HangUp
  <2>2. wire' \in Seq(Line)
    BY <2>1 DEF TypeOK
  <2> QED
    BY <1>3, <2>2 DEF HangUp, TypeOK, PortInv, NoLostSignal
<1> QED
  BY <1>1, <1>2, <1>3 DEF Module

(* At the start the port is open and nobody waits.                         *)
LEMMA InitHolds == Init => IInv
<1> SUFFICES ASSUME Init PROVE IInv
  OBVIOUS
<1>1. returned \in [Commands -> [err : {"none", "ok", "closed", "generic", "timeout"},
                                 final : Line, lines : Seq(Line)]]
  BY NoLineIsLine DEF Init, NotReturned
<1>2. sp_response \in Response /\ sp_response.pending = FALSE
  <2>1. NULL.pending = FALSE
    BY DEF NULL
  <2> QED
    BY <2>1, FreshResponses DEF Init
<1>3. urcs \in 0..MaxUrcs /\ carriers \in 0..urcs /\ cmd \in Commands
  BY ChannelAssumption DEF Init, Commands, Ate, Qfast
<1>4. TypeOK
  <2>1. /\ cpc = "register" /\ rpc = "read" /\ line \in Line
        /\ s_commandmutex = "free" /\ s_commandcond = FALSE
        /\ wire \in Seq(Line) /\ asked \subseteq Commands
    BY NoLineIsLine DEF Init
  <2>2. /\ s_onReaderClosed \in BOOLEAN /\ s_readerClosed \in BOOLEAN
        /\ s_fd \in BOOLEAN /\ opened \in BOOLEAN /\ hungUp \in BOOLEAN
    BY DEF Init
  <2> QED
    BY <1>1, <1>2, <1>3, <2>1, <2>2 DEF TypeOK
<1>5. NoLostSignal /\ PortInv
  BY DEF Init, PortInv, NoLostSignal
<1> QED
  BY <1>4, <1>5 DEF IInv

(* Steps of others leave the invariant alone.                              *)
LEMMA StutterKeeps == IInv /\ UNCHANGED vars => IInv'
  BY DEF vars, commandVars, readerVars, sharedVars, moduleVars, IInv, TypeOK, PortInv,
         NoLostSignal

(* The invariant holds in every reachable state, for any answers, any      *)
(* unsolicited lines and a hang-up at any moment.                          *)
THEOREM Invariant == Spec => []IInv
<1>1. IInv /\ [Next]_vars => IInv'
  BY CommandKeeps, ReaderKeeps, ModuleKeeps, StutterKeeps DEF Next
<1> QED
  BY InitHolds, <1>1, PTL DEF Spec

(* The types, and that the mutex is held exactly while a command is        *)
(* written and a response is pending exactly while one is waited for.      *)
THEOREM TypeCorrect == Spec => []TypeOK
<1>1. IInv => TypeOK
  BY DEF IInv
<1> QED
  BY <1>1, Invariant, PTL

(* writeline never writes to a descriptor that at_close or the command     *)
(* thread itself has closed.                                               *)
THEOREM WritesAreSafe == Spec => []WritesToOpenPort
<1>1. IInv => WritesToOpenPort
  BY DEF IInv, TypeOK, PortInv, WritesToOpenPort
<1> QED
  BY <1>1, Invariant, PTL

(* A command thread that waits has been signalled if what it waits for has *)
(* happened.                                                               *)
THEOREM SignalsArrive == Spec => []NoLostSignal
<1>1. IInv => NoLostSignal
  BY DEF IInv
<1> QED
  BY <1>1, Invariant, PTL
-----------------------------------------------------------------------------
(* Whose final response ends a command, and which lines it returns: the    *)
(* lines on their way to ProcessLine are the one in the reader's hands and *)
(* those on the wire, in this order.                                       *)
way == IF rpc = "process" THEN <<line>> \o wire ELSE wire

(* x may come before y: an answer before the next one, and the lines of an *)
(* answer in their order, the final one last.                              *)
Before(x, y) ==
    x.of > 0 /\ y.of > 0 =>
        \/ x.of < y.of
        \/ x.of = y.of /\ x.kind = "info" /\ (y.kind = "info" => x.n < y.n)

Ordered(w) == \A i, j \in 1..Len(w) : i < j => Before(w[i], w[j])

Precedes(l, w) == \A i \in 1..Len(w) : Before(l, w[i])

(* Commands that an unsolicited final response has ended: by so many the   *)
(* answers are behind at most.                                             *)
IsCarrier(l) == IsFinal(l) /\ l.of = 0

EndedByCarrier == {c \in Commands : returned[c].err = "ok" /\ returned[c].final.of = 0}

Behind == Cardinality(EndedByCarrier)

(* What holds of a command d whose answer no command has taken yet.        *)
Late(d) ==
    /\ d <= cmd
    /\ cpc \in {"register", "send", "write"} => d < cmd
    /\ ~s_readerClosed =>
          /\ cmd <= d + Behind
          /\ cpc \in {"close", "wait_adb", "failed"} => Behind > 0

Answered(l) == l.of > 0 => \A d \in asked : l.of < d

InTime(l) == Answered(l) /\ (l.of > 0 => Late(l.of))

NotYetReturned ==
    \A c \in Commands :
        c > cmd \/ (c = cmd /\ cpc \in {"register", "send", "write", "waiting"}) =>
            returned[c].err = "none"

(* The pending response: its final line is an answer not taken yet, and    *)
(* its lines were collected in reverse.                                    *)
CreditInv ==
    cpc = "waiting" =>
        LET final == sp_response.final
            lines == sp_response.lines
        IN /\ final # NoLine => IsFinal(final) /\ InTime(final) /\ Precedes(final, way)
           /\ \A i \in 1..Len(lines) : Answered(lines[i]) /\ Precedes(lines[i], way)
           /\ \A i, j \in 1..Len(lines) : i < j => Before(lines[j], lines[i])

OrderInv ==
    /\ NotYetReturned
    /\ s_readerClosed => rpc \in {"close", "mark2", "dead"}
    /\ \A d \in asked : Late(d)
    /\ \A i \in 1..Len(way) : InTime(way[i])
    /\ Ordered(way)
    /\ CreditInv

(* v is a stretch of w: what is left of w when its ends are taken off.     *)
PartOf(v, w) ==
    \E o \in Nat : \A i \in 1..Len(v) : i + o \in 1..Len(w) /\ v[i] = w[i + o]

(* A line put in front of others.                                          *)
LEMMA InFront ==
  ASSUME NEW l \in Line, NEW w \in Seq(Line)
  PROVE  <<l>> \o w \in Seq(Line)
<1>1. <<l>> \in Seq(Line)
  OBVIOUS
<1> QED
  BY <1>1

(* The way to ProcessLine is a sequence of lines, before and after a step. *)
LEMMA WayType ==
  /\ TypeOK => way \in Seq(Line)
  /\ TypeOK' => way' \in Seq(Line)
<1>1. ASSUME TypeOK PROVE way \in Seq(Line)
  <2>1. line \in Line /\ wire \in Seq(Line)
    BY <1>1 DEF TypeOK
  <2> QED
    BY <2>1, InFront DEF way
<1>2. ASSUME TypeOK' PROVE way' \in Seq(Line)
  <2>1. line' \in Line /\ wire' \in Seq(Line)
    BY <1>2 DEF TypeOK
  <2> QED
    BY <2>1, InFront DEF way
<1> QED
  BY <1>1, <1>2

(* The same stretch, one line less at the front, some lines less at the    *)
(* end: all are parts of the way.                                          *)
LEMMA Parts ==
  ASSUME NEW w \in Seq(Line)
  PROVE  /\ PartOf(w, w)
         /\ w # <<>> => PartOf(Tail(w), w)
         /\ \A k \in 0..Len(w) : PartOf(SubSeq(w, 1, k), w)
<1>1. PartOf(w, w)
  <2>1. \A i \in 1..Len(w) : i + 0 \in 1..Len(w) /\ w[i] = w[i + 0]
    OBVIOUS
  <2> QED
    BY <2>1 DEF PartOf
<1>2. ASSUME w # <<>> PROVE PartOf(Tail(w), w)
  <2>1. \A i \in 1..Len(Tail(w)) : i + 1 \in 1..Len(w) /\ Tail(w)[i] = w[i + 1]
    BY <1>2
  <2> QED
    BY <2>1 DEF PartOf
<1>3. ASSUME NEW k \in 0..Len(w) PROVE PartOf(SubSeq(w, 1, k), w)
  <2>1. \A i \in 1..Len(SubSeq(w, 1, k)) :
           i + 0 \in 1..Len(w) /\ SubSeq(w, 1, k)[i] = w[i + 0]
    BY <1>3
  <2> QED
    BY <2>1 DEF PartOf
<1> QED
  BY <1>1, <1>2, <1>3

(* What holds of every line, and of every two lines in their order, holds  *)
(* of a stretch of them.                                                   *)
LEMMA PartKeeps ==
  ASSUME NEW v \in Seq(Line), NEW w \in Seq(Line), PartOf(v, w)
  PROVE  /\ \A i \in 1..Len(v) : \E k \in 1..Len(w) : v[i] = w[k]
         /\ Ordered(w) => Ordered(v)
         /\ \A l \in Line : Precedes(l, w) => Precedes(l, v)
<1>1. PICK o \in Nat : \A i \in 1..Len(v) : i + o \in 1..Len(w) /\ v[i] = w[i + o]
  BY DEF PartOf
<1>2. ASSUME Ordered(w) PROVE Ordered(v)
  <2>1. ASSUME NEW i \in 1..Len(v), NEW j \in 1..Len(v), i < j
        PROVE  Before(v[i], v[j])
    <3>1. i + o < j + o
      BY <2>1
    <3> QED
      BY <1>1, <1>2, <3>1 DEF Ordered
  <2> QED
    BY <2>1 DEF Ordered
<1>3. \A l \in Line : Precedes(l, w) => Precedes(l, v)
  BY <1>1 DEF Precedes
<1> QED
  BY <1>1, <1>2, <1>3

(* What each step of the reader takes off the way.                         *)
LEMMA ReaderWay ==
  ASSUME TypeOK, Reader
  PROVE  /\ PartOf(way', way)
         /\ ReadLine /\ rpc' = "process" => way' = way
         /\ ProcessLine => way # <<>> /\ line = way[1] /\ way' = Tail(way)
<1>1. line \in Line /\ wire \in Seq(Line) /\ <<line>> \in Seq(Line)
  BY DEF TypeOK
<1>2. CASE ReadLine
  <2>1. rpc # "process" /\ wire # <<>> /\ line' = Head(wire) /\ wire' = Tail(wire)
    BY <1>2 DEF ReadLine
  <2>2. way = wire
    BY <2>1 DEF way
  <2>3. <<Head(wire)>> \o Tail(wire) = wire
    BY <1>1, <2>1
  <2>4. rpc' = "process" => way' = way
    BY <2>1, <2>2, <2>3 DEF way
  <2>5. rpc' # "process" => way' = Tail(way)
    BY <2>1, <2>2 DEF way
  <2> QED
    BY <1>1, <1>2, <2>1, <2>2, <2>4, <2>5, Parts DEF ReadLine, ProcessLine
<1>3. CASE ReadSecondLine
  <2>1. way = wire /\ wire # <<>> /\ way' = Tail(wire)
    BY <1>3 DEF ReadSecondLine, way
  <2> QED
    BY <1>1, <1>3, <2>1, Parts DEF ReadSecondLine, ReadLine, ProcessLine
<1>4. CASE ProcessLine
  <2>1. way = <<line>> \o wire /\ way' = wire
    BY <1>4 DEF ProcessLine, way, moduleVars
  <2>2. way # <<>> /\ line = way[1] /\ Tail(way) = wire
    BY <1>1, <2>1
  <2> QED
    BY <1>1, <1>4, <2>1, <2>2, Parts, WayType DEF ProcessLine, ReadLine
<1>5. CASE ReadEnd \/ CheckClosed \/ MarkClosed \/ ClosePort \/ MarkClosedAgain
  <2>1. way' = way /\ ~ReadLine /\ ~ProcessLine
    BY <1>5 DEF ReadEnd, CheckClosed, MarkClosed, ClosePort, MarkClosedAgain, way,
                ReadLine, ProcessLine, readerVars, moduleVars
  <2> QED
    BY <2>1, Parts, WayType
<1> QED
  BY <1>2, <1>3, <1>4, <1>5 DEF Reader

(* The command thread leaves the way alone.                                *)
LEMMA CommandWay ==
  ASSUME Command
  PROVE  way' = way
  BY DEF Command, Register, CheckChannel, SendOnClosed, WriteCommand, WriteFails, Wake,
         CloseModem, way, readerVars, moduleVars, Return, ClearPendingCommand, Proceed

(* The module appends to it.                                               *)
LEMMA AppendWay ==
  ASSUME TypeOK, NEW s \in Seq(Line), wire' = wire \o s, UNCHANGED readerVars
  PROVE  way' = way \o s
<1>1. line \in Line /\ wire \in Seq(Line) /\ <<line>> \in Seq(Line)
  BY DEF TypeOK
<1>2. (<<line>> \o wire) \o s = <<line>> \o (wire \o s)
  BY <1>1
<1> QED
  BY <1>1, <1>2 DEF way, readerVars

(* When the module leaves the bus the way is cut off somewhere.            *)
LEMMA HangUpWay ==
  ASSUME TypeOK, HangUp
  PROVE  \E k \in 0..Len(way) : way' = SubSeq(way, 1, k)
<1>1. line \in Line /\ wire \in Seq(Line) /\ <<line>> \in Seq(Line)
  BY DEF TypeOK
<1>2. PICK k \in 0..Len(wire) : wire' = SubSeq(wire, 1, k)
  BY DEF HangUp
<1>3. rpc' = rpc /\ line' = line
  BY DEF HangUp, readerVars
<1>4. CASE rpc = "process"
  <2>1. way = <<line>> \o wire /\ way' = <<line>> \o SubSeq(wire, 1, k)
    BY <1>2, <1>3, <1>4 DEF way
  <2>2. k + 1 \in 0..Len(way)
    BY <1>1, <2>1
  <2>3. Len(way') = k + 1 /\ Len(SubSeq(way, 1, k + 1)) = k + 1
    BY <1>1, <2>1
  <2>4. \A i \in 1..(k + 1) : way'[i] = way[i]
    BY <1>1, <2>1
  <2>5. \A i \in 1..(k + 1) : SubSeq(way, 1, k + 1)[i] = way[i]
    BY <1>1, <2>1
  <2>6. way' \in Seq(Line) /\ SubSeq(way, 1, k + 1) \in Seq(Line)
    BY <1>1, <2>1
  <2>7. way' = SubSeq(way, 1, k + 1)
    BY <2>3, <2>4, <2>5, <2>6
  <2> QED
    BY <2>2, <2>7
<1>5. CASE rpc # "process"
  BY <1>2, <1>3, <1>5 DEF way
<1> QED
  BY <1>4, <1>5

-----------------------------------------------------------------------------
(* How many commands were ended by a carrier is a number.                  *)
LEMMA BehindType == IsFiniteSet(EndedByCarrier) /\ Behind \in Nat
<1>1. IsFiniteSet(Commands)
  <2>1. Commands = 1..3
    BY DEF Commands, Ate, Qfast
  <2>2. 1 \in Int /\ 3 \in Int
    OBVIOUS
  <2>3. IsFiniteSet(1..3)
    BY <2>2, FS_Interval, Zenon
  <2> QED
    BY <2>1, <2>3
<1>2. EndedByCarrier \subseteq Commands
  BY DEF EndedByCarrier
<1>3. IsFiniteSet(EndedByCarrier)
  BY <1>1, <1>2, FS_Subset
<1> QED
  BY <1>3, FS_CardinalityType DEF Behind

(* A command that returns adds to it if a carrier ended it.                *)
LEMMA ReturnCounts ==
  ASSUME TypeOK, NotYetReturned, cpc \in {"send", "write", "waiting"},
         NEW err \in {"ok", "closed", "generic"}, Return(err)
  PROVE  /\ Behind' = Behind + (IF err = "ok" /\ sp_response.final.of = 0 THEN 1 ELSE 0)
         /\ returned'[cmd].err = err
         /\ returned'[cmd].final = sp_response.final
         /\ returned'[cmd].lines = ReverseIntermediates(sp_response.lines)
         /\ \A c \in Commands : c # cmd => returned'[c] = returned[c]
<1> DEFINE r == [err |-> err, final |-> sp_response.final,
                 lines |-> ReverseIntermediates(sp_response.lines)]
<1>1. cmd \in Commands /\ DOMAIN returned = Commands
  BY DEF TypeOK
<1>2. returned' = [returned EXCEPT ![cmd] = r]
  BY DEF Return
<1> HIDE DEF r
<1>3. returned'[cmd] = r /\ \A c \in Commands : c # cmd => returned'[c] = returned[c]
  BY <1>1, <1>2
<1>4. returned[cmd].err = "none"
  BY <1>1 DEF NotYetReturned
<1>5. cmd \notin EndedByCarrier
  BY <1>4 DEF EndedByCarrier
<1>6. r.err = err /\ r.final = sp_response.final
      /\ r.lines = ReverseIntermediates(sp_response.lines)
  BY DEF r
<1>7. CASE err = "ok" /\ sp_response.final.of = 0
  <2>1. EndedByCarrier' = EndedByCarrier \cup {cmd}
    BY <1>1, <1>3, <1>6, <1>7 DEF EndedByCarrier
  <2>2. Behind' = Behind + 1
    BY <1>5, <2>1, BehindType, FS_AddElement DEF Behind
  <2> QED
    BY <1>3, <1>6, <1>7, <2>2
<1>8. CASE ~(err = "ok" /\ sp_response.final.of = 0)
  <2>1. EndedByCarrier' = EndedByCarrier
    BY <1>1, <1>3, <1>5, <1>6, <1>8 DEF EndedByCarrier
  <2>2. Behind' = Behind + 0
    BY <2>1, BehindType DEF Behind
  <2> QED
    BY <1>3, <1>6, <1>8, <2>2
<1> QED
  BY <1>7, <1>8

(* A step that takes lines off the way, or marks the channel, keeps the    *)
(* order of the others; what it credits is another matter.                 *)
LEMMA WayPasses ==
  ASSUME TypeOK, TypeOK', OrderInv, PartOf(way', way),
         UNCHANGED <<commandVars, asked>>,
         s_readerClosed => s_readerClosed',
         s_readerClosed' => rpc' \in {"close", "mark2", "dead"}
  PROVE  /\ CreditInv' => OrderInv'
         /\ \A l : (Answered(l) => Answered(l)') /\ (InTime(l) => InTime(l)')
         /\ \A l \in Line : Precedes(l, way) => Precedes(l, way')
<1>1. UNCHANGED <<cpc, cmd, returned, asked>>
  BY DEF commandVars
<1>2. Behind' = Behind
  BY <1>1 DEF Behind, EndedByCarrier
<1>3. \A d : Late(d) => Late(d)'
  BY <1>1, <1>2 DEF Late
<1>4. \A l : (Answered(l) => Answered(l)') /\ (InTime(l) => InTime(l)')
  BY <1>1, <1>3 DEF Answered, InTime
<1>5. /\ \A i \in 1..Len(way') : \E k \in 1..Len(way) : way'[i] = way[k]
      /\ Ordered(way) => Ordered(way')
      /\ \A l \in Line : Precedes(l, way) => Precedes(l, way')
  BY WayType, PartKeeps
<1>6. NotYetReturned'
  BY <1>1 DEF OrderInv, NotYetReturned
<1>7. (\A d \in asked : Late(d))'
  BY <1>1, <1>3 DEF OrderInv
<1>8. (\A i \in 1..Len(way) : InTime(way[i]))'
  <2> SUFFICES ASSUME NEW i \in 1..Len(way') PROVE InTime(way[i])'
    OBVIOUS
  <2>1. PICK k \in 1..Len(way) : way'[i] = way[k]
    BY <1>5
  <2>2. InTime(way[k])
    BY DEF OrderInv
  <2> QED
    BY <1>1, <1>3, <2>1, <2>2 DEF InTime, Answered
<1>9. Ordered(way)'
  BY <1>5 DEF OrderInv, Ordered
<1> QED
  BY <1>4, <1>5, <1>6, <1>7, <1>8, <1>9 DEF OrderInv

(* Nothing is credited: the pending response is as it was.                 *)
LEMMA PassKeepsOrder ==
  ASSUME TypeOK, TypeOK', OrderInv, PartOf(way', way),
         UNCHANGED <<commandVars, sp_response, asked>>,
         s_readerClosed => s_readerClosed',
         s_readerClosed' => rpc' \in {"close", "mark2", "dead"}
  PROVE  OrderInv'
<1>1. /\ CreditInv' => OrderInv'
      /\ \A l : (Answered(l) => Answered(l)') /\ (InTime(l) => InTime(l)')
      /\ \A l \in Line : Precedes(l, way) => Precedes(l, way')
  BY WayPasses
<1>2. CreditInv'
  <2> SUFFICES ASSUME cpc = "waiting" PROVE CreditInv'
    BY DEF CreditInv, commandVars
  <2> DEFINE final == sp_response.final
             lines == sp_response.lines
  <2>1. /\ final # NoLine => IsFinal(final) /\ InTime(final) /\ Precedes(final, way)
        /\ \A i \in 1..Len(lines) : Answered(lines[i]) /\ Precedes(lines[i], way)
        /\ \A i, j \in 1..Len(lines) : i < j => Before(lines[j], lines[i])
    BY DEF OrderInv, CreditInv
  <2>2. final \in Line /\ \A i \in 1..Len(lines) : lines[i] \in Line
    BY DEF TypeOK, Response
  <2>3. sp_response' = sp_response
    OBVIOUS
  <2>4. final # NoLine => IsFinal(final) /\ InTime(final)' /\ Precedes(final, way')
    BY <1>1, <2>1, <2>2, <2>3 DEF InTime, Answered, Late
  <2>5. \A i \in 1..Len(lines) : Answered(lines[i])' /\ Precedes(lines[i], way')
    BY <1>1, <2>1, <2>2, <2>3 DEF Answered
  <2> QED
    BY <2>1, <2>3, <2>4, <2>5 DEF CreditInv, InTime, Answered, Late, Precedes
<1> QED
  BY <1>1, <1>2

(* The line at the front is credited to the pending response, if to any.   *)
LEMMA ProcessKeepsOrder ==
  ASSUME TypeOK, TypeOK', OrderInv, ProcessLine
  PROVE  OrderInv'
<1>1. /\ PartOf(way', way) /\ way # <<>> /\ line = way[1] /\ way' = Tail(way)
      /\ way \in Seq(Line) /\ line \in Line
  BY ReaderWay, WayType DEF Reader, TypeOK
<1>2. /\ UNCHANGED <<commandVars, asked, s_readerClosed, line>>
      /\ rpc = "process" /\ rpc' = "read" /\ ~s_readerClosed
  BY DEF ProcessLine, OrderInv, moduleVars
<1>3. /\ CreditInv' => OrderInv'
      /\ \A l : (Answered(l) => Answered(l)') /\ (InTime(l) => InTime(l)')
      /\ \A l \in Line : Precedes(l, way) => Precedes(l, way')
  BY <1>1, <1>2, WayPasses
<1>4. InTime(line) /\ Precedes(line, way')
  <2>1. 1 \in 1..Len(way) /\ \A i \in 1..Len(way') : i + 1 \in 1..Len(way) /\ way'[i] = way[i + 1]
    BY <1>1
  <2>2. \A i \in 1..Len(way') : 1 < i + 1
    BY <1>1
  <2> QED
    BY <1>1, <2>1, <2>2 DEF OrderInv, Ordered, Precedes
<1> DEFINE final == sp_response.final
           lines == sp_response.lines
<1>5. cpc = "waiting" =>
        /\ final # NoLine => IsFinal(final) /\ InTime(final) /\ Precedes(final, way)
        /\ \A i \in 1..Len(lines) : Answered(lines[i]) /\ Precedes(lines[i], way)
        /\ \A i, j \in 1..Len(lines) : i < j => Before(lines[j], lines[i])
  BY DEF OrderInv, CreditInv
<1>6. final \in Line /\ lines \in Seq(Line) /\ sp_response \in Response
  BY DEF TypeOK, Response
<1>7. CASE UNCHANGED sp_response
  BY <1>1, <1>2, <1>7, PassKeepsOrder
<1>8. CASE IsFinal(line) /\ sp_response' = [sp_response EXCEPT !.final = line]
  <2> SUFFICES ASSUME cpc = "waiting" PROVE CreditInv'
    BY <1>2, <1>3 DEF CreditInv, commandVars
  <2>1. sp_response'.final = line /\ sp_response'.lines = lines
    BY <1>6, <1>8 DEF Response
  <2>2. InTime(line)'
    BY <1>2, <1>3, <1>4 DEF InTime, Answered, Late
  <2>3. \A i \in 1..Len(lines) : Answered(lines[i])' /\ Precedes(lines[i], way')
    <3> SUFFICES ASSUME NEW i \in 1..Len(lines)
                 PROVE  Answered(lines[i])' /\ Precedes(lines[i], way')
      OBVIOUS
    <3>1. Answered(lines[i]) /\ Precedes(lines[i], way) /\ lines[i] \in Line
      BY <1>5, <1>6
    <3> QED
      BY <1>2, <1>3, <2>1, <3>1 DEF Answered
  <2> QED
    BY <1>2, <1>4, <1>5, <1>8, <2>1, <2>2, <2>3 DEF CreditInv, InTime, Answered, Late, Precedes
<1>9. CASE sp_response' = [sp_response EXCEPT !.lines = <<line>> \o @]
  <2> SUFFICES ASSUME cpc = "waiting" PROVE CreditInv'
    BY <1>2, <1>3 DEF CreditInv, commandVars
  <2> DEFINE more == <<line>> \o lines
  <2>1. sp_response'.final = final /\ sp_response'.lines = more
    BY <1>6, <1>9 DEF Response
  <2>2. /\ Len(more) = Len(lines) + 1 /\ more[1] = line
        /\ \A i \in 1..Len(more) : i # 1 => i - 1 \in 1..Len(lines) /\ more[i] = lines[i - 1]
    BY <1>1, <1>6
  <2> HIDE DEF more
  <2>3. \A l \in Line : Answered(l) /\ (Precedes(l, way) \/ l = line) =>
           Answered(l)' /\ Precedes(l, way')
    BY <1>3, <1>4
  <2>4. \A i \in 1..Len(more) : Answered(more[i]) /\ (Precedes(more[i], way) \/ more[i] = line)
    BY <1>4, <1>5, <2>2 DEF InTime
  <2>5. \A i \in 1..Len(more) : more[i] \in Line
    BY <1>1, <1>6, <2>2
  <2>6. \A i \in 1..Len(more) : (Answered(sp_response.lines[i]))' /\ Precedes(more[i], way')
    BY <1>2, <2>1, <2>3, <2>4, <2>5 DEF Answered
  <2>7. ASSUME NEW i \in 1..Len(more), NEW j \in 1..Len(more), i < j
        PROVE  Before(more[j], more[i])
    <3>1. j # 1 /\ j - 1 \in 1..Len(lines) /\ more[j] = lines[j - 1]
      BY <1>6, <2>2, <2>7
    <3>2. CASE i = 1
      <4>1. Precedes(lines[j - 1], way) /\ 1 \in 1..Len(way) /\ way[1] = line
        BY <1>1, <1>5, <3>1
      <4> QED
        BY <2>2, <3>1, <3>2, <4>1 DEF Precedes
    <3>3. CASE i # 1
      <4>1. i - 1 \in 1..Len(lines) /\ more[i] = lines[i - 1] /\ i - 1 < j - 1
        BY <1>6, <2>2, <2>7, <3>3
      <4> QED
        BY <1>5, <3>1, <4>1
    <3> QED
      BY <3>2, <3>3
  <2>8. final # NoLine => IsFinal(final) /\ InTime(sp_response.final)' /\ Precedes(final, way')
    BY <1>2, <1>3, <1>5, <1>6, <2>1 DEF InTime, Answered, Late
  <2> QED
    BY <1>2, <2>1, <2>6, <2>7, <2>8 DEF CreditInv, InTime, Answered, Late, Precedes
<1> QED
  BY <1>7, <1>8, <1>9 DEF ProcessLine, HandleUnsolicited, HandleFinalResponse, AddIntermediate

(* The module appends lines of no command, or the answer to one it has not *)
(* answered, to what it sent before.                                       *)
LEMMA AppendKeepsOrder ==
  ASSUME TypeOK, TypeOK', OrderInv, NEW s \in Seq(Line), way' = way \o s,
         UNCHANGED <<cpc, cmd, returned, rpc, sp_response, s_readerClosed>>,
         asked' \subseteq asked, Ordered(s),
         \A i \in 1..Len(s) : s[i].of > 0 => s[i].of \in asked /\ \A d \in asked' : s[i].of < d
  PROVE  OrderInv'
<1>1. way \in Seq(Line) /\ way' \in Seq(Line)
  BY WayType
<1>2. /\ Len(way') = Len(way) + Len(s)
      /\ \A i \in 1..Len(way') :
            \/ i \in 1..Len(way) /\ way'[i] = way[i]
            \/ i > Len(way) /\ i - Len(way) \in 1..Len(s) /\ way'[i] = s[i - Len(way)]
  BY <1>1
<1>3. Behind' = Behind
  BY DEF Behind, EndedByCarrier
<1>4. \A d : Late(d) => Late(d)'
  BY <1>3 DEF Late
<1>5. \A l : (Answered(l) => Answered(l)') /\ (InTime(l) => InTime(l)')
  BY <1>4 DEF Answered, InTime
<1>6. \A l : Answered(l) => Precedes(l, s)
  <2> SUFFICES ASSUME NEW l, Answered(l), NEW i \in 1..Len(s), l.of > 0, s[i].of > 0
               PROVE  l.of < s[i].of
    BY DEF Precedes, Before
  <2> QED
    BY DEF Answered
<1>7. \A l : Answered(l) /\ Precedes(l, way) => Precedes(l, way')
  <2> SUFFICES ASSUME NEW l, Answered(l), Precedes(l, way), NEW i \in 1..Len(way')
               PROVE  Before(l, way'[i])
    BY DEF Precedes
  <2> QED
    BY <1>2, <1>6 DEF Precedes
<1>8. NotYetReturned'
  BY DEF OrderInv, NotYetReturned
<1>9. (\A d \in asked : Late(d))'
  BY <1>4 DEF OrderInv
<1>10. (\A i \in 1..Len(way) : InTime(way[i]))'
  <2> SUFFICES ASSUME NEW i \in 1..Len(way') PROVE InTime(way[i])'
    OBVIOUS
  <2>1. CASE i \in 1..Len(way) /\ way'[i] = way[i]
    <3>1. InTime(way[i])
      BY <2>1 DEF OrderInv
    <3> QED
      BY <1>4, <2>1, <3>1 DEF InTime, Answered
  <2>2. CASE i - Len(way) \in 1..Len(s) /\ way'[i] = s[i - Len(way)]
    BY <1>4, <2>2 DEF InTime, Answered, OrderInv
  <2> QED
    BY <1>2, <2>1, <2>2
<1>11. Ordered(way)'
  <2> SUFFICES ASSUME NEW i \in 1..Len(way'), NEW j \in 1..Len(way'), i < j
               PROVE  Before(way'[i], way'[j])
    BY DEF Ordered
  <2>1. CASE i \in 1..Len(way) /\ way'[i] = way[i]
    <3>1. InTime(way[i])
      BY <2>1 DEF OrderInv
    <3>2. CASE j \in 1..Len(way) /\ way'[j] = way[j]
      BY <2>1, <3>2 DEF OrderInv, Ordered
    <3>3. CASE j - Len(way) \in 1..Len(s) /\ way'[j] = s[j - Len(way)]
      BY <1>6, <2>1, <3>1, <3>3 DEF InTime, Precedes
    <3> QED
      BY <1>2, <3>2, <3>3
  <2>2. CASE i > Len(way) /\ i - Len(way) \in 1..Len(s) /\ way'[i] = s[i - Len(way)]
    <3>1. j - Len(way) \in 1..Len(s) /\ way'[j] = s[j - Len(way)]
      BY <1>1, <1>2, <2>2
    <3>2. i - Len(way) < j - Len(way)
      BY <1>1, <1>2
    <3> QED
      BY <2>2, <3>1, <3>2 DEF Ordered
  <2> QED
    BY <1>2, <2>1, <2>2
<1>12. CreditInv'
  <2> SUFFICES ASSUME cpc = "waiting" PROVE CreditInv'
    BY DEF CreditInv
  <2> DEFINE final == sp_response.final
             lines == sp_response.lines
  <2>1. /\ final # NoLine => IsFinal(final) /\ InTime(final) /\ Precedes(final, way)
        /\ \A i \in 1..Len(lines) : Answered(lines[i]) /\ Precedes(lines[i], way)
        /\ \A i, j \in 1..Len(lines) : i < j => Before(lines[j], lines[i])
    BY DEF OrderInv, CreditInv
  <2>2. sp_response' = sp_response
    OBVIOUS
  <2>3. final # NoLine => IsFinal(final) /\ InTime(final)' /\ Precedes(final, way')
    BY <1>5, <1>7, <2>1, <2>2 DEF InTime, Answered, Late
  <2>4. \A i \in 1..Len(lines) : Answered(lines[i])' /\ Precedes(lines[i], way')
    BY <1>5, <1>7, <2>1, <2>2 DEF Answered
  <2> QED
    BY <2>1, <2>2, <2>3, <2>4 DEF CreditInv, InTime, Answered, Late, Precedes
<1> QED
  BY <1>8, <1>9, <1>10, <1>11, <1>12 DEF OrderInv

(* The line is number n of the answer to c.                                *)
Numbered(l, c, n) == l.kind = "info" /\ l.of = c /\ l.n = n

(* Numbered information lines and a final line behind them are in order.   *)
LEMMA AnswerShape ==
  ASSUME NEW c \in Nat, NEW last \in Line, last.of = c, last.kind # "info",
         NEW infos \in Seq(Line), \A i \in 1..Len(infos) : Numbered(infos[i], c, i)
  PROVE  \E s \in Seq(Line) :
            /\ s = infos \o <<last>> /\ Ordered(s)
            /\ Len(s) = Len(infos) + 1 /\ s[Len(s)] = last
            /\ \A i \in 1..Len(infos) : Numbered(s[i], c, i)
<1> DEFINE s == infos \o <<last>>
<1>1. <<last>> \in Seq(Line) /\ Len(<<last>>) = 1 /\ <<last>>[1] = last
  OBVIOUS
<1>2. s \in Seq(Line) /\ Len(s) = Len(infos) + 1 /\ s[Len(infos) + 1] = last
  BY <1>1
<1>3. \A i \in 1..Len(infos) : s[i] = infos[i]
  BY <1>1
<1> HIDE DEF s
<1>4. \A i \in 1..Len(infos) : Numbered(s[i], c, i)
  BY <1>3
<1>5. Ordered(s)
  <2> SUFFICES ASSUME NEW i \in 1..Len(s), NEW j \in 1..Len(s), i < j
               PROVE  Before(s[i], s[j])
    BY DEF Ordered
  <2>1. i \in 1..Len(infos) /\ i \in Nat
    BY <1>2
  <2>2. Numbered(s[i], c, i)
    BY <1>4, <2>1
  <2>3. CASE j = Len(infos) + 1
    <3>1. s[j] = last
      BY <1>2, <2>3
    <3> QED
      BY <2>2, <3>1 DEF Before, Numbered
  <2>4. CASE j # Len(infos) + 1
    <3>1. j \in 1..Len(infos)
      BY <1>2, <2>4
    <3>2. Numbered(s[j], c, j)
      BY <1>4, <3>1
    <3> QED
      BY <2>2, <3>2 DEF Before, Numbered
  <2> QED
    BY <2>3, <2>4
<1> QED
  BY <1>2, <1>4, <1>5 DEF s

(* What Answer puts on the wire: the lines of the answer in their order,   *)
(* then its final one; a whole answer to ATI has all its lines.            *)
LEMMA AnswerLines ==
  ASSUME TypeOK, Answer
  PROVE  \E c \in asked, last \in Line, s \in Seq(Line) :
            /\ asked' = {d \in asked : d > c} /\ wire' = wire \o s
            /\ last.of = c /\ last.kind \in {"OK", "ERROR"}
            /\ Ordered(s) /\ Len(s) > 0 /\ s[Len(s)] = last
            /\ \A i \in 1..(Len(s) - 1) : Numbered(s[i], c, i)
            /\ Len(s) > 1 => c = Ati
            /\ c = Ati /\ last.kind = "OK" => Len(s) = Infos + 1
<1>1. PICK c \in asked, k \in {"OK", "ERROR"} :
        /\ asked' = {d \in asked : d > c}
        /\ wire' = wire
              \o (IF c = Ati /\ k = "OK"
                  THEN [i \in 1..Infos |-> [kind |-> "info", of |-> c, n |-> i]]
                  ELSE <<>>)
              \o <<[kind |-> k, of |-> c, n |-> 0]>>
  BY DEF Answer
<1> DEFINE last == [kind |-> k, of |-> c, n |-> 0]
           infos == IF c = Ati /\ k = "OK"
                    THEN [i \in 1..Infos |-> [kind |-> "info", of |-> c, n |-> i]]
                    ELSE <<>>
<1>2. c \in 0..Qfast /\ c \in Nat /\ Infos \in Nat
  BY ChannelAssumption DEF TypeOK, Commands, Ate, Qfast
<1>3. last \in Line /\ last.of = c /\ last.kind = k /\ <<last>> \in Seq(Line)
  BY <1>2 DEF Line
<1>4. infos \in Seq(Line) /\ (c = Ati /\ k = "OK" => Len(infos) = Infos)
      /\ (Len(infos) > 0 => c = Ati)
      /\ \A i \in 1..Len(infos) : Numbered(infos[i], c, i)
  <2>1. CASE c = Ati /\ k = "OK"
    <3>1. infos = [i \in 1..Infos |-> [kind |-> "info", of |-> c, n |-> i]]
      BY <2>1
    <3>2. \A i \in 1..Infos : [kind |-> "info", of |-> c, n |-> i] \in Line
      BY <1>2 DEF Line
    <3>3. infos \in Seq(Line) /\ Len(infos) = Infos
      BY <1>2, <3>1, <3>2
    <3> QED
      BY <1>2, <3>1, <3>3 DEF Numbered
  <2>2. CASE ~(c = Ati /\ k = "OK")
    BY <1>2, <2>2
  <2> QED
    BY <2>1, <2>2
<1>5. wire' = (wire \o infos) \o <<last>> /\ wire \in Seq(Line)
  BY <1>1 DEF TypeOK
<1> HIDE DEF last, infos
<1>6. wire' = wire \o (infos \o <<last>>)
  BY <1>3, <1>4, <1>5
<1>7. PICK s \in Seq(Line) :
        /\ s = infos \o <<last>> /\ Ordered(s)
        /\ Len(s) = Len(infos) + 1 /\ s[Len(s)] = last
        /\ \A i \in 1..Len(infos) : Numbered(s[i], c, i)
  <2>1. last \in Line /\ last.of = c /\ last.kind # "info" /\ c \in Nat
    BY <1>2, <1>3
  <2>2. infos \in Seq(Line) /\ \A i \in 1..Len(infos) : Numbered(infos[i], c, i)
    BY <1>4
  <2> QED
    BY <2>1, <2>2, AnswerShape, Zenon
<1>8. Len(infos) \in Nat /\ Len(s) - 1 = Len(infos)
  BY <1>4, <1>7
<1>9. /\ Len(s) > 0 /\ (Len(s) > 1 => c = Ati)
      /\ c = Ati /\ last.kind = "OK" => Len(s) = Infos + 1
  BY <1>3, <1>4, <1>7, <1>8
<1>10. \A i \in 1..(Len(s) - 1) : Numbered(s[i], c, i)
  BY <1>7, <1>8
<1> QED
  BY <1>1, <1>3, <1>6, <1>7, <1>9, <1>10

(* What the module does keeps the order: it answers in the order it was    *)
(* asked, and an unsolicited line answers nothing.                         *)
LEMMA ModuleKeepsOrder ==
  ASSUME TypeOK, TypeOK', OrderInv, Module
  PROVE  OrderInv'
<1>1. CASE Answer
  <2>1. PICK c \in asked, last \in Line, s \in Seq(Line) :
          /\ asked' = {d \in asked : d > c} /\ wire' = wire \o s
          /\ last.of = c /\ last.kind \in {"OK", "ERROR"}
          /\ Ordered(s) /\ Len(s) > 0 /\ s[Len(s)] = last
          /\ \A i \in 1..(Len(s) - 1) : Numbered(s[i], c, i)
    BY <1>1, AnswerLines
  <2>2. UNCHANGED <<cpc, cmd, returned, rpc, line, sp_response, s_readerClosed>>
    BY <1>1 DEF Answer, commandVars, readerVars, sharedVars
  <2>3. way' = way \o s
    BY <2>1, <2>2, AppendWay DEF readerVars
  <2>4. \A i \in 1..Len(s) : s[i].of = c
    BY <2>1 DEF Numbered
  <2>5. asked' \subseteq asked /\ \A d \in asked' : c < d
    <3>1. asked \subseteq Nat
      BY DEF TypeOK, Commands, Ate, Qfast
    <3> QED
      BY <2>1, <3>1
  <2> QED
    BY <2>1, <2>2, <2>3, <2>4, <2>5, AppendKeepsOrder
<1>2. CASE Unsolicited
  <2>1. PICK k \in {"urc", "sms", "ERROR"} :
          wire' = Append(wire, [kind |-> k, of |-> 0, n |-> 0])
    BY <1>2 DEF Unsolicited
  <2> DEFINE l == [kind |-> k, of |-> 0, n |-> 0]
             s == <<l>>
  <2>2. l \in Line /\ l.of = 0
    BY ChannelAssumption DEF Line, Qfast
  <2>3. wire' = Append(wire, l)
    BY <2>1
  <2> HIDE DEF l
  <2>4. s \in Seq(Line) /\ Len(s) = 1 /\ s[1] = l
    BY <2>2
  <2>5. wire' = wire \o s
    BY <2>2, <2>3 DEF TypeOK
  <2> HIDE DEF s
  <2>6. UNCHANGED <<cpc, cmd, returned, rpc, line, sp_response, s_readerClosed, asked>>
    BY <1>2 DEF Unsolicited, commandVars, readerVars, sharedVars
  <2>7. way' = way \o s
    BY <2>4, <2>5, <2>6, AppendWay DEF readerVars
  <2>8. Ordered(s) /\ \A i \in 1..Len(s) : s[i].of = 0
    BY <2>2, <2>4 DEF Ordered, Before
  <2> QED
    BY <2>4, <2>6, <2>7, <2>8, AppendKeepsOrder
<1>3. CASE HangUp
  <2>1. PartOf(way', way)
    BY <1>3, HangUpWay, WayType, Parts
  <2>2. UNCHANGED <<commandVars, sp_response, asked, s_readerClosed, rpc>>
    BY <1>3 DEF HangUp, readerVars, sharedVars
  <2> QED
    BY <2>1, <2>2, PassKeepsOrder DEF OrderInv
<1> QED
  BY <1>1, <1>2, <1>3 DEF Module

(* The reader takes lines off the way, credits them, or marks the channel. *)
LEMMA ReaderKeepsOrder ==
  ASSUME TypeOK, TypeOK', OrderInv, Reader
  PROVE  OrderInv'
<1>1. CASE ProcessLine
  BY <1>1, ProcessKeepsOrder
<1>2. CASE ~ProcessLine
  <2>1. PartOf(way', way)
    BY ReaderWay
  <2>2. /\ UNCHANGED <<commandVars, sp_response, asked>>
        /\ s_readerClosed => s_readerClosed'
        /\ s_readerClosed' => rpc' \in {"close", "mark2", "dead"}
    <3> USE DEF commandVars, sharedVars, moduleVars
    <3>1. s_readerClosed => rpc \in {"close", "mark2", "dead"}
      BY DEF OrderInv
    <3>2. CASE ReadLine \/ ReadSecondLine \/ ReadEnd
      BY <3>1, <3>2 DEF ReadLine, ReadSecondLine, ReadEnd
    <3>3. CASE CheckClosed
      BY <3>1, <3>3 DEF CheckClosed
    <3>4. CASE MarkClosed \/ MarkClosedAgain
      BY <3>4 DEF MarkClosed, MarkClosedAgain
    <3>5. CASE ClosePort
      BY <3>1, <3>5 DEF ClosePort
    <3> QED
      BY <1>2, <3>2, <3>3, <3>4, <3>5 DEF Reader
  <2> QED
    BY <2>1, <2>2, PassKeepsOrder
<1> QED
  BY <1>1, <1>2

(* The command thread goes from one place to the next, but neither takes a *)
(* response nor writes a command.                                          *)
LEMMA MoveKeepsOrder ==
  ASSUME TypeOK, TypeOK', OrderInv, way' = way,
         UNCHANGED <<cmd, returned, asked, s_readerClosed, rpc>>,
         \/ cpc \in {"register", "send"} /\ cpc' \in {"send", "write"}
         \/ cpc = "close" /\ cpc' = "wait_adb"
  PROVE  OrderInv'
<1>1. Behind' = Behind
  BY DEF Behind, EndedByCarrier
<1>2. \A d : Late(d) => Late(d)'
  BY <1>1 DEF Late
<1>3. \A l : InTime(l) => InTime(l)'
  BY <1>2 DEF Answered, InTime
<1>4. NotYetReturned' /\ CreditInv'
  BY DEF OrderInv, NotYetReturned, CreditInv
<1>5. (\A i \in 1..Len(way) : InTime(way[i]))'
  <2> SUFFICES ASSUME NEW i \in 1..Len(way) PROVE InTime(way[i])'
    OBVIOUS
  <2>1. InTime(way[i])
    BY DEF OrderInv
  <2> QED
    BY <1>2, <2>1 DEF InTime, Answered
<1> QED
  BY <1>2, <1>4, <1>5 DEF OrderInv, Ordered

(* The command is written when every answer on its way is to an earlier    *)
(* one.                                                                    *)
LEMMA WriteKeepsOrder ==
  ASSUME TypeOK, TypeOK', OrderInv, WriteCommand
  PROVE  OrderInv'
<1>1. /\ way' = way /\ UNCHANGED <<cmd, returned, s_readerClosed, rpc>>
      /\ cpc = "write" /\ cpc' = "waiting" /\ asked' = asked \cup {cmd}
      /\ sp_response' = NewResponse
  BY CommandWay DEF Command, WriteCommand, readerVars
<1>2. Behind' = Behind /\ Behind \in Nat /\ cmd \in Nat
  BY <1>1, BehindType DEF Behind, EndedByCarrier, TypeOK, Commands, Ate, Qfast
<1>3. \A d : Late(d) => Late(d)' /\ d < cmd
  BY <1>1, <1>2 DEF Late
<1>4. Late(cmd)'
  BY <1>1, <1>2 DEF Late
<1>5. NotYetReturned'
  BY <1>1 DEF OrderInv, NotYetReturned
<1>6. (\A d \in asked : Late(d))'
  BY <1>1, <1>3, <1>4 DEF OrderInv, Late
<1>7. (\A i \in 1..Len(way) : InTime(way[i]))'
  <2> SUFFICES ASSUME NEW i \in 1..Len(way) PROVE InTime(way[i])'
    BY <1>1
  <2>1. InTime(way[i])
    BY DEF OrderInv
  <2> QED
    BY <1>1, <1>3, <2>1 DEF InTime, Answered
<1>8. CreditInv'
  <2>1. sp_response'.final = NoLine /\ sp_response'.lines = <<>>
    BY <1>1 DEF NewResponse
  <2> QED
    BY <2>1 DEF CreditInv
<1> QED
  BY <1>1, <1>5, <1>6, <1>7, <1>8 DEF OrderInv, Ordered

(* A command returns: whatever answers are still on their way are behind   *)
(* by no more commands than carriers have ended.                           *)
LEMMA ReturnKeepsOrder ==
  ASSUME TypeOK, TypeOK', OrderInv, way' = way,
         NEW err \in {"ok", "closed", "generic"}, Return(err),
         UNCHANGED <<asked, s_readerClosed, rpc>>,
         \/ cpc \in {"send", "write"} /\ err # "ok"
         \/ cpc = "waiting" /\ err = "closed" /\ s_readerClosed
         \/ cpc = "waiting" /\ err = "ok" /\ sp_response.final # NoLine
  PROVE  OrderInv'
<1> DEFINE final == sp_response.final
<1>1. /\ Behind' = Behind + (IF err = "ok" /\ final.of = 0 THEN 1 ELSE 0)
      /\ returned'[cmd].err = err
      /\ \A c \in Commands : c # cmd => returned'[c] = returned[c]
  BY ReturnCounts DEF OrderInv
<1>2. Behind \in Nat /\ cmd \in 1..3 /\ asked \subseteq Nat
  BY BehindType DEF TypeOK, Commands, Ate, Qfast
<1>3. \/ cmd = Ate /\ cpc' = "send" /\ cmd' = Ati
      \/ cmd = Ati /\ err = "ok" /\ cpc' = "send" /\ cmd' = Qfast
      \/ cmd = Ati /\ cpc' = "failed" /\ cmd' = Ati
      \/ cmd = Qfast /\ cpc' \in {"close", "wait_adb"} /\ cmd' = Qfast
  BY DEF Return, Proceed
<1>4. cpc' \in {"send", "failed", "close", "wait_adb"} /\ cmd <= cmd'
      /\ (cpc' = "send" => cmd' = cmd + 1) /\ (cpc' # "send" => cmd' = cmd)
      /\ (cpc' = "send" => cmd = 1 \/ err = "ok")
  BY <1>2, <1>3 DEF Ate, Ati, Qfast
<1>5. ASSUME NEW d \in Nat, d > 0, Late(d), err = "ok" => final.of = 0 \/ final.of < d
      PROVE  Late(d)'
  <2>1. d <= cmd /\ (cpc \in {"send", "write"} => d < cmd)
        /\ (~s_readerClosed => cmd <= d + Behind)
    BY <1>5 DEF Late
  <2>2. CASE err = "ok"
    <3>1. cpc = "waiting" /\ final # NoLine /\ final \in Line
      BY <2>2 DEF TypeOK, Response
    <3>2. CASE final.of = 0
      <4>1. Behind' = Behind + 1
        BY <1>1, <2>2, <3>2
      <4> QED
        BY <1>2, <1>4, <2>1, <4>1 DEF Late
    <3>3. CASE final.of # 0
      <4>1. final.of \in Nat /\ final.of > 0 /\ final.of < d
        BY <1>5, <2>2, <3>1, <3>3 DEF Line, Qfast
      <4>2. InTime(final)
        BY <3>1 DEF OrderInv, CreditInv
      <4>3. ~s_readerClosed => cmd <= final.of + Behind
        BY <4>1, <4>2 DEF InTime, Late
      <4>4. Behind' = Behind
        BY <1>1, <1>2, <3>3
      <4> QED
        BY <1>2, <1>4, <2>1, <4>1, <4>3, <4>4 DEF Late
    <3> QED
      BY <3>2, <3>3
  <2>3. CASE err # "ok"
    <3>1. Behind' = Behind
      BY <1>1, <1>2, <2>3
    <3>2. CASE cpc \in {"send", "write"}
      BY <1>2, <1>4, <1>5, <2>1, <2>3, <3>1, <3>2 DEF Late
    <3>3. CASE cpc = "waiting" /\ s_readerClosed
      BY <1>2, <1>4, <1>5, <2>1, <2>3, <3>3 DEF Late
    <3> QED
      BY <2>3, <3>2, <3>3
  <2> QED
    BY <2>2, <2>3
<1>6. err = "ok" => IsFinal(final) /\ InTime(final) /\ Precedes(final, way) /\ final \in Line
  BY DEF OrderInv, CreditInv, TypeOK, Response
<1>7. NotYetReturned'
  <2> SUFFICES ASSUME NEW c \in Commands,
                      c > cmd' \/ (c = cmd' /\ cpc' \in {"register", "send", "write", "waiting"})
               PROVE  returned'[c].err = "none"
    BY DEF NotYetReturned
  <2>1. c > cmd /\ c # cmd
    BY <1>2, <1>4 DEF Commands, Ate, Qfast
  <2> QED
    BY <1>1, <2>1 DEF OrderInv, NotYetReturned
<1>8. (\A d \in asked : Late(d))'
  <2> SUFFICES ASSUME NEW d \in asked PROVE Late(d)'
    OBVIOUS
  <2>1. Late(d) /\ d \in Nat /\ d > 0
    BY DEF OrderInv, TypeOK, Commands, Ate, Qfast
  <2>2. err = "ok" => final.of = 0 \/ final.of < d
    BY <1>6 DEF InTime, Answered, Line, Qfast
  <2> QED
    BY <1>5, <2>1, <2>2
<1>9. (\A i \in 1..Len(way) : InTime(way[i]))'
  <2> SUFFICES ASSUME NEW i \in 1..Len(way) PROVE InTime(way[i])'
    OBVIOUS
  <2>1. InTime(way[i]) /\ way[i] \in Line
    BY WayType DEF OrderInv
  <2>2. way[i].of \in Nat
    BY <2>1 DEF Line, Qfast
  <2>3. CASE way[i].of > 0
    <3>1. err = "ok" => final.of = 0 \/ final.of < way[i].of
      BY <1>6, <2>2, <2>3 DEF Precedes, Before, IsFinal, Line, Qfast
    <3>2. Late(way[i].of)
      BY <2>1, <2>3 DEF InTime
    <3> DEFINE d == way[i].of
    <3>3. d \in Nat /\ d > 0 /\ Late(d)
      BY <2>2, <2>3, <3>2
    <3>4. ASSUME NEW e \in Nat, e > 0, Late(e), err = "ok" => final.of = 0 \/ final.of < e
          PROVE  Late(e)'
      BY <1>5, <3>4
    <3>5. Answered(way[i])'
      BY <2>1 DEF InTime, Answered
    <3> QED
      BY <2>2, <2>3, <3>1, <3>2, <3>4, <3>5 DEF InTime, Late
  <2>4. CASE ~(way[i].of > 0)
    BY <2>4 DEF InTime, Answered
  <2> QED
    BY <2>3, <2>4
<1>10. CreditInv'
  BY <1>4 DEF CreditInv
<1> QED
  BY <1>7, <1>8, <1>9, <1>10 DEF OrderInv, Ordered

(* Every step of the command thread keeps the order.                       *)
LEMMA CommandKeepsOrder ==
  ASSUME TypeOK, TypeOK', OrderInv, Command
  PROVE  OrderInv'
<1>1. way' = way
  BY CommandWay
<1>2. CASE Register \/ CheckChannel \/ CloseModem
  <2>1. /\ UNCHANGED <<cmd, returned, asked, s_readerClosed, rpc>>
        /\ \/ cpc \in {"register", "send"} /\ cpc' \in {"send", "write"}
           \/ cpc = "close" /\ cpc' = "wait_adb"
    BY <1>2 DEF Register, CheckChannel, CloseModem, readerVars, moduleVars
  <2> QED
    BY <1>1, <2>1, MoveKeepsOrder
<1>3. CASE WriteCommand
  BY <1>3, WriteKeepsOrder
<1>4. CASE SendOnClosed
  <2>1. /\ UNCHANGED <<asked, s_readerClosed, rpc>> /\ Return("closed") /\ cpc = "send"
    BY <1>4 DEF SendOnClosed, Return, ClearPendingCommand, readerVars, moduleVars
  <2> QED
    BY <1>1, <2>1, ReturnKeepsOrder
<1>5. CASE WriteFails
  <2>1. /\ UNCHANGED <<asked, s_readerClosed, rpc>> /\ Return("generic") /\ cpc = "write"
    BY <1>5 DEF WriteFails, Return, ClearPendingCommand, readerVars, moduleVars
  <2> QED
    BY <1>1, <2>1, ReturnKeepsOrder
<1>6. CASE Wake
  <2>1. /\ UNCHANGED <<asked, s_readerClosed, rpc>> /\ cpc = "waiting"
        /\ sp_response.final # NoLine \/ s_readerClosed
        /\ Return(IF s_readerClosed THEN "closed" ELSE "ok")
    BY <1>6 DEF Wake, readerVars, moduleVars
  <2>2. CASE s_readerClosed
    BY <1>1, <2>1, <2>2, ReturnKeepsOrder
  <2>3. CASE ~s_readerClosed
    BY <1>1, <2>1, <2>3, ReturnKeepsOrder
  <2> QED
    BY <2>2, <2>3
<1> QED
  BY <1>2, <1>3, <1>4, <1>5, <1>6 DEF Command

(* At the start nothing is on its way and nothing is asked.                *)
LEMMA InitOrder == Init => OrderInv
<1> SUFFICES ASSUME Init PROVE OrderInv
  OBVIOUS
<1>1. way = <<>> /\ Len(way) = 0
  BY DEF Init, way
<1>2. NotYetReturned
  BY DEF Init, NotYetReturned, NotReturned
<1> QED
  BY <1>1, <1>2 DEF Init, OrderInv, Ordered, CreditInv

(* The order of answers and commands holds in every reachable state.       *)
THEOREM AnswersStayInOrder == Spec => [](IInv /\ OrderInv)
<1>1. IInv /\ OrderInv /\ [Next]_vars => (IInv /\ OrderInv)'
  <2> SUFFICES ASSUME IInv, OrderInv, [Next]_vars PROVE (IInv /\ OrderInv)'
    OBVIOUS
  <2>1. IInv'
    BY CommandKeeps, ReaderKeeps, ModuleKeeps, StutterKeeps DEF Next
  <2>2. TypeOK /\ TypeOK'
    BY <2>1 DEF IInv
  <2>3. CASE UNCHANGED vars
    <3>1. UNCHANGED <<commandVars, sp_response, asked, s_readerClosed, rpc>> /\ way' = way
      BY <2>3 DEF vars, sharedVars, moduleVars, readerVars, way
    <3>2. PartOf(way', way)
      BY <2>2, <3>1, Parts, WayType
    <3>3. s_readerClosed => rpc \in {"close", "mark2", "dead"}
      BY DEF OrderInv
    <3>4. OrderInv'
      BY <2>2, <3>1, <3>2, <3>3, PassKeepsOrder
    <3> QED
      BY <2>1, <3>4
  <2> QED
    BY <2>1, <2>2, <2>3, CommandKeepsOrder, ReaderKeepsOrder, ModuleKeepsOrder DEF Next
<1> QED
  BY InitHolds, InitOrder, <1>1, PTL DEF Spec

-----------------------------------------------------------------------------
(* Every carrier ends one command, at most: those that have, the one that  *)
(* is credited and those on their way are as many as the module has sent,  *)
(* or less.                                                                *)
CarrierLines(w) == {i \in 1..Len(w) : IsCarrier(w[i])}

Credited == IF cpc = "waiting" /\ IsCarrier(sp_response.final) THEN 1 ELSE 0

CountInv == Behind + Credited + Cardinality(CarrierLines(way)) <= carriers

(* The carriers of a sequence are finitely many.                           *)
LEMMA CarrierCount ==
  ASSUME NEW w \in Seq(Line)
  PROVE  IsFiniteSet(CarrierLines(w)) /\ Cardinality(CarrierLines(w)) \in Nat
<1>1. CarrierLines(w) \subseteq 1..Len(w) /\ Len(w) \in Int /\ 1 \in Int
  BY DEF CarrierLines
<1>2. IsFiniteSet(1..Len(w))
  BY <1>1, FS_Interval, Zenon
<1> QED
  BY <1>1, <1>2, FS_Subset, FS_CardinalityType

(* A stretch of a sequence has no more carriers.                           *)
LEMMA PartCount ==
  ASSUME NEW v \in Seq(Line), NEW w \in Seq(Line), PartOf(v, w)
  PROVE  Cardinality(CarrierLines(v)) <= Cardinality(CarrierLines(w))
<1>1. PICK o \in Nat : \A i \in 1..Len(v) : i + o \in 1..Len(w) /\ v[i] = w[i + o]
  BY DEF PartOf
<1> DEFINE f == [i \in CarrierLines(v) |-> i + o]
<1>2. \A i \in CarrierLines(v) : i \in Int /\ i + o \in CarrierLines(w)
  BY <1>1 DEF CarrierLines
<1>3. f \in Injection(CarrierLines(v), CarrierLines(w))
  BY <1>2 DEF Injection, IsInjective
<1> QED
  BY <1>3, CarrierCount, FS_Injection

(* Without the first line, it has one less if that was one.                *)
LEMMA TailCount ==
  ASSUME NEW w \in Seq(Line), w # <<>>
  PROVE  Cardinality(CarrierLines(w)) =
            Cardinality(CarrierLines(Tail(w))) + (IF IsCarrier(w[1]) THEN 1 ELSE 0)
<1> DEFINE v == Tail(w)
           r == CarrierLines(w) \ {1}
           f == [i \in CarrierLines(v) |-> i + 1]
<1>1. /\ v \in Seq(Line) /\ Len(v) = Len(w) - 1 /\ Len(w) \in Nat /\ Len(w) > 0
      /\ \A i \in 1..Len(v) : v[i] = w[i + 1]
  OBVIOUS
<1> HIDE DEF v
<1>2. \A i \in CarrierLines(v) : i \in Int /\ i + 1 \in r
  BY <1>1 DEF CarrierLines
<1>3. \A j \in r : j - 1 \in CarrierLines(v) /\ j = (j - 1) + 1
  <2> SUFFICES ASSUME NEW j \in r PROVE j - 1 \in CarrierLines(v) /\ j = (j - 1) + 1
    OBVIOUS
  <2>1. j \in 1..Len(w) /\ j # 1 /\ IsCarrier(w[j])
    BY DEF CarrierLines
  <2>2. j - 1 \in 1..Len(v) /\ j = (j - 1) + 1
    BY <1>1, <2>1
  <2>3. v[j - 1] = w[j]
    BY <1>1, <2>2
  <2> QED
    BY <2>1, <2>2, <2>3 DEF CarrierLines
<1> HIDE DEF r
<1>4. f \in Bijection(CarrierLines(v), r)
  BY <1>2, <1>3 DEF Bijection, Injection, Surjection, IsInjective
<1>5. Cardinality(r) = Cardinality(CarrierLines(v))
  BY <1>1, <1>4, CarrierCount, FS_Bijection DEF ExistsBijection
<1>6. 1 \in CarrierLines(w) <=> IsCarrier(w[1])
  BY <1>1 DEF CarrierLines
<1>7. Cardinality(r) = IF 1 \in CarrierLines(w) THEN Cardinality(CarrierLines(w)) - 1
                                                ELSE Cardinality(CarrierLines(w))
  BY CarrierCount, FS_RemoveElement DEF r
<1> QED
  BY <1>5, <1>6, <1>7, CarrierCount DEF v

(* With other lines behind it, it has those of both.                       *)
LEMMA AppendCount ==
  ASSUME NEW w \in Seq(Line), NEW s \in Seq(Line),
         \A i \in 1..Len(s) : IsCarrier(s[i]) => i = 1 /\ Len(s) = 1
  PROVE  Cardinality(CarrierLines(w \o s)) =
            Cardinality(CarrierLines(w)) + (IF Len(s) = 1 /\ IsCarrier(s[1]) THEN 1 ELSE 0)
<1> DEFINE v == w \o s
<1>1. /\ v \in Seq(Line) /\ Len(v) = Len(w) + Len(s) /\ Len(w) \in Nat /\ Len(s) \in Nat
      /\ \A i \in 1..Len(v) :
            \/ i \in 1..Len(w) /\ v[i] = w[i]
            \/ i > Len(w) /\ i - Len(w) \in 1..Len(s) /\ v[i] = s[i - Len(w)]
  OBVIOUS
<1> HIDE DEF v
<1>2. Len(w) + 1 \notin CarrierLines(w)
  BY <1>1 DEF CarrierLines
<1>3. CASE Len(s) = 1 /\ IsCarrier(s[1])
  <2>1. CarrierLines(v) = CarrierLines(w) \cup {Len(w) + 1}
    BY <1>1, <1>3 DEF CarrierLines
  <2> QED
    BY <1>2, <1>3, <2>1, CarrierCount, FS_AddElement DEF v
<1>4. CASE ~(Len(s) = 1 /\ IsCarrier(s[1]))
  <2>1. \A i \in 1..Len(s) : ~IsCarrier(s[i])
    BY <1>4
  <2>2. \A i \in 1..Len(v) : IsCarrier(v[i]) => i \in 1..Len(w) /\ v[i] = w[i]
    BY <1>1, <2>1
  <2>3. \A i \in 1..Len(w) : i \in 1..Len(v) /\ v[i] = w[i]
    BY <1>1
  <2>4. CarrierLines(v) = CarrierLines(w)
    BY <2>2, <2>3 DEF CarrierLines
  <2> QED
    BY <1>4, <2>4, CarrierCount DEF v
<1> QED
  BY <1>3, <1>4

(* A command of the driver moves a credited carrier to those that have     *)
(* ended a command, or drops nothing.                                      *)
LEMMA CommandKeepsCount ==
  ASSUME TypeOK, TypeOK', OrderInv, CountInv, Command
  PROVE  CountInv'
<1> DEFINE n == Cardinality(CarrierLines(way))
<1>1. way' = way /\ carriers' = carriers /\ carriers \in Nat /\ n \in Nat /\ Behind \in Nat
  <2>1. way' = way
    BY CommandWay
  <2>2. carriers' = carriers
    BY DEF Command, Register, CheckChannel, SendOnClosed, WriteCommand, WriteFails, Wake,
           CloseModem, moduleVars, Return, ClearPendingCommand, Proceed
  <2>3. carriers \in Nat
    BY ChannelAssumption DEF TypeOK
  <2> QED
    BY <2>1, <2>2, <2>3, WayType, CarrierCount, BehindType
<1>2. Credited \in Nat /\ Behind + Credited + n <= carriers
  BY DEF Credited, CountInv
<1> HIDE DEF n
<1>3. ASSUME UNCHANGED returned, Credited' = 0
      PROVE  CountInv'
  <2>1. Behind' = Behind
    BY <1>3 DEF Behind, EndedByCarrier
  <2> QED
    BY <1>1, <1>2, <1>3, <2>1 DEF CountInv, n
<1>4. ASSUME NEW err \in {"ok", "closed", "generic"}, Return(err),
             cpc \in {"send", "write", "waiting"},
             err = "ok" => cpc = "waiting" /\ sp_response.final # NoLine
      PROVE  CountInv'
  <2>1. Behind' = Behind + (IF err = "ok" /\ sp_response.final.of = 0 THEN 1 ELSE 0)
    BY <1>4, ReturnCounts DEF OrderInv
  <2>2. err = "ok" /\ sp_response.final.of = 0 => Credited = 1
    BY <1>4 DEF Credited, IsCarrier, OrderInv, CreditInv
  <2>3. Credited' = 0
    BY <1>4 DEF Return, Proceed, Credited
  <2> QED
    BY <1>1, <1>2, <2>1, <2>2, <2>3 DEF CountInv, n
<1>5. CASE Register \/ CheckChannel \/ CloseModem
  <2>1. UNCHANGED returned /\ cpc' # "waiting"
    BY <1>5 DEF Register, CheckChannel, CloseModem
  <2> QED
    BY <1>3, <2>1 DEF Credited
<1>6. CASE WriteCommand
  <2>1. UNCHANGED returned /\ sp_response'.final = NoLine
    BY <1>6 DEF WriteCommand, NewResponse
  <2>2. Credited' = 0
    BY <2>1 DEF Credited, IsCarrier, IsFinal, NoLine
  <2> QED
    BY <1>3, <2>1, <2>2
<1>7. CASE SendOnClosed
  BY <1>4, <1>7 DEF SendOnClosed
<1>8. CASE WriteFails
  BY <1>4, <1>8 DEF WriteFails
<1>9. CASE Wake
  <2>1. Return(IF s_readerClosed THEN "closed" ELSE "ok") /\ cpc = "waiting"
        /\ (sp_response.final # NoLine \/ s_readerClosed)
    BY <1>9 DEF Wake
  <2>2. CASE s_readerClosed
    BY <1>4, <2>1, <2>2
  <2>3. CASE ~s_readerClosed
    BY <1>4, <2>1, <2>3
  <2> QED
    BY <2>2, <2>3
<1> QED
  BY <1>5, <1>6, <1>7, <1>8, <1>9 DEF Command

(* The reader credits a carrier it takes off the way, or loses it.         *)
LEMMA ReaderKeepsCount ==
  ASSUME TypeOK, TypeOK', OrderInv, CountInv, Reader
  PROVE  CountInv'
<1>1. way \in Seq(Line) /\ way' \in Seq(Line) /\ PartOf(way', way)
  BY WayType, ReaderWay
<1>2. UNCHANGED <<cpc, cmd, returned, carriers>>
  BY DEF Reader, ReadLine, ReadSecondLine, ReadEnd, ProcessLine, CheckClosed, MarkClosed,
         ClosePort, MarkClosedAgain, commandVars, moduleVars
<1>3. Behind' = Behind /\ Behind \in Nat /\ carriers \in Nat
  <2>1. EndedByCarrier' = EndedByCarrier
    BY <1>2 DEF EndedByCarrier
  <2>2. carriers \in Nat
    BY ChannelAssumption DEF TypeOK
  <2> QED
    BY <2>1, <2>2, BehindType DEF Behind
<1>4. /\ Cardinality(CarrierLines(way)) \in Nat /\ Cardinality(CarrierLines(way')) \in Nat
      /\ Cardinality(CarrierLines(way')) <= Cardinality(CarrierLines(way))
  BY <1>1, CarrierCount, PartCount
<1>5. Credited \in Nat /\ Credited' \in Nat
      /\ Behind + Credited + Cardinality(CarrierLines(way)) <= carriers
  BY DEF Credited, CountInv
<1>6. CASE sp_response'.final = sp_response.final
  <2>1. Credited' = Credited
    BY <1>2, <1>6 DEF Credited
  <2> QED
    BY <1>2, <1>3, <1>4, <1>5, <2>1 DEF CountInv
<1>7. CASE ProcessLine /\ sp_response' = [sp_response EXCEPT !.final = line]
  <2>1. way # <<>> /\ line = way[1] /\ way' = Tail(way)
    BY <1>7, ReaderWay
  <2>2. Cardinality(CarrierLines(way)) =
           Cardinality(CarrierLines(way')) + (IF IsCarrier(line) THEN 1 ELSE 0)
    BY <1>1, <2>1, TailCount
  <2>3. sp_response'.final = line
    BY <1>7 DEF TypeOK, Response
  <2>4. Credited' <= (IF IsCarrier(line) THEN 1 ELSE 0)
    BY <2>3 DEF Credited
  <2> QED
    BY <1>2, <1>3, <1>4, <1>5, <2>2, <2>4 DEF CountInv
<1>8. \/ sp_response'.final = sp_response.final
      \/ ProcessLine /\ sp_response' = [sp_response EXCEPT !.final = line]
  <2>1. CASE ProcessLine
    <3>1. sp_response \in Response
      BY DEF TypeOK
    <3>2. \/ sp_response' = sp_response
          \/ sp_response' = [sp_response EXCEPT !.final = line]
          \/ sp_response' = [sp_response EXCEPT !.lines = <<line>> \o @]
      BY <2>1 DEF ProcessLine, HandleUnsolicited, HandleFinalResponse, AddIntermediate
    <3> QED
      BY <2>1, <3>1, <3>2 DEF Response
  <2>2. CASE ~ProcessLine
    BY <2>2 DEF Reader, ReadLine, ReadSecondLine, ReadEnd, CheckClosed, MarkClosed,
                ClosePort, MarkClosedAgain, sharedVars
  <2> QED
    BY <2>1, <2>2
<1> QED
  BY <1>6, <1>7, <1>8

(* The module counts the carriers it sends.                                *)
LEMMA ModuleKeepsCount ==
  ASSUME TypeOK, TypeOK', CountInv, Module
  PROVE  CountInv'
<1>1. way \in Seq(Line) /\ way' \in Seq(Line) /\ wire \in Seq(Line)
  BY WayType DEF TypeOK
<1>2. UNCHANGED <<cpc, cmd, returned, rpc, line, sp_response>>
  BY DEF Module, Answer, Unsolicited, HangUp, commandVars, readerVars, sharedVars
<1>3. Behind' = Behind /\ Behind \in Nat /\ carriers \in Nat /\ Credited' = Credited
      /\ Credited \in Nat
  <2>1. EndedByCarrier' = EndedByCarrier
    BY <1>2 DEF EndedByCarrier
  <2>2. carriers \in Nat
    BY ChannelAssumption DEF TypeOK
  <2>3. Credited' = Credited /\ Credited \in Nat
    BY <1>2 DEF Credited
  <2> QED
    BY <2>1, <2>2, <2>3, BehindType DEF Behind
<1>4. Cardinality(CarrierLines(way)) \in Nat /\ Cardinality(CarrierLines(way')) \in Nat
      /\ Behind + Credited + Cardinality(CarrierLines(way)) <= carriers
  BY <1>1, CarrierCount DEF CountInv
<1>5. CASE Answer
  <2>1. PICK c \in asked, last \in Line, s \in Seq(Line) :
          /\ asked' = {d \in asked : d > c} /\ wire' = wire \o s
          /\ last.of = c /\ last.kind \in {"OK", "ERROR"}
          /\ Ordered(s) /\ Len(s) > 0 /\ s[Len(s)] = last
          /\ \A i \in 1..(Len(s) - 1) : Numbered(s[i], c, i)
    BY <1>5, AnswerLines
  <2>2. c # 0
    BY DEF TypeOK, Commands, Ate, Qfast
  <2>3. \A i \in 1..Len(s) : ~IsCarrier(s[i])
    BY <2>1, <2>2 DEF Numbered, IsCarrier
  <2>4. way' = way \o s
    BY <1>2, <2>1, AppendWay DEF readerVars
  <2>5. Cardinality(CarrierLines(way')) = Cardinality(CarrierLines(way))
    BY <1>1, <1>4, <2>3, <2>4, AppendCount
  <2>6. carriers' = carriers
    BY <1>5 DEF Answer
  <2> QED
    BY <1>3, <1>4, <2>5, <2>6 DEF CountInv
<1>6. CASE Unsolicited
  <2>1. PICK k \in {"urc", "sms", "ERROR"} :
          /\ wire' = Append(wire, [kind |-> k, of |-> 0, n |-> 0])
          /\ carriers' = carriers + (IF k = "ERROR" THEN 1 ELSE 0)
    BY <1>6 DEF Unsolicited
  <2> DEFINE l == [kind |-> k, of |-> 0, n |-> 0]
             s == <<l>>
  <2>2. l \in Line /\ (IsCarrier(l) <=> k = "ERROR")
    BY ChannelAssumption DEF Line, Qfast, IsCarrier, IsFinal
  <2>3. wire' = Append(wire, l)
    BY <2>1
  <2> HIDE DEF l
  <2>4. s \in Seq(Line) /\ Len(s) = 1 /\ s[1] = l
    BY <2>2
  <2>5. wire' = wire \o s
    BY <1>1, <2>2, <2>3
  <2> HIDE DEF s
  <2>6. way' = way \o s
    BY <1>2, <2>4, <2>5, AppendWay DEF readerVars
  <2>7. Cardinality(CarrierLines(way')) =
           Cardinality(CarrierLines(way)) + (IF k = "ERROR" THEN 1 ELSE 0)
    BY <1>1, <2>2, <2>4, <2>6, AppendCount
  <2> QED
    BY <1>3, <1>4, <2>1, <2>7 DEF CountInv
<1>7. CASE HangUp
  <2>1. PartOf(way', way)
    BY <1>1, <1>7, HangUpWay, Parts
  <2>2. Cardinality(CarrierLines(way')) <= Cardinality(CarrierLines(way))
    BY <1>1, <2>1, PartCount
  <2>3. carriers' = carriers
    BY <1>7 DEF HangUp
  <2> QED
    BY <1>3, <1>4, <2>2, <2>3 DEF CountInv
<1> QED
  BY <1>5, <1>6, <1>7 DEF Module

(* The count is right at the start.                                        *)
LEMMA InitCount == Init => CountInv
<1> SUFFICES ASSUME Init PROVE CountInv
  OBVIOUS
<1>1. way = <<>> /\ CarrierLines(way) = {}
  BY DEF Init, way, CarrierLines
<1>2. EndedByCarrier = {}
  BY DEF Init, EndedByCarrier, NotReturned
<1>3. Credited = 0 /\ carriers = 0
  BY DEF Init, Credited
<1> QED
  BY <1>1, <1>2, <1>3, FS_EmptySet DEF CountInv, Behind

(* As long as nothing came unsolicited, an answer that is on its way is    *)
(* the one the command thread waits for.                                   *)
NoneLate ==
    urcs = 0 /\ ~s_readerClosed =>
        \A i \in 1..Len(way) : way[i].of > 0 => cpc = "waiting" /\ cmd = way[i].of

(* It follows: no command can be behind.                                   *)
LEMMA AnswerIsAwaited == TypeOK /\ OrderInv /\ CountInv => NoneLate
<1> SUFFICES ASSUME TypeOK, OrderInv, CountInv, urcs = 0, ~s_readerClosed,
                    NEW i \in 1..Len(way), way[i].of > 0
             PROVE  cpc = "waiting" /\ cmd = way[i].of
  BY DEF NoneLate
<1>1. carriers = 0 /\ way[i] \in Line /\ cmd \in Nat
  BY WayType DEF TypeOK, Commands, Ate, Qfast
<1>2. Cardinality(CarrierLines(way)) \in Nat /\ Credited \in Nat /\ Behind \in Nat
  BY WayType, CarrierCount, BehindType DEF Credited
<1>3. Behind = 0
  BY <1>1, <1>2 DEF CountInv
<1>4. Late(way[i].of) /\ way[i].of \in Nat
  BY <1>1 DEF OrderInv, InTime, Line, Qfast
<1>5. cpc \in {"register", "send", "write", "waiting", "close", "wait_adb", "failed"}
  BY DEF TypeOK
<1> QED
  BY <1>1, <1>3, <1>4, <1>5 DEF Late

Base == TypeOK /\ OrderInv /\ CountInv /\ NoneLate

(* Types, order and count hold in every reachable state.                   *)
LEMMA BaseHolds == Spec => []Base
<1>1. TypeOK /\ TypeOK' /\ OrderInv /\ CountInv /\ [Next]_vars => CountInv'
  <2> SUFFICES ASSUME TypeOK, TypeOK', OrderInv, CountInv, [Next]_vars PROVE CountInv'
    OBVIOUS
  <2>1. CASE UNCHANGED vars
    BY <2>1 DEF vars, commandVars, readerVars, sharedVars, moduleVars, CountInv, Behind,
                EndedByCarrier, Credited, way
  <2> QED
    BY <2>1, CommandKeepsCount, ReaderKeepsCount, ModuleKeepsCount DEF Next
<1>2. IInv => TypeOK
  BY DEF IInv
<1>3. Spec => []CountInv
  BY InitCount, <1>1, <1>2, AnswersStayInOrder, PTL DEF Spec
<1>4. TypeOK /\ OrderInv /\ CountInv => Base
  BY AnswerIsAwaited DEF Base
<1> QED
  BY <1>2, <1>3, <1>4, AnswersStayInOrder, PTL

(* What a command that is ended by an answer takes from the invariant.     *)
OwnAnswerInTime ==
    \A c \in Commands : returned[c].err = "ok" /\ returned[c].final.of # 0 =>
        returned[c].final.of <= c /\ c - returned[c].final.of <= carriers

(* Carriers are only ever added, and what commands have returned changes   *)
(* by Return alone.                                                        *)
LEMMA ReturnedBy ==
  ASSUME TypeOK, [Next]_vars
  PROVE  /\ carriers' >= carriers /\ (urcs' = 0 => urcs = 0)
         /\ \/ UNCHANGED returned
            \/ /\ Command /\ cpc \in {"send", "write"} /\ UNCHANGED <<urcs, carriers>>
               /\ Return("closed") \/ Return("generic")
            \/ /\ Command /\ cpc = "waiting" /\ UNCHANGED <<urcs, carriers>>
               /\ Return("closed") \/ (Return("ok") /\ sp_response.final # NoLine /\ ~s_readerClosed)
<1>1. carriers \in Nat /\ urcs \in Nat
  BY ChannelAssumption DEF TypeOK
<1>2. CASE Command
  <2>1. CASE Register \/ CheckChannel \/ WriteCommand \/ CloseModem
    BY <1>1, <2>1 DEF Register, CheckChannel, WriteCommand, CloseModem, moduleVars
  <2>2. CASE SendOnClosed
    BY <1>1, <1>2, <2>2 DEF SendOnClosed, moduleVars, Return, ClearPendingCommand, Proceed
  <2>3. CASE WriteFails
    BY <1>1, <1>2, <2>3 DEF WriteFails, moduleVars, Return, ClearPendingCommand, Proceed
  <2>4. CASE Wake
    <3>1. /\ cpc = "waiting" /\ UNCHANGED <<urcs, carriers>>
          /\ sp_response.final # NoLine \/ s_readerClosed
          /\ Return(IF s_readerClosed THEN "closed" ELSE "ok")
      BY <2>4 DEF Wake, moduleVars
    <3>2. CASE s_readerClosed
      BY <1>1, <1>2, <3>1, <3>2
    <3>3. CASE ~s_readerClosed
      BY <1>1, <1>2, <3>1, <3>3
    <3> QED
      BY <3>2, <3>3
  <2> QED
    BY <1>2, <2>1, <2>2, <2>3, <2>4 DEF Command
<1>3. CASE Reader
  <2>1. UNCHANGED <<returned, urcs, carriers>>
    BY <1>3 DEF Reader, ReadLine, ReadSecondLine, ReadEnd, ProcessLine, CheckClosed,
           MarkClosed, ClosePort, MarkClosedAgain, commandVars, moduleVars
  <2> QED
    BY <1>1, <2>1
<1>4. CASE Module
  <2>1. CASE Answer \/ HangUp
    BY <1>1, <2>1 DEF Answer, HangUp, commandVars
  <2>2. CASE Unsolicited
    <3>1. UNCHANGED returned /\ urcs' = urcs + 1
      BY <2>2 DEF Unsolicited, commandVars
    <3>2. carriers' = carriers \/ carriers' = carriers + 1
      BY <1>1, <2>2 DEF Unsolicited
    <3> QED
      BY <1>1, <3>1, <3>2
  <2> QED
    BY <1>4, <2>1, <2>2 DEF Module
<1>5. CASE UNCHANGED vars
  BY <1>1, <1>5 DEF vars, commandVars, moduleVars
<1> QED
  BY <1>2, <1>3, <1>4, <1>5 DEF Next

(* A command that returned was ended by its own final response, or by one  *)
(* as many commands before it as the module has sent unsolicited ones.     *)
THEOREM AnswersAreOwn == Spec => []OwnAnswer
<1>1. Init => OwnAnswerInTime
  BY DEF Init, OwnAnswerInTime, NotReturned
<1>2. Base /\ Base' /\ OwnAnswerInTime /\ [Next]_vars => OwnAnswerInTime'
  <2> SUFFICES ASSUME Base, Base', OwnAnswerInTime, [Next]_vars,
                      NEW c \in Commands, returned'[c].err = "ok", returned'[c].final.of # 0
               PROVE  /\ returned'[c].final.of <= c
                      /\ c - returned'[c].final.of <= carriers'
    BY DEF OwnAnswerInTime
  <2>1. /\ TypeOK /\ TypeOK' /\ OrderInv /\ CountInv /\ CountInv'
        /\ c \in Nat /\ carriers' \in Nat /\ carriers \in Nat /\ carriers' >= carriers
    <3>1. TypeOK /\ TypeOK' /\ OrderInv /\ CountInv /\ CountInv'
      BY DEF Base
    <3>2. c \in Nat /\ carriers' \in Nat /\ carriers \in Nat
      BY <3>1, ChannelAssumption DEF TypeOK, Commands, Ate, Qfast
    <3> QED
      BY <3>1, <3>2, ReturnedBy
  <2>2. returned'[c].final.of \in Nat
    <3>1. returned'[c].final \in Line
      BY <2>1 DEF TypeOK
    <3> QED
      BY <3>1 DEF Line, Qfast
  <2>3. CASE returned'[c] = returned[c]
    BY <2>1, <2>2, <2>3 DEF OwnAnswerInTime
  <2>4. CASE returned'[c] # returned[c]
    <3>1. PICK err \in {"ok", "closed", "generic"} :
            /\ Return(err) /\ cpc \in {"send", "write", "waiting"}
            /\ err = "ok" => /\ cpc = "waiting" /\ sp_response.final # NoLine
                             /\ ~s_readerClosed
      BY <2>1, <2>4, ReturnedBy
    <3>2. /\ returned'[cmd].err = err /\ returned'[cmd].final = sp_response.final
          /\ \A d \in Commands : d # cmd => returned'[d] = returned[d]
      BY <2>1, <3>1, ReturnCounts DEF OrderInv
    <3>3. /\ c = cmd /\ err = "ok" /\ cpc = "waiting" /\ sp_response.final # NoLine
          /\ ~s_readerClosed
      BY <2>4, <3>1, <3>2
    <3>4. InTime(sp_response.final) /\ sp_response.final.of # 0
      BY <2>1, <3>2, <3>3 DEF OrderInv, CreditInv
    <3>5. Late(sp_response.final.of)
      BY <2>2, <3>2, <3>3, <3>4 DEF InTime
    <3>6. returned'[c].final.of <= c
      BY <3>2, <3>3, <3>5 DEF Late
    <3>7. c <= returned'[c].final.of + Behind
      BY <3>2, <3>3, <3>5 DEF Late
    <3>8. Behind \in Nat /\ Behind <= carriers
      <4>1. Cardinality(CarrierLines(way)) \in Nat /\ Credited \in Nat /\ Behind \in Nat
        BY <2>1, WayType, CarrierCount, BehindType DEF Credited
      <4> QED
        BY <2>1, <4>1 DEF CountInv
    <3> QED
      BY <2>1, <2>2, <3>6, <3>7, <3>8
  <2> QED
    BY <2>3, <2>4
<1>3. Base /\ OwnAnswerInTime => OwnAnswer
  <2> SUFFICES ASSUME Base, OwnAnswerInTime, NEW c \in Commands, returned[c].err = "ok"
               PROVE  IF returned[c].final.of = 0 THEN carriers > 0
                      ELSE /\ returned[c].final.of <= c
                           /\ c - returned[c].final.of <= carriers
    BY DEF OwnAnswer
  <2>1. CASE returned[c].final.of = 0
    <3>1. EndedByCarrier # {}
      BY <2>1 DEF EndedByCarrier
    <3>2. Behind \in Nat /\ Behind # 0
      BY <3>1, BehindType, FS_EmptySet DEF Behind
    <3>3. Cardinality(CarrierLines(way)) \in Nat /\ Credited \in Nat /\ carriers \in Nat
      BY ChannelAssumption, WayType, CarrierCount DEF Credited, Base, TypeOK
    <3> QED
      BY <2>1, <3>2, <3>3 DEF Base, CountInv
  <2>2. CASE returned[c].final.of # 0
    BY <2>2 DEF OwnAnswerInTime
  <2> QED
    BY <2>1, <2>2
<1> QED
  BY <1>1, <1>2, <1>3, BaseHolds, PTL DEF Spec

-----------------------------------------------------------------------------
(* The lines of the answer to ATI: which are on their way, which collected *)
(* and which returned.                                                     *)
Known(l) == l.kind = "info" => l.of = Ati

InfoInv ==
    /\ \A i \in 1..Len(way) : Known(way[i])
    /\ cpc = "waiting" => \A i \in 1..Len(sp_response.lines) : Known(sp_response.lines[i])

(* The final line of a whole answer.                                       *)
Ends(l) == l.kind = "OK" /\ l.of = Ati

Has(s, n) == \E i \in 1..Len(s) : IsInfo(s[i], n)

(* As long as nothing came unsolicited: in front of that line are all      *)
(* lines of its answer, on the way or collected already.                   *)
WholeInv ==
    urcs = 0 =>
        /\ rpc # "read2"
        /\ \A i \in 1..Len(way) : way[i].of > 0 /\ way[i].kind # "sms"
        /\ ~s_readerClosed =>
              \A i \in 1..Len(way), n \in 1..Infos : Ends(way[i]) =>
                 \/ \E k \in 1..Len(way) : k < i /\ IsInfo(way[k], n)
                 \/ cpc = "waiting" /\ Has(sp_response.lines, n)
        /\ cpc = "waiting" /\ Ends(sp_response.final) =>
              \A n \in 1..Infos : Has(sp_response.lines, n)

(* Lines that are collected stay collected.                                *)
LEMMA HasMore ==
  ASSUME NEW l \in Line, NEW s \in Seq(Line), NEW n
  PROVE  /\ Has(s, n) => Has(<<l>> \o s, n)
         /\ IsInfo(l, n) => Has(<<l>> \o s, n)
<1> DEFINE t == <<l>> \o s
<1>1. /\ Len(t) = Len(s) + 1 /\ t[1] = l /\ Len(s) \in Nat
      /\ \A i \in 1..Len(s) : i + 1 \in 1..Len(t) /\ t[i + 1] = s[i]
  OBVIOUS
<1> HIDE DEF t
<1>2. ASSUME NEW i \in 1..Len(s), IsInfo(s[i], n) PROVE Has(t, n)
  BY <1>1, <1>2 DEF Has
<1>3. IsInfo(l, n) => Has(t, n)
  BY <1>1 DEF Has
<1> QED
  BY <1>2, <1>3 DEF Has, t

(* ProcessLine, seen from the way: its first line goes to the unsolicited  *)
(* handler, ends the command or is collected.                              *)
LEMMA ProcessCases ==
  ASSUME TypeOK, ProcessLine
  PROVE  /\ way # <<>> /\ line = way[1] /\ way' = Tail(way) /\ line \in Line
         /\ rpc = "process" /\ rpc' = "read" /\ UNCHANGED <<cpc, cmd, s_readerClosed, urcs>>
         /\ cpc = "waiting" /\ cmd = Ati /\ line.kind = "info" =>
               /\ sp_response'.lines = <<line>> \o sp_response.lines
               /\ sp_response'.final = sp_response.final
         /\ \/ UNCHANGED sp_response
            \/ /\ sp_response'.final = line /\ IsFinal(line)
               /\ sp_response'.lines = sp_response.lines
            \/ /\ sp_response'.lines = <<line>> \o sp_response.lines
               /\ sp_response'.final = sp_response.final
<1>1. /\ way # <<>> /\ line = way[1] /\ way' = Tail(way) /\ line \in Line
      /\ sp_response \in Response /\ (sp_response.pending <=> cpc = "waiting")
  BY ReaderWay DEF Reader, TypeOK
<1>2. /\ rpc = "process" /\ rpc' = "read" /\ UNCHANGED <<cpc, cmd, s_readerClosed, urcs>>
      /\ \/ UNCHANGED sp_response
         \/ sp_response' = [sp_response EXCEPT !.final = line] /\ IsFinal(line)
         \/ sp_response' = [sp_response EXCEPT !.lines = <<line>> \o @] /\ ~IsFinal(line)
  BY DEF ProcessLine, HandleUnsolicited, HandleFinalResponse, AddIntermediate, commandVars,
         moduleVars
<1>3. cpc = "waiting" /\ cmd = Ati /\ line.kind = "info" =>
         sp_response' = [sp_response EXCEPT !.lines = <<line>> \o @]
  BY <1>1 DEF ProcessLine, AddIntermediate, TypeOf, IsFinal, Ate, Ati, Qfast
<1> QED
  BY <1>1, <1>2, <1>3 DEF Response

(* Lines are taken off the way or put on it as they are, and only the      *)
(* answer to ATI has information lines.                                    *)
LEMMA InfoKept ==
  ASSUME TypeOK, TypeOK', InfoInv, [Next]_vars
  PROVE  InfoInv'
<1>1. way \in Seq(Line) /\ way' \in Seq(Line)
  BY WayType
<1>2. CASE ~Module
  <2>1. PartOf(way', way)
    <3>1. CASE UNCHANGED vars
      <4>1. way' = way
        BY <3>1 DEF vars, readerVars, moduleVars, way
      <4> QED
        BY <1>1, <4>1, Parts
    <3> QED
      BY <1>1, <1>2, <3>1, CommandWay, ReaderWay, Parts DEF Next
  <2>2. \A i \in 1..Len(way') : Known(way'[i])
    BY <1>1, <2>1, PartKeeps DEF InfoInv
  <2>3. ASSUME cpc' = "waiting", NEW i \in 1..Len(sp_response'.lines)
        PROVE  Known(sp_response'.lines[i])
    <3>1. CASE Command
      <4>1. WriteCommand \/ (UNCHANGED sp_response /\ cpc' # "waiting") \/ cpc' # "waiting"
        BY <3>1 DEF Command, Register, CheckChannel, SendOnClosed, WriteFails, Wake,
                    CloseModem, Return, Proceed
      <4>2. sp_response' = NewResponse
        BY <2>3, <4>1 DEF WriteCommand
      <4> QED
        BY <2>3, <4>2 DEF NewResponse
    <3>2. CASE ProcessLine
      <4>1. cpc = "waiting" /\ Known(line) /\ line \in Line
        BY <1>1, <2>3, <3>2, ProcessCases DEF InfoInv
      <4>2. sp_response'.lines \in {sp_response.lines, <<line>> \o sp_response.lines}
        BY <3>2, ProcessCases
      <4>3. sp_response.lines \in Seq(Line)
        BY DEF TypeOK, Response
      <4>4. CASE sp_response'.lines = sp_response.lines
        BY <2>3, <4>1, <4>4 DEF InfoInv
      <4>5. CASE sp_response'.lines = <<line>> \o sp_response.lines
        <5> DEFINE t == <<line>> \o sp_response.lines
        <5>1. /\ t[1] = line
              /\ \A j \in 1..Len(t) : j = 1 \/ (j - 1 \in 1..Len(sp_response.lines)
                                                /\ t[j] = sp_response.lines[j - 1])
          BY <4>1, <4>3
        <5> HIDE DEF t
        <5>2. sp_response'.lines = t
          BY <4>5 DEF t
        <5>3. \A j \in 1..Len(sp_response.lines) : Known(sp_response.lines[j])
          BY <4>1 DEF InfoInv
        <5> QED
          BY <2>3, <4>1, <5>1, <5>2, <5>3
      <4> QED
        BY <4>2, <4>4, <4>5
    <3>3. CASE ~Command /\ ~ProcessLine
      <4>1. UNCHANGED <<cpc, sp_response>>
        BY <1>2, <3>3 DEF Next, Reader, ReadLine, ReadSecondLine, ReadEnd, CheckClosed,
             MarkClosed, ClosePort, MarkClosedAgain, vars, commandVars, sharedVars
      <4> QED
        BY <2>3, <4>1 DEF InfoInv
    <3> QED
      BY <3>1, <3>2, <3>3
  <2> QED
    BY <2>2, <2>3 DEF InfoInv
<1>3. CASE Module
  <2>1. UNCHANGED <<cpc, sp_response, rpc, line>>
    BY <1>3 DEF Module, Answer, Unsolicited, HangUp, commandVars, sharedVars, readerVars
  <2>2. \A i \in 1..Len(way) : Known(way[i])
    BY DEF InfoInv
  <2>3. CASE HangUp
    <3>1. PartOf(way', way)
      BY <1>1, <2>3, HangUpWay, Parts
    <3> QED
      BY <1>1, <2>1, <3>1, PartKeeps DEF InfoInv
  <2>4. ASSUME NEW s \in Seq(Line), wire' = wire \o s, \A i \in 1..Len(s) : Known(s[i])
        PROVE  InfoInv'
    <3>1. way' = way \o s
      BY <2>1, <2>4, AppendWay DEF readerVars
    <3>2. \A i \in 1..Len(way') :
             \/ i \in 1..Len(way) /\ way'[i] = way[i]
             \/ i - Len(way) \in 1..Len(s) /\ way'[i] = s[i - Len(way)]
      BY <1>1, <3>1
    <3> QED
      BY <2>1, <2>2, <2>4, <3>2 DEF InfoInv
  <2>5. CASE Answer
    <3>1. PICK c \in asked, last \in Line, s \in Seq(Line) :
            /\ asked' = {d \in asked : d > c} /\ wire' = wire \o s
            /\ last.of = c /\ last.kind \in {"OK", "ERROR"}
            /\ Ordered(s) /\ Len(s) > 0 /\ s[Len(s)] = last
            /\ \A i \in 1..(Len(s) - 1) : Numbered(s[i], c, i)
            /\ Len(s) > 1 => c = Ati
            /\ c = Ati /\ last.kind = "OK" => Len(s) = Infos + 1
      BY <2>5, AnswerLines
    <3>2. \A i \in 1..Len(s) : Known(s[i])
      <4> SUFFICES ASSUME NEW i \in 1..Len(s) PROVE Known(s[i])
        OBVIOUS
      <4>1. CASE i = Len(s)
        BY <3>1, <4>1 DEF Known
      <4>2. CASE i # Len(s)
        <5>1. i \in 1..(Len(s) - 1) /\ Len(s) > 1
          BY <4>2
        <5> QED
          BY <3>1, <5>1 DEF Known, Numbered
      <4> QED
        BY <4>1, <4>2
    <3> QED
      BY <2>4, <3>1, <3>2
  <2>6. CASE Unsolicited
    <3>1. PICK k \in {"urc", "sms", "ERROR"} :
            wire' = Append(wire, [kind |-> k, of |-> 0, n |-> 0])
      BY <2>6 DEF Unsolicited
    <3> DEFINE l == [kind |-> k, of |-> 0, n |-> 0]
               s == <<l>>
    <3>2. l \in Line /\ Known(l)
      BY ChannelAssumption DEF Line, Qfast, Known
    <3>3. wire' = Append(wire, l) /\ wire \in Seq(Line)
      BY <3>1 DEF TypeOK
    <3> HIDE DEF l
    <3>4. s \in Seq(Line) /\ wire' = wire \o s /\ \A i \in 1..Len(s) : Known(s[i])
      BY <3>2, <3>3
    <3> HIDE DEF s
    <3> QED
      BY <2>4, <3>4
  <2> QED
    BY <1>3, <2>3, <2>5, <2>6 DEF Module
<1> QED
  BY <1>2, <1>3

(* The reader: what it takes for an answer to ATI is collected, because    *)
(* that command waits.                                                     *)
LEMMA ReaderKeepsWhole ==
  ASSUME TypeOK, TypeOK', Base, WholeInv, Reader
  PROVE  WholeInv'
<1> SUFFICES ASSUME urcs' = 0
             PROVE  WholeInv'
  BY DEF WholeInv
<1>1. way \in Seq(Line) /\ way' \in Seq(Line) /\ sp_response.lines \in Seq(Line)
      /\ UNCHANGED <<cpc, cmd, urcs>>
  BY WayType DEF TypeOK, Response, Reader, ReadLine, ReadSecondLine, ReadEnd, ProcessLine,
     CheckClosed, MarkClosed, ClosePort, MarkClosedAgain, commandVars, moduleVars
<1>2. /\ rpc # "read2"
      /\ \A i \in 1..Len(way) : way[i].of > 0 /\ way[i].kind # "sms"
      /\ ~s_readerClosed =>
            \A i \in 1..Len(way), n \in 1..Infos : Ends(way[i]) =>
               \/ \E k \in 1..Len(way) : k < i /\ IsInfo(way[k], n)
               \/ cpc = "waiting" /\ Has(sp_response.lines, n)
      /\ cpc = "waiting" /\ Ends(sp_response.final) =>
            \A n \in 1..Infos : Has(sp_response.lines, n)
  BY <1>1 DEF WholeInv
<1>3. CASE ProcessLine
  <2>1. /\ way # <<>> /\ line = way[1] /\ way' = Tail(way) /\ line \in Line
        /\ rpc = "process" /\ rpc' = "read" /\ UNCHANGED <<cpc, cmd, s_readerClosed>>
        /\ cpc = "waiting" /\ cmd = Ati /\ line.kind = "info" =>
               sp_response'.lines = <<line>> \o sp_response.lines
        /\ \/ UNCHANGED sp_response
           \/ sp_response'.final = line /\ sp_response'.lines = sp_response.lines
           \/ /\ sp_response'.lines = <<line>> \o sp_response.lines
              /\ sp_response'.final = sp_response.final
    BY <1>3, ProcessCases
  <2>2. ~s_readerClosed
    BY <2>1 DEF Base, OrderInv
  <2>3. /\ Len(way') = Len(way) - 1 /\ 1 \in 1..Len(way)
        /\ \A i \in 1..Len(way') : i + 1 \in 1..Len(way) /\ way'[i] = way[i + 1]
        /\ \A k \in 1..Len(way) : k > 1 => k - 1 \in 1..Len(way') /\ way'[k - 1] = way[k]
    BY <1>1, <2>1
  <2>4. \A n : Has(sp_response.lines, n) => Has(sp_response'.lines, n)
    BY <1>1, <2>1, HasMore
  <2>5. ASSUME NEW i \in 1..Len(way'), NEW n \in 1..Infos, Ends(way'[i])
        PROVE  \/ \E k \in 1..Len(way') : k < i /\ IsInfo(way'[k], n)
               \/ cpc' = "waiting" /\ Has(sp_response'.lines, n)
    <3>1. Ends(way[i + 1]) /\ i + 1 \in 1..Len(way) /\ i \in Nat
      BY <2>3, <2>5
    <3>2. CASE cpc = "waiting" /\ Has(sp_response.lines, n)
      BY <2>1, <2>4, <3>2
    <3>3. ASSUME NEW k \in 1..Len(way), k < i + 1, IsInfo(way[k], n), k > 1
          PROVE  \E j \in 1..Len(way') : j < i /\ IsInfo(way'[j], n)
      <4>1. k - 1 \in 1..Len(way') /\ k - 1 < i /\ way'[k - 1] = way[k]
        BY <2>3, <3>1, <3>3
      <4> QED
        BY <3>3, <4>1
    <3>4. ASSUME IsInfo(line, n)
          PROVE  cpc' = "waiting" /\ Has(sp_response'.lines, n)
      <4>1. way[i + 1].of = Ati /\ Ati > 0
        BY <3>1 DEF Ends, Ati
      <4>2. cpc = "waiting" /\ cmd = Ati
        BY <1>1, <2>2, <3>1, <4>1 DEF Base, NoneLate
      <4>3. sp_response'.lines = <<line>> \o sp_response.lines
        BY <2>1, <3>4, <4>2 DEF IsInfo
      <4> QED
        BY <1>1, <2>1, <3>4, <4>2, <4>3, HasMore
    <3>5. \/ \E k \in 1..Len(way) : k < i + 1 /\ IsInfo(way[k], n)
          \/ cpc = "waiting" /\ Has(sp_response.lines, n)
      BY <1>2, <2>2, <3>1
    <3>6. \A k \in 1..Len(way) : k > 1 \/ way[k] = line
      BY <2>1
    <3> QED
      BY <3>2, <3>3, <3>4, <3>5, <3>6
  <2>6. ASSUME cpc' = "waiting", Ends(sp_response'.final), NEW n \in 1..Infos
        PROVE  Has(sp_response'.lines, n)
    <3>1. CASE sp_response'.final = sp_response.final
      BY <1>2, <2>1, <2>4, <2>6, <3>1
    <3>2. CASE sp_response'.final = line
      <4>1. Ends(way[1])
        BY <2>1, <2>6, <3>2
      <4>2. ~\E k \in 1..Len(way) : k < 1 /\ IsInfo(way[k], n)
        OBVIOUS
      <4>3. Has(sp_response.lines, n)
        BY <1>2, <2>2, <2>3, <4>1, <4>2
      <4> QED
        BY <2>4, <4>3
    <3> QED
      BY <2>1, <3>1, <3>2
  <2>7. \A i \in 1..Len(way') : way'[i].of > 0 /\ way'[i].kind # "sms"
    BY <1>2, <2>3
  <2>8. rpc' # "read2"
    BY <2>1
  <2> QED
    BY <2>5, <2>6, <2>7, <2>8 DEF WholeInv
<1>4. CASE ~ProcessLine
  <2>1. UNCHANGED sp_response /\ (s_readerClosed => s_readerClosed')
    <3>1. CASE ReadLine \/ ReadSecondLine \/ ReadEnd \/ CheckClosed
      <4>1. UNCHANGED sharedVars
        BY <3>1 DEF ReadLine, ReadSecondLine, ReadEnd, CheckClosed
      <4> QED
        BY <4>1 DEF sharedVars
    <3>2. CASE MarkClosed
      BY <3>2 DEF MarkClosed
    <3>3. CASE ClosePort
      BY <3>3 DEF ClosePort
    <3>4. CASE MarkClosedAgain
      BY <3>4 DEF MarkClosedAgain
    <3> QED
      BY <1>4, <3>1, <3>2, <3>3, <3>4 DEF Reader
  <2>2. way' = way /\ rpc' # "read2"
    <3>1. CASE ReadLine
      <4>1. rpc = "read" /\ wire # <<>> /\ line' = Head(wire) /\ way = wire
        BY <3>1 DEF ReadLine, way
      <4>2. line' = way[1] /\ 1 \in 1..Len(way)
        BY <1>1, <4>1
      <4>3. rpc' = "process"
        BY <1>2, <3>1, <4>2 DEF ReadLine, IsSMSUnsolicited
      <4> QED
        BY <3>1, <4>3, ReaderWay
    <3>2. CASE ReadEnd \/ CheckClosed \/ MarkClosed \/ ClosePort \/ MarkClosedAgain
      BY <3>2 DEF ReadEnd, CheckClosed, MarkClosed, ClosePort, MarkClosedAgain, moduleVars, way
    <3>3. ~ReadSecondLine
      BY <1>2 DEF ReadSecondLine
    <3> QED
      BY <1>4, <3>1, <3>2, <3>3 DEF Reader
  <2> QED
    BY <1>1, <1>2, <2>1, <2>2 DEF WholeInv
<1> QED
  BY <1>3, <1>4

(* The module: the answer to ATI has its lines in front of the final one,  *)
(* and when it is cut off the final line is the first to go.               *)
LEMMA ModuleKeepsWhole ==
  ASSUME TypeOK, TypeOK', WholeInv, Module
  PROVE  WholeInv'
<1> SUFFICES ASSUME urcs' = 0
             PROVE  WholeInv'
  BY DEF WholeInv
<1>1. way \in Seq(Line) /\ way' \in Seq(Line) /\ urcs \in Nat /\ Infos \in Nat
  BY WayType, ChannelAssumption DEF TypeOK
<1>2. UNCHANGED <<cpc, rpc, line, sp_response, s_readerClosed>>
  BY DEF Module, Answer, Unsolicited, HangUp, commandVars, sharedVars, readerVars
<1>3. ~Unsolicited /\ urcs = 0
  BY <1>1 DEF Module, Answer, Unsolicited, HangUp
<1>4. /\ rpc # "read2"
      /\ \A i \in 1..Len(way) : way[i].of > 0 /\ way[i].kind # "sms"
      /\ ~s_readerClosed =>
            \A i \in 1..Len(way), n \in 1..Infos : Ends(way[i]) =>
               \/ \E k \in 1..Len(way) : k < i /\ IsInfo(way[k], n)
               \/ cpc = "waiting" /\ Has(sp_response.lines, n)
      /\ cpc = "waiting" /\ Ends(sp_response.final) =>
            \A n \in 1..Infos : Has(sp_response.lines, n)
  BY <1>3 DEF WholeInv
<1>5. CASE Answer
  <2>1. PICK c \in asked, last \in Line, s \in Seq(Line) :
          /\ asked' = {d \in asked : d > c} /\ wire' = wire \o s
          /\ last.of = c /\ last.kind \in {"OK", "ERROR"}
          /\ Ordered(s) /\ Len(s) > 0 /\ s[Len(s)] = last
          /\ \A i \in 1..(Len(s) - 1) : Numbered(s[i], c, i)
          /\ Len(s) > 1 => c = Ati
          /\ c = Ati /\ last.kind = "OK" => Len(s) = Infos + 1
    BY <1>5, AnswerLines
  <2>2. c > 0
    BY DEF TypeOK, Commands, Ate, Qfast
  <2>3. \A i \in 1..Len(s) : i = Len(s) \/ (i \in 1..(Len(s) - 1) /\ Numbered(s[i], c, i))
    BY <2>1
  <2>4. \A i \in 1..Len(s) : s[i].of > 0 /\ s[i].kind # "sms"
    BY <2>1, <2>2, <2>3 DEF Numbered
  <2>5. way' = way \o s
    BY <1>2, <2>1, AppendWay DEF readerVars
  <2>6. /\ Len(way') = Len(way) + Len(s) /\ Len(way) \in Nat /\ Len(s) \in Nat
        /\ \A i \in 1..Len(way) : i \in 1..Len(way') /\ way'[i] = way[i]
        /\ \A i \in 1..Len(s) : i + Len(way) \in 1..Len(way') /\ way'[i + Len(way)] = s[i]
        /\ \A i \in 1..Len(way') :
              \/ i \in 1..Len(way)
              \/ i - Len(way) \in 1..Len(s) /\ i = (i - Len(way)) + Len(way)
    BY <1>1, <2>5
  <2>7. ASSUME ~s_readerClosed, NEW i \in 1..Len(way'), NEW n \in 1..Infos, Ends(way'[i])
        PROVE  \/ \E k \in 1..Len(way') : k < i /\ IsInfo(way'[k], n)
               \/ cpc = "waiting" /\ Has(sp_response.lines, n)
    <3>1. CASE i \in 1..Len(way)
      BY <1>4, <2>6, <2>7, <3>1
    <3>2. CASE i - Len(way) \in 1..Len(s) /\ i = (i - Len(way)) + Len(way)
      <4>1. way'[i] = s[i - Len(way)]
        BY <2>6, <3>2
      <4>2. i - Len(way) = Len(s)
        BY <2>3, <2>7, <3>2, <4>1 DEF Ends, Numbered
      <4>3. Len(s) = Infos + 1
        BY <2>1, <2>7, <4>1, <4>2 DEF Ends
      <4>4. n \in 1..(Len(s) - 1) /\ n \in 1..Len(s) /\ n + Len(way) < i
        BY <1>1, <2>6, <4>2, <4>3
      <4>5. IsInfo(way'[n + Len(way)], n)
        <5>1. way'[n + Len(way)] = s[n]
          BY <2>6, <4>4
        <5>2. Numbered(s[n], c, n)
          BY <2>1, <4>4
        <5> QED
          BY <5>1, <5>2 DEF Numbered, IsInfo
      <4>6. n + Len(way) \in 1..Len(way')
        BY <2>6, <4>4
      <4> QED
        BY <4>4, <4>5, <4>6
    <3> QED
      BY <2>6, <3>1, <3>2
  <2>8. \A i \in 1..Len(way') : way'[i].of > 0 /\ way'[i].kind # "sms"
    BY <1>4, <2>4, <2>6
  <2> QED
    BY <1>2, <1>4, <2>7, <2>8 DEF WholeInv
<1>6. CASE HangUp
  <2>1. PICK m \in 0..Len(way) : way' = SubSeq(way, 1, m)
    BY <1>6, HangUpWay
  <2>2. /\ Len(way') = m
        /\ \A i \in 1..m : i \in 1..Len(way) /\ way'[i] = way[i]
    BY <1>1, <2>1
  <2>3. ASSUME ~s_readerClosed, NEW i \in 1..Len(way'), NEW n \in 1..Infos, Ends(way'[i])
        PROVE  \/ \E k \in 1..Len(way') : k < i /\ IsInfo(way'[k], n)
               \/ cpc = "waiting" /\ Has(sp_response.lines, n)
    <3>1. Ends(way[i]) /\ i \in 1..Len(way) /\ i \in 1..m
      BY <2>2, <2>3
    <3>2. ASSUME NEW k \in 1..Len(way), k < i, IsInfo(way[k], n)
          PROVE  k \in 1..Len(way') /\ IsInfo(way'[k], n)
      <4>1. k \in 1..m
        BY <3>1, <3>2
      <4> QED
        BY <2>2, <3>2, <4>1
    <3> QED
      BY <1>4, <2>3, <3>1, <3>2
  <2>4. \A i \in 1..Len(way') : way'[i].of > 0 /\ way'[i].kind # "sms"
    BY <1>4, <2>2
  <2> QED
    BY <1>2, <1>4, <2>3, <2>4 DEF WholeInv
<1> QED
  BY <1>3, <1>5, <1>6 DEF Module

(* The command thread: when a command returns, nothing of an answer is     *)
(* left on the way.                                                        *)
LEMMA CommandKeepsWhole ==
  ASSUME TypeOK, TypeOK', Base', WholeInv, Command
  PROVE  WholeInv'
<1> SUFFICES ASSUME urcs' = 0
             PROVE  WholeInv'
  BY DEF WholeInv
<1>1. way' = way /\ UNCHANGED <<urcs, rpc, s_readerClosed>>
  BY CommandWay DEF Command, Register, CheckChannel, SendOnClosed, WriteCommand, WriteFails,
     Wake, CloseModem, readerVars, moduleVars, Return, ClearPendingCommand, Proceed
<1>2. /\ rpc # "read2"
      /\ \A i \in 1..Len(way) : way[i].of > 0 /\ way[i].kind # "sms"
      /\ ~s_readerClosed =>
            \A i \in 1..Len(way), n \in 1..Infos : Ends(way[i]) =>
               \/ \E k \in 1..Len(way) : k < i /\ IsInfo(way[k], n)
               \/ cpc = "waiting" /\ Has(sp_response.lines, n)
  BY <1>1 DEF WholeInv
<1>3. CASE Register \/ CheckChannel \/ CloseModem
  <2>1. cpc # "waiting" /\ cpc' # "waiting"
    BY <1>3 DEF Register, CheckChannel, CloseModem
  <2> QED
    BY <1>1, <1>2, <2>1 DEF WholeInv
<1>4. CASE WriteCommand
  <2>1. cpc # "waiting" /\ sp_response'.final = NoLine
    BY <1>4 DEF WriteCommand, NewResponse
  <2>2. ~Ends(sp_response'.final)
    BY <2>1 DEF Ends, NoLine
  <2> QED
    BY <1>1, <1>2, <2>1, <2>2 DEF WholeInv
<1>5. CASE SendOnClosed \/ WriteFails \/ Wake
  <2>1. cpc' # "waiting"
    BY <1>5 DEF SendOnClosed, WriteFails, Wake, Return, Proceed
  <2>2. ~s_readerClosed' => Len(way') = 0
    <3> SUFFICES ASSUME ~s_readerClosed' PROVE ~(1 \in 1..Len(way'))
      BY WayType
    <3>1. \A i \in 1..Len(way') : ~(way'[i].of > 0)
      BY <2>1 DEF Base, NoneLate
    <3> QED
      BY <1>1, <1>2, <3>1
  <2>3. ~s_readerClosed' => 1..Len(way') = {}
    BY <2>2
  <2> QED
    BY <1>1, <1>2, <2>1, <2>3 DEF WholeInv
<1> QED
  BY <1>3, <1>4, <1>5 DEF Command

(* An answer ends the command it answers as long as nothing unsolicited    *)
(* came: there is no carrier to credit.                                    *)
LEMMA EndedByAnswer ==
  ASSUME Base, urcs = 0, cpc = "waiting", sp_response.final # NoLine, ~s_readerClosed
  PROVE  sp_response.final.of = cmd
<1> DEFINE final == sp_response.final
<1>1. /\ IsFinal(final) /\ InTime(final) /\ final \in Line /\ cmd \in Nat /\ carriers = 0
      /\ CountInv /\ TypeOK
  BY DEF Base, OrderInv, CreditInv, TypeOK, Response, Commands, Ate, Qfast
<1>2. Cardinality(CarrierLines(way)) \in Nat /\ Credited \in {0, 1} /\ Behind \in Nat
  BY <1>1, WayType, CarrierCount, BehindType DEF Credited
<1>3. Behind = 0 /\ Credited = 0
  BY <1>1, <1>2 DEF CountInv
<1>4. final.of \in Nat /\ final.of # 0
  BY <1>1, <1>3 DEF Credited, IsCarrier, Line, Qfast
<1>5. final.of <= cmd /\ cmd <= final.of + Behind
  BY <1>1, <1>4 DEF InTime, Late
<1> QED
  BY <1>1, <1>3, <1>4, <1>5

(* What the caller gets is what was collected, the first line last.        *)
LEMMA Reversed ==
  ASSUME NEW s \in Seq(Line)
  PROVE  LET r == ReverseIntermediates(s)
         IN /\ Len(r) = Len(s)
            /\ \A i \in 1..Len(s) : (Len(s) - i) + 1 \in 1..Len(s)
                                    /\ r[i] = s[(Len(s) - i) + 1]
<1>1. ReverseIntermediates(s) = [i \in 1..Len(s) |-> s[(Len(s) - i) + 1]]
  BY DEF ReverseIntermediates, Reverse
<1>2. Len(s) \in Nat
  OBVIOUS
<1> QED
  BY <1>1, <1>2

(* The lines are collected newest first, and turned round they are in the  *)
(* order the module sent them.                                             *)
LEMMA ReturnedInOrder ==
  ASSUME Base, InfoInv, WholeInv, cpc = "waiting", sp_response.final # NoLine,
         ~s_readerClosed,
         NEW r, r = ReverseIntermediates(sp_response.lines)
  PROVE  /\ \A i, j \in 1..Len(r) :
               i < j /\ r[i].kind = "info" /\ r[j].kind = "info" => r[i].n < r[j].n
         /\ urcs = 0 /\ sp_response.final.kind = "OK" /\ cmd = Ati =>
               \A n \in 1..Infos : Has(r, n)
<1> DEFINE s == sp_response.lines
<1>1. s \in Seq(Line) /\ Len(s) \in Nat
  BY DEF Base, TypeOK, Response
<1>2. /\ \A i \in 1..Len(s) : Known(s[i])
      /\ \A i, j \in 1..Len(s) : i < j => Before(s[j], s[i])
  BY DEF InfoInv, Base, OrderInv, CreditInv
<1>3. urcs = 0 /\ Ends(sp_response.final) => \A n \in 1..Infos : Has(s, n)
  BY DEF WholeInv
<1>4. /\ Len(r) = Len(s)
      /\ \A i \in 1..Len(s) : (Len(s) - i) + 1 \in 1..Len(s) /\ r[i] = s[(Len(s) - i) + 1]
  BY <1>1, Reversed
<1> HIDE DEF s
<1>5. ASSUME NEW i \in 1..Len(r), NEW j \in 1..Len(r), i < j,
             r[i].kind = "info", r[j].kind = "info"
      PROVE  r[i].n < r[j].n
  <2> DEFINE p == (Len(s) - j) + 1
             q == (Len(s) - i) + 1
  <2>1. p \in 1..Len(s) /\ q \in 1..Len(s) /\ p < q
    BY <1>1, <1>4, <1>5
  <2>2. r[i] = s[q] /\ r[j] = s[p]
    BY <1>4, <1>5
  <2> HIDE DEF p, q
  <2>3. Before(s[q], s[p]) /\ Known(s[q]) /\ Known(s[p])
    BY <1>2, <2>1
  <2> QED
    BY <1>5, <2>2, <2>3 DEF Before, Known, Ati
<1>6. ASSUME urcs = 0, sp_response.final.kind = "OK", cmd = Ati, NEW n \in 1..Infos
      PROVE  Has(r, n)
  <2>1. Ends(sp_response.final)
    BY <1>6, EndedByAnswer DEF Ends
  <2>2. PICK i \in 1..Len(s) : IsInfo(s[i], n)
    BY <1>3, <1>6, <2>1 DEF Has
  <2> DEFINE j == (Len(s) - i) + 1
  <2>3. j \in 1..Len(r) /\ (Len(s) - j) + 1 = i
    BY <1>1, <1>4
  <2> HIDE DEF j
  <2>4. r[j] = s[i]
    BY <1>4, <2>3
  <2> QED
    BY <2>2, <2>3, <2>4 DEF Has
<1> QED
  BY <1>5, <1>6

(* The lines of the answer to ATI come to its caller in the order the      *)
(* module sent them, none twice, and all of them unless something came     *)
(* unsolicited.                                                            *)
THEOREM AnswersComeWhole == Spec => []AnswerInOrder
<1>1. Init => InfoInv /\ WholeInv /\ AnswerInOrder
  <2> SUFFICES ASSUME Init PROVE InfoInv /\ WholeInv /\ AnswerInOrder
    OBVIOUS
  <2>1. way = <<>> /\ Len(way) = 0 /\ cpc = "register" /\ rpc = "read"
    BY DEF Init, way
  <2>2. \A c \in Commands : returned[c].err = "none"
    BY DEF Init, NotReturned
  <2> QED
    BY <2>1, <2>2 DEF InfoInv, WholeInv, AnswerInOrder
<1>2. Base /\ Base' /\ InfoInv /\ WholeInv /\ [Next]_vars => InfoInv' /\ WholeInv'
  <2> SUFFICES ASSUME Base, Base', InfoInv, WholeInv, [Next]_vars
               PROVE  InfoInv' /\ WholeInv'
    OBVIOUS
  <2>1. TypeOK /\ TypeOK'
    BY DEF Base
  <2>2. CASE UNCHANGED vars
    <3>1. way' = way /\ UNCHANGED <<cpc, rpc, urcs, s_readerClosed, sp_response>>
      BY <2>2 DEF vars, commandVars, readerVars, sharedVars, moduleVars, way
    <3> QED
      BY <2>1, <3>1, InfoKept DEF WholeInv
  <2> QED
    BY <2>1, <2>2, InfoKept, CommandKeepsWhole, ReaderKeepsWhole, ModuleKeepsWhole DEF Next
<1>3. Base /\ Base' /\ InfoInv /\ WholeInv /\ AnswerInOrder /\ [Next]_vars => AnswerInOrder'
  <2> SUFFICES ASSUME Base, Base', InfoInv, WholeInv, AnswerInOrder, [Next]_vars,
                      NEW c \in Commands, returned'[c].err = "ok"
               PROVE  LET r == returned'[c].lines
                      IN /\ \A i, j \in 1..Len(r) :
                               i < j /\ r[i].kind = "info" /\ r[j].kind = "info" =>
                                  r[i].n < r[j].n
                         /\ urcs' = 0 /\ returned'[c].final.kind = "OK" /\ c = Ati =>
                               \A n \in 1..Infos : Has(r, n)
    BY DEF AnswerInOrder, Has
  <2>1. TypeOK /\ OrderInv /\ (urcs' = 0 => urcs = 0)
    BY ReturnedBy DEF Base
  <2>2. CASE returned'[c] = returned[c]
    BY <2>1, <2>2 DEF AnswerInOrder, Has
  <2>3. CASE returned'[c] # returned[c]
    <3>1. PICK err \in {"ok", "closed", "generic"} :
            /\ Return(err) /\ cpc \in {"send", "write", "waiting"}
            /\ err = "ok" => /\ cpc = "waiting" /\ sp_response.final # NoLine
                             /\ ~s_readerClosed
      BY <2>1, <2>3, ReturnedBy
    <3>2. /\ returned'[cmd].err = err /\ returned'[cmd].final = sp_response.final
          /\ returned'[cmd].lines = ReverseIntermediates(sp_response.lines)
          /\ \A d \in Commands : d # cmd => returned'[d] = returned[d]
      BY <2>1, <3>1, ReturnCounts DEF OrderInv
    <3>3. /\ c = cmd /\ err = "ok" /\ cpc = "waiting" /\ sp_response.final # NoLine
          /\ ~s_readerClosed
      BY <2>3, <3>1, <3>2
    <3> DEFINE r == returned'[c].lines
    <3>4. r = ReverseIntermediates(sp_response.lines)
      BY <3>2, <3>3
    <3> HIDE DEF r
    <3>5. /\ \A i, j \in 1..Len(r) :
               i < j /\ r[i].kind = "info" /\ r[j].kind = "info" => r[i].n < r[j].n
          /\ urcs = 0 /\ sp_response.final.kind = "OK" /\ cmd = Ati =>
               \A n \in 1..Infos : Has(r, n)
      BY <3>3, <3>4, ReturnedInOrder
    <3> QED
      BY <2>1, <3>2, <3>3, <3>5 DEF r
  <2> QED
    BY <2>2, <2>3
<1> QED
  BY <1>1, <1>2, <1>3, BaseHolds, PTL DEF Spec
================================================================================
