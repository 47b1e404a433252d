------------------------ MODULE StreamingDownloadProofs ------------------------
(***************************************************************************)
(* Theorems about StreamingDownload for every package, image size, retry   *)
(* budget and number of log packets, proved with TLAPS.                    *)
(***************************************************************************)
EXTENDS StreamingDownload, FiniteSetTheorems, TLAPS

(* The packets, or replies, that are on a line.                            *)
Elems(q) == {q[k] : k \in 1..Len(q)}

(* Only writes are followed by anything but a reset.                       *)
WritesFirst(q) ==
    \A k, l \in 1..Len(q) : k < l => q[k].type = "write" \/ q[l].type = "reset"

OfType(T) == {p \in Packet : p.type \in T}

StreamedDone == {Misc} \cup Streamed \subseteq flashed

Active == pc \in {"prepare", "opening", "write", "writing", "closing"}

(* What is on the line to the module belongs to the image in progress.     *)
LineInv ==
    /\ \A p \in Elems(toDev) : p.type # "reset" => p.img = cur
    /\ \A p \in Elems(toDev) : p.type \in {"write", "close"} => devOpen = cur
    /\ WritesFirst(toDev)
    /\ devOpen \in {None, cur}
    /\ \A p \in Elems(toDev) : p.type = "reset" => StreamedDone /\ ~Active

(* What either line may hold at each step of the host.                     *)
PhaseInv ==
    /\ pc = "prepare" =>
          /\ toDev = <<>>
          /\ Elems(toHost) \subseteq {"log"}
          /\ devOpen = None
    /\ pc = "opening" =>
          /\ Elems(toDev) \subseteq OfType({"open"})
          /\ Elems(toHost) \subseteq {"opened", "log", "unknown"}
          /\ "opened" \in Elems(toHost) => toDev = <<>> /\ devOpen = cur
    /\ pc \in {"write", "writing"} =>
          /\ devOpen = cur
          /\ Elems(toDev) \subseteq OfType({"write"})
          /\ Elems(toHost) \subseteq {"written", "log", "unknown"}
    /\ pc = "closing" =>
          /\ chunk = Chunks[cur]
          /\ Elems(toDev) \subseteq OfType({"write", "close"})
          /\ Elems(toHost) \subseteq {"written", "closed", "log", "unknown"}
          /\ "closed" \in Elems(toHost) =>
                toDev = <<>> /\ devOpen = None /\ cur \in committed

(* How far the package has got.                                            *)
OrderInv ==
    /\ cur \in {Misc, Boot} \cup Streamed
    /\ cur = Boot => method = "fastboot"
    /\ {j \in {Misc} \cup Streamed : j < cur} \subseteq flashed
    /\ flashed \subseteq committed
    /\ committed \subseteq {Misc, Boot} \cup (Images \ Mibib)
    /\ pc \in {"reset", "wait_adb", "fastboot"} => StreamedDone
    /\ rebooted => StreamedDone
    /\ result = "ok" => StreamedDone /\ Rest \subseteq flashed

(* What the balance of one image's chunks is made of: the chunk numbers of *)
(* the writes on the line, the chunks in its partition, the chunks that    *)
(* were ever sent and not lost; the writes the module has still to answer, *)
(* the acknowledgements the host has still to read, the tries it spent.    *)
Numbers(q) == {p.chunk : p \in {e \in Elems(q) : e.type = "write"}}
Stored(i)  == {c \in Nat : <<i, i, c>> \in flash}
Started    == Stored(cur) \cup Numbers(toDev)
Waiting(q) == IF q # <<>> /\ q[Len(q)].type = "close" THEN Len(q) - 1 ELSE Len(q)
Acks(q)    == Cardinality({k \in 1..Len(q) : q[k] = "written"})
Spent(i)   == WriteTries - retry_cnt[i]

(* Nothing of an image is in its partition before the partition is open.   *)
FlashInv ==
    Active => \A i \in Partitions :
                  i > cur \/ (i = cur /\ pc \in {"prepare", "opening"}) => Stored(i) = {}

(* Chunks are sent in order, and none before its predecessor was taken for *)
(* acknowledged.                                                           *)
StartedInv ==
    /\ pc \in {"write", "closing"} => Started \subseteq 0..(chunk - 1)
    /\ pc = "writing" => Started \subseteq 0..chunk

(* Every acknowledgement, whether counted, read next or still to come, is  *)
(* for a chunk of its own, or for one of the resends.                      *)
BalanceInv ==
    /\ pc \in {"write", "writing"} =>
          chunk + Acks(toHost) + Waiting(toDev) <= Cardinality(Started) + Spent(cur)
    /\ pc = "closing" =>
          chunk + Waiting(toDev) <= Cardinality(Started) + Spent(cur)

(* A chunk is only ever on its way while a try is left.                    *)
RetryInv == pc \in {"write", "writing"} => retry_cnt[cur] >= 1

(* An image is written once: its budget is not set back after its close.   *)
FreshInv == Active => \A i \in flashed : i < cur

Safe    == LineInv /\ PhaseInv /\ OrderInv
Balance == FreshInv /\ FlashInv /\ StartedInv /\ BalanceInv /\ HolesCostResends

(* The inductive invariant. *)
IInv == TypeOK /\ RetryInv /\ Safe /\ OwnPartition /\ Balance

-----------------------------------------------------------------------------
(* What the operations on a line do to what is on it.                      *)

(* A line that TCOFLUSH cuts short holds nothing new, in the same order.   *)
LEMMA FlushedLine ==
    ASSUME NEW q \in Seq(Packet), NEW r \in NotFlushed(q)
    PROVE  /\ r \in Seq(Packet)
           /\ Elems(r) \subseteq Elems(q)
           /\ WritesFirst(q) => WritesFirst(r)
           /\ q = <<>> => r = <<>>
<1>1. PICK k \in 0..Len(q) : r = SubSeq(q, 1, k)
  BY DEF NotFlushed
<1>2. /\ r \in Seq(Packet)
      /\ Len(r) = k
      /\ \A j \in 1..k : r[j] = q[j]
  BY <1>1
<1>3. Elems(r) \subseteq Elems(q)
  BY <1>2 DEF Elems
<1>4. WritesFirst(q) => WritesFirst(r)
  BY <1>2 DEF WritesFirst
<1>5. q = <<>> => r = <<>>
  BY <1>2
<1> QED BY <1>2, <1>3, <1>4, <1>5

(* Sending adds the packet at most, behind what is there.                  *)
LEMMA SentLine ==
    ASSUME NEW q \in Seq(Packet), NEW p \in Packet, NEW r \in Sent(q, p)
    PROVE  /\ r \in Seq(Packet)
           /\ Elems(r) \subseteq Elems(q) \cup {p}
           /\ /\ WritesFirst(q)
              /\ p.type = "reset" \/ \A e \in Elems(q) : e.type = "write"
              => WritesFirst(r)
           /\ q = <<>> => Len(r) <= 1
<1>1. CASE r = q
  BY <1>1
<1>2. CASE r = Append(q, p)
  <2>1. /\ r \in Seq(Packet)
        /\ Len(r) = Len(q) + 1
        /\ \A j \in 1..Len(q) : r[j] = q[j]
        /\ r[Len(q) + 1] = p
    BY <1>2
  <2>2. Elems(r) \subseteq Elems(q) \cup {p}
    BY <2>1 DEF Elems
  <2>3. ASSUME WritesFirst(q),
               p.type = "reset" \/ \A e \in Elems(q) : e.type = "write"
        PROVE  WritesFirst(r)
    BY <2>1, <2>3 DEF WritesFirst, Elems
  <2> QED BY <2>1, <2>2, <2>3
<1> QED BY <1>1, <1>2 DEF Sent

(* Taking the first packet leaves the rest as it was; behind anything but  *)
(* a write there are only resets.                                          *)
LEMMA TakenLine ==
    ASSUME NEW q \in Seq(Packet), q # <<>>
    PROVE  /\ Head(q) \in Elems(q)
           /\ Head(q) \in Packet
           /\ Tail(q) \in Seq(Packet)
           /\ Elems(Tail(q)) \subseteq Elems(q)
           /\ Len(q) <= 1 => Tail(q) = <<>>
           /\ WritesFirst(q) => WritesFirst(Tail(q))
           /\ WritesFirst(q) /\ Head(q).type # "write" =>
                  \A p \in Elems(Tail(q)) : p.type = "reset"
<1>1. /\ Len(q) \in Nat \ {0}
      /\ Head(q) = q[1]
      /\ Tail(q) \in Seq(Packet)
      /\ Len(Tail(q)) = Len(q) - 1
      /\ \A j \in 1..(Len(q) - 1) : Tail(q)[j] = q[j + 1]
  OBVIOUS
<1>2. Head(q) \in Elems(q) /\ Head(q) \in Packet
  BY <1>1 DEF Elems
<1>3. Elems(Tail(q)) \subseteq Elems(q)
  BY <1>1 DEF Elems
<1>4. WritesFirst(q) => WritesFirst(Tail(q))
  BY <1>1 DEF WritesFirst
<1>5. WritesFirst(q) /\ Head(q).type # "write" =>
          \A p \in Elems(Tail(q)) : p.type = "reset"
  BY <1>1 DEF WritesFirst, Elems
<1>6. Len(q) <= 1 => Tail(q) = <<>>
  BY <1>1
<1> QED BY <1>1, <1>2, <1>3, <1>4, <1>5, <1>6

(* A reply arrives behind those the host has not read, or not at all; the  *)
(* host looks at the first.                                                *)
LEMMA ReplyLine ==
    ASSUME NEW q \in Seq(Reply), NEW r \in Reply, NEW s \in {q, Append(q, r)}
    PROVE  /\ s \in Seq(Reply)
           /\ Elems(s) \subseteq Elems(q) \cup {r}
           /\ q # <<>> => Head(q) \in Elems(q)
           /\ Elems(<<>>) = {}
<1>1. q # <<>> => Head(q) \in Elems(q)
  BY DEF Elems
<1>2. Elems(<<>>) = {}
  BY DEF Elems
<1>3. CASE s = q
  BY <1>1, <1>2, <1>3
<1>4. CASE s = Append(q, r)
  <2>1. /\ s \in Seq(Reply)
        /\ Len(s) = Len(q) + 1
        /\ \A j \in 1..Len(q) : s[j] = q[j]
        /\ s[Len(q) + 1] = r
    BY <1>4
  <2>2. Elems(s) \subseteq Elems(q) \cup {r}
    BY <2>1 DEF Elems
  <2> QED BY <1>1, <1>2, <2>1, <2>2
<1> QED BY <1>3, <1>4

-----------------------------------------------------------------------------
(* Arithmetic of the constants that every step needs.                      *)
LEMMA Positions ==
    /\ Partitions \subseteq Nat
    /\ Misc \in Partitions /\ Boot \in Partitions /\ None \notin Partitions
    /\ Images \subseteq Partitions \ {Misc, Boot}
    /\ \A j \in Images \cup {Misc} : j < Boot
    /\ \A j \in Images : j > Misc
    /\ Streamed \subseteq Images \ Mibib
    /\ Rest \subseteq Images \ Mibib
    /\ Streamed \cap Rest = {}
    /\ Images \ Mibib \subseteq Streamed \cup Rest
    /\ Mibib \subseteq Images
    /\ \A i \in Partitions : Chunks[i] \in Nat
BY DownloadAssumption DEF Partitions, Misc, Boot, None, Images, Streamed, Rest

(* The packets that are sent are packets.                                  *)
LEMMA Packets ==
    ASSUME TypeOK
    PROVE  /\ Pkt("open", 0) \in Packet
           /\ Pkt("write", chunk) \in Packet
           /\ Pkt("close", 0) \in Packet
           /\ [type |-> "reset", img |-> Misc, chunk |-> 0] \in Packet
BY Positions DEF TypeOK, Packet, Pkt

(* A flush and a send leave the line well typed.                           *)
LEMMA FlushAndSendLine ==
    ASSUME TypeOK, NEW p \in Packet, FlushAndSend(p)
    PROVE  /\ toDev' \in Seq(Packet)
           /\ Elems(toDev') \subseteq Elems(toDev) \cup {p}
           /\ /\ WritesFirst(toDev)
              /\ \A e \in Elems(toDev) : e.type = "write"
              => WritesFirst(toDev')
           /\ toDev = <<>> => Len(toDev') <= 1
           /\ toHost' = <<>>
<1>1. PICK q \in NotFlushed(toDev) : toDev' \in Sent(q, p)
  BY DEF FlushAndSend
<1>2. /\ q \in Seq(Packet)
      /\ Elems(q) \subseteq Elems(toDev)
      /\ WritesFirst(toDev) => WritesFirst(q)
      /\ toDev = <<>> => q = <<>>
  BY FlushedLine DEF TypeOK
<1> QED BY <1>1, <1>2, SentLine DEF FlushAndSend

(* A packet is taken off the line: what the module's step finds there.     *)
LEMMA ArrivedLine ==
    ASSUME TypeOK, NEW t, Arrived(t)
    PROVE  /\ ~rebooted
           /\ Head(toDev) \in Elems(toDev)
           /\ Head(toDev) \in Packet
           /\ Head(toDev).type = t
           /\ toDev # <<>>
           /\ toDev' \in Seq(Packet)
           /\ Elems(toDev') \subseteq Elems(toDev)
           /\ Len(toDev) <= 1 => toDev' = <<>>
           /\ WritesFirst(toDev) => WritesFirst(toDev')
           /\ WritesFirst(toDev) /\ t # "write" =>
                  \A p \in Elems(toDev') : p.type = "reset"
BY TakenLine DEF Arrived, TypeOK

(* An answer, or none, arrives.                                            *)
LEMMA AnswerLine ==
    ASSUME TypeOK, NEW r \in Reply, Answer(r)
    PROVE  /\ toHost' \in Seq(Reply)
           /\ Elems(toHost') \subseteq Elems(toHost) \cup {r}
BY ReplyLine DEF Answer, TypeOK

(* The module's type invariant holds of every package and every budget.    *)
THEOREM TypeCorrect == Spec => [](TypeOK /\ RetryInv)
<1> /\ ReplyTries \in Nat \ {0}
    /\ WriteTries \in Nat \ {0}
    /\ MaxLogs \in Nat
  BY DownloadAssumption
<1>1. Init => TypeOK /\ RetryInv
  <2> SUFFICES ASSUME Init PROVE TypeOK
    BY DEF Init, RetryInv
  <2>1. /\ cur \in Partitions
        /\ retry_cnt \in [Partitions -> 0..WriteTries]
    BY Positions DEF Init
  <2>2. toDev \in Seq(Packet) /\ toHost \in Seq(Reply)
    BY DEF Init
  <2>3. /\ timeout \in 0..ReplyTries
        /\ logs \in 0..MaxLogs
        /\ flash \subseteq Partitions \X Partitions \X Nat
    BY DEF Init
  <2> QED BY <2>1, <2>2, <2>3 DEF Init, TypeOK
<1>2. TypeOK /\ RetryInv /\ [Next]_vars => (TypeOK /\ RetryInv)'
  <2> SUFFICES ASSUME TypeOK, RetryInv, [Next]_vars PROVE (TypeOK /\ RetryInv)'
    OBVIOUS
  <2> /\ Misc \in Partitions
      /\ Boot \in Partitions
      /\ <<>> \in Seq(Reply)
    BY Positions
  <2>1. CASE Unreadable
    BY <2>1 DEF Unreadable, ImageFailed, End, TypeOK, RetryInv, devVars
  <2>2. CASE Open
    <3>1. toDev' \in Seq(Packet) /\ toHost' = <<>>
      BY <2>2, FlushAndSendLine, Packets DEF Open
    <3> QED BY <2>2, <3>1 DEF Open, TypeOK, RetryInv, devVars
  <2>3. CASE Opened
    BY <2>3 DEF Opened, Receive, TypeOK, RetryInv, devVars
  <2>4. CASE OpeningLog
    BY <2>4 DEF OpeningLog, Receive, TypeOK, RetryInv, hostVars, devVars
  <2>5. CASE OpenRefused
    BY <2>5 DEF OpenRefused, Receive, OpenFailed, ImageFailed, End, TypeOK, RetryInv, devVars
  <2>6. CASE WaitAgain
    BY <2>6 DEF WaitAgain, TypeOK, RetryInv, devVars
  <2>7. CASE OpenTimeout
    BY <2>7 DEF OpenTimeout, OpenFailed, ImageFailed, End, TypeOK, RetryInv, devVars
  <2>8. CASE Write
    <3>1. toDev' \in Seq(Packet)
      BY <2>8, SentLine, Packets DEF Write, TypeOK
    <3> QED BY <2>8, <3>1 DEF Write, TypeOK, RetryInv, devVars
  <2>9. CASE WriteError
    BY <2>9 DEF WriteError, ImageFailed, End, TypeOK, RetryInv, devVars
  <2>10. CASE Written
    BY <2>10 DEF Written, Receive, TypeOK, RetryInv, devVars
  <2>11. ASSUME NEW more \in BOOLEAN, Retry(more)
         PROVE  /\ retry_cnt' \in [Partitions -> 0..WriteTries]
                /\ more => retry_cnt'[cur] >= 1
                /\ toHost' = <<>>
    BY <2>11 DEF Retry, NotAcknowledged, TypeOK, RetryInv
  <2>12. CASE Resend
    <3>1. toDev' \in Seq(Packet)
      BY <2>12, FlushAndSendLine, Packets DEF Resend
    <3> QED BY <2>11, <2>12, <3>1 DEF Resend, TypeOK, RetryInv, devVars
  <2>13. CASE ResendError
    <3>1. toDev' \in Seq(Packet)
      BY <2>13, FlushedLine DEF ResendError, TypeOK
    <3> QED BY <2>11, <2>13, <3>1 DEF ResendError, ImageFailed, End, TypeOK, RetryInv, devVars
  <2>14. CASE GiveUp
    BY <2>11, <2>14 DEF GiveUp, ImageFailed, End, TypeOK, RetryInv, devVars
  <2>15. CASE Close
    <3>1. toDev' \in Seq(Packet) /\ toHost' = <<>>
      BY <2>15, FlushAndSendLine, Packets DEF Close
    <3> QED BY <2>15, <3>1 DEF Close, TypeOK, RetryInv, devVars
  <2>16. CASE Closed
    <3>1. cur' \in Partitions /\ pc' \in {"prepare", "reset"}
      <4>1. Later \subseteq Partitions
        BY Positions DEF Later
      <4> QED BY <2>16, <4>1 DEF Closed, NextImage, TypeOK
    <3> QED BY <2>16, <3>1 DEF Closed, Receive, TypeOK, RetryInv, devVars
  <2>17. CASE CloseRefused
    BY <2>17 DEF CloseRefused, Receive, ImageFailed, End, TypeOK, RetryInv, devVars
  <2>18. CASE CloseTimeout
    BY <2>18 DEF CloseTimeout, ImageFailed, End, TypeOK, RetryInv, devVars
  <2>19. CASE Reset
    <3>1. toDev' \in Seq(Packet)
      BY <2>19, SentLine, Packets DEF Reset, TypeOK
    <3> QED BY <2>19, <3>1 DEF Reset, End, TypeOK, RetryInv, devVars
  <2>20. CASE AdbFound \/ AdbTimeout
    BY <2>20 DEF AdbFound, AdbTimeout, End, TypeOK, RetryInv, devVars
  <2>21. CASE FastbootFlash
    BY <2>21, Positions DEF FastbootFlash, TypeOK, RetryInv
  <2>22. CASE FastbootFails \/ FastbootReboot
    BY <2>22 DEF FastbootFails, FastbootReboot, End, TypeOK, RetryInv, devVars
  <2>23. CASE DevOpen
    BY <2>23, ArrivedLine, AnswerLine DEF DevOpen, TypeOK, RetryInv, hostVars, Packet, Reply
  <2>24. CASE DevWrite
    <3>1. toDev' \in Seq(Packet) /\ Head(toDev) \in Packet
      BY <2>24, ArrivedLine DEF DevWrite
    <3>2. toHost' \in Seq(Reply)
      BY <2>24, AnswerLine DEF DevWrite, Reply
    <3>3. flash' \subseteq Partitions \X Partitions \X Nat
      BY <2>24, <3>1 DEF DevWrite, TypeOK, Packet
    <3> QED BY <2>24, <3>1, <3>2, <3>3 DEF DevWrite, TypeOK, RetryInv, hostVars
  <2>25. CASE DevClose
    BY <2>25, ArrivedLine, AnswerLine DEF DevClose, TypeOK, RetryInv, hostVars, Packet, Reply
  <2>26. CASE DevReset
    BY <2>26, ArrivedLine DEF DevReset, TypeOK, RetryInv, hostVars
  <2>27. CASE DevReject
    BY <2>27, ArrivedLine, AnswerLine DEF DevReject, TypeOK, RetryInv, hostVars, devVars, Reply
  <2>28. CASE DevLog
    BY <2>28, ReplyLine DEF DevLog, TypeOK, RetryInv, hostVars, Reply
  <2>29. CASE UNCHANGED vars
    BY <2>29 DEF TypeOK, RetryInv, vars, hostVars, devVars
  <2> QED
    BY <2>1, <2>2, <2>3, <2>4, <2>5, <2>6, <2>7, <2>8, <2>9, <2>10, <2>12, <2>13,
       <2>14, <2>15, <2>16, <2>17, <2>18, <2>19, <2>20, <2>21, <2>22, <2>23, <2>24,
       <2>25, <2>26, <2>27, <2>28, <2>29 DEF Next, Host, Module
<1> QED BY <1>1, <1>2, PTL DEF Spec

-----------------------------------------------------------------------------
(* The lines and the order of the package.                                 *)

(* Which images are streamed is settled when the download starts.          *)
LEMMA PlanFixed ==
    [Next]_vars => method' = method /\ Streamed' = Streamed /\ Rest' = Rest
<1>1. [Next]_vars => method' = method
  BY DEF Next, Host, Module, vars, hostVars, devVars, Unreadable, Open, Opened,
     OpeningLog, OpenRefused, OpenTimeout, OpenFailed, WaitAgain, Write, WriteError,
     Written, Resend, ResendError, GiveUp, Close, Closed, CloseRefused, CloseTimeout,
     Reset, AdbFound, AdbTimeout, FastbootFlash, FastbootFails, FastbootReboot,
     DevOpen, DevWrite, DevClose, DevReset, DevReject, DevLog
<1> QED BY <1>1 DEF Streamed, Rest

(* An image that fails ends the download, or is the last one.              *)
LEMMA FailureIsSafe ==
    ASSUME TypeOK, Safe, Streamed' = Streamed, Rest' = Rest, Active,
           ImageFailed \/ (End("crashed") /\ cur \in {Misc, Boot}),
           WritesFirst(toDev'), Elems(toDev') \subseteq Elems(toDev),
           UNCHANGED <<method, cur, flashed, devOpen, committed, rebooted>>
    PROVE  Safe'
<1>1. cur = Boot => StreamedDone
  BY Positions DEF Safe, OrderInv, StreamedDone
<1>2. result' = "ok" => result = "ok"
  BY DEF ImageFailed, End
<1>3. pc' \in {"reset", "done"} /\ (pc' = "reset" => cur = Boot)
  BY DEF ImageFailed, End
<1>4. LineInv'
  BY <1>3 DEF Safe, LineInv, StreamedDone, Active
<1>5. PhaseInv'
  BY <1>3 DEF PhaseInv
<1>6. OrderInv'
  BY <1>1, <1>2, <1>3 DEF Safe, OrderInv, StreamedDone
<1> QED BY <1>4, <1>5, <1>6 DEF Safe

(* LineInv, PhaseInv and OrderInv hold together, and stay. *)
LEMMA SafeInit == Init => Safe
<1> SUFFICES ASSUME Init PROVE Safe
  OBVIOUS
<1>1. Elems(toDev) = {} /\ Elems(toHost) = {}
  BY DEF Init, Elems
<1>2. LineInv
  BY <1>1 DEF Init, LineInv, WritesFirst
<1>3. PhaseInv
  BY <1>1 DEF Init, PhaseInv
<1>4. {j \in {Misc} \cup Streamed : j < cur} \subseteq flashed
  <2>1. \A j \in {Misc} \cup Streamed : ~(j < 0)
    <3>1. \A j \in {Misc} \cup Streamed : j \in Nat
      BY Positions
    <3> QED BY <3>1
  <2> QED BY <2>1 DEF Init, Misc
<1>5. OrderInv
  BY <1>4, Positions DEF Init, OrderInv, StreamedDone
<1> QED BY <1>2, <1>3, <1>5 DEF Safe

(* Every step keeps the order of the line, the phases and the list.        *)
LEMMA SafeStep ==
    ASSUME TypeOK, Safe, [Next]_vars
    PROVE  Safe'
<1> /\ Streamed' = Streamed
    /\ Rest' = Rest
    /\ method' = method
  BY PlanFixed
<1> StreamedDone' <=> {Misc} \cup Streamed \subseteq flashed'
  BY DEF StreamedDone
<1>1. CASE Unreadable
  BY <1>1, FailureIsSafe DEF Unreadable, Active, devVars, Safe, LineInv
<1>2. CASE Open
  <2>1. /\ Elems(toDev') \subseteq {Pkt("open", 0)}
        /\ WritesFirst(toDev')
        /\ toHost' = <<>>
    <3>1. toDev = <<>> /\ Elems(toDev) = {} /\ WritesFirst(toDev)
      BY <1>2 DEF Open, Safe, PhaseInv, Elems, WritesFirst
    <3> QED BY <1>2, <3>1, FlushAndSendLine, Packets DEF Open
  <2>2. Pkt("open", 0) \in OfType({"open"}) /\ Pkt("open", 0).img = cur
    BY Packets DEF OfType, Pkt
  <2>3. Elems(toHost') = {}
    BY <2>1 DEF Elems
  <2>4. LineInv'
    BY <1>2, <2>1, <2>2 DEF Open, Safe, LineInv, OfType, devVars
  <2>5. PhaseInv'
    BY <1>2, <2>1, <2>2, <2>3 DEF Open, PhaseInv
  <2>6. OrderInv'
    BY <1>2 DEF Open, Safe, OrderInv, StreamedDone, devVars
  <2> QED BY <2>4, <2>5, <2>6 DEF Safe
<1>3. CASE Opened
  <2>1. "opened" \in Elems(toHost) /\ Elems(toHost') = {}
    BY <1>3 DEF Opened, Receive, TypeOK, Elems
  <2>2. toDev' = <<>> /\ Elems(toDev') = {} /\ devOpen' = cur /\ cur' = cur
    BY <1>3, <2>1 DEF Opened, Safe, PhaseInv, devVars, Elems
  <2>3. LineInv'
    BY <1>3, <2>2 DEF LineInv, WritesFirst
  <2>4. PhaseInv'
    BY <1>3, <2>1, <2>2 DEF Opened, PhaseInv
  <2>5. OrderInv'
    BY <1>3 DEF Opened, Safe, OrderInv, StreamedDone, devVars
  <2> QED BY <2>3, <2>4, <2>5 DEF Safe
<1>4. CASE OpeningLog
  <2>1. Elems(toHost') = {}
    BY <1>4 DEF OpeningLog, Receive, Elems
  <2> QED BY <1>4, <2>1 DEF OpeningLog, Safe, LineInv, PhaseInv, OrderInv, Active,
             StreamedDone, hostVars, devVars
<1>5. CASE OpenRefused
  BY <1>5, FailureIsSafe DEF OpenRefused, OpenFailed, Active, devVars, Safe, LineInv
<1>6. CASE WaitAgain
  BY <1>6 DEF WaitAgain, Safe, LineInv, PhaseInv, OrderInv, Active, StreamedDone, devVars
<1>7. CASE OpenTimeout
  BY <1>7, FailureIsSafe DEF OpenTimeout, OpenFailed, Active, devVars, Safe, LineInv
<1>8. CASE Write
  <2>1. Elems(toDev) \subseteq OfType({"write"}) /\ WritesFirst(toDev)
    BY <1>8 DEF Write, Safe, LineInv, PhaseInv
  <2>2. Pkt("write", chunk) \in OfType({"write"}) /\ Pkt("write", chunk).img = cur
    BY Packets DEF OfType, Pkt
  <2>3. /\ Elems(toDev') \subseteq Elems(toDev) \cup {Pkt("write", chunk)}
        /\ WritesFirst(toDev')
    BY <1>8, <2>1, SentLine, Packets DEF Write, TypeOK, OfType
  <2>4. LineInv'
    BY <1>8, <2>1, <2>2, <2>3 DEF Write, Safe, LineInv, PhaseInv, OfType, devVars
  <2>5. PhaseInv'
    BY <1>8, <2>1, <2>2, <2>3 DEF Write, Safe, PhaseInv, devVars
  <2>6. OrderInv'
    BY <1>8 DEF Write, Safe, OrderInv, StreamedDone, devVars
  <2> QED BY <2>4, <2>5, <2>6 DEF Safe
<1>9. CASE WriteError
  BY <1>9, FailureIsSafe DEF WriteError, Active, devVars, Safe, LineInv
<1>10. CASE Written
  <2>1. Elems(toHost') = {}
    BY <1>10 DEF Written, Receive, Elems
  <2> QED BY <1>10, <2>1 DEF Written, Safe, LineInv, PhaseInv, OrderInv, Active,
             StreamedDone, devVars
<1>11. CASE Resend
  <2> /\ pc = "writing"
      /\ pc' = pc
      /\ cur' = cur
    BY <1>11 DEF Resend, Retry, NotAcknowledged
  <2>1. Elems(toDev) \subseteq OfType({"write"}) /\ WritesFirst(toDev)
    BY DEF Safe, LineInv, PhaseInv
  <2>2. Pkt("write", chunk) \in OfType({"write"}) /\ Pkt("write", chunk).img = cur
    BY Packets DEF OfType, Pkt
  <2>3. /\ Elems(toDev') \subseteq Elems(toDev) \cup {Pkt("write", chunk)}
        /\ WritesFirst(toDev')
        /\ toHost' = <<>>
    BY <1>11, <2>1, FlushAndSendLine, Packets DEF Resend, OfType
  <2>4. Elems(toHost') = {}
    BY <2>3 DEF Elems
  <2>5. LineInv'
    BY <1>11, <2>1, <2>2, <2>3 DEF Resend, Safe, LineInv, PhaseInv, OfType, devVars
  <2>6. PhaseInv'
    BY <1>11, <2>1, <2>2, <2>3, <2>4 DEF Resend, Safe, PhaseInv, devVars
  <2>7. OrderInv'
    BY <1>11 DEF Resend, Safe, OrderInv, StreamedDone, devVars
  <2> QED BY <2>5, <2>6, <2>7 DEF Safe
<1>12. CASE ResendError
  <2>1. Elems(toDev') \subseteq Elems(toDev) /\ WritesFirst(toDev')
    BY <1>12, FlushedLine DEF ResendError, TypeOK, Safe, LineInv
  <2> QED BY <1>12, <2>1, FailureIsSafe DEF ResendError, Retry, NotAcknowledged, Active, devVars
<1>13. CASE GiveUp
  BY <1>13, FailureIsSafe DEF GiveUp, Retry, NotAcknowledged, Active, devVars, Safe, LineInv
<1>14. CASE Close
  <2>1. Elems(toDev) \subseteq OfType({"write"}) /\ WritesFirst(toDev)
    BY <1>14 DEF Close, Safe, LineInv, PhaseInv
  <2>2. Pkt("close", 0) \in OfType({"close"}) /\ Pkt("close", 0).img = cur
    BY Packets DEF OfType, Pkt
  <2>3. /\ Elems(toDev') \subseteq Elems(toDev) \cup {Pkt("close", 0)}
        /\ WritesFirst(toDev')
        /\ toHost' = <<>>
    BY <1>14, <2>1, FlushAndSendLine, Packets DEF Close, OfType
  <2>4. Elems(toHost') = {}
    BY <2>3 DEF Elems
  <2>5. LineInv'
    BY <1>14, <2>1, <2>2, <2>3 DEF Close, Safe, LineInv, PhaseInv, OfType, devVars
  <2>6. PhaseInv'
    <3>1. Elems(toDev') \subseteq OfType({"write", "close"})
      BY <2>1, <2>2, <2>3 DEF OfType
    <3> QED BY <1>14, <2>4, <3>1 DEF Close, PhaseInv
  <2>7. OrderInv'
    BY <1>14 DEF Close, Safe, OrderInv, StreamedDone, devVars
  <2> QED BY <2>5, <2>6, <2>7 DEF Safe
<1>15. CASE Closed
  <2>1. "closed" \in Elems(toHost) /\ Elems(toHost') = {}
    BY <1>15 DEF Closed, Receive, TypeOK, Elems
  <2>2. toDev' = <<>> /\ Elems(toDev') = {} /\ devOpen' = None /\ cur \in committed
    BY <1>15, <2>1 DEF Closed, Safe, PhaseInv, devVars, Elems
  <2>3. /\ cur' \in {Misc, Boot} \cup Streamed
        /\ cur' = Boot => method = "fastboot"
        /\ {j \in {Misc} \cup Streamed : j < cur'} \subseteq flashed'
        /\ pc' \in {"prepare", "reset"}
        /\ pc' = "reset" => {Misc} \cup Streamed \subseteq flashed'
    <3>1. /\ flashed' = flashed \cup {cur}
          /\ {j \in {Misc} \cup Streamed : j < cur} \subseteq flashed
          /\ cur \in {Misc, Boot} \cup Streamed
          /\ cur = Boot => method = "fastboot"
          /\ cur \in Nat
          /\ Streamed \subseteq Nat
          /\ Misc \in Nat
          /\ \A j \in Streamed : j > Misc
          /\ \A j \in Streamed : j < Boot
          /\ Misc < Boot
          /\ Boot \in Nat
      BY <1>15, Positions DEF Closed, Safe, OrderInv, TypeOK
    <3>2. CASE \E j \in Later : /\ \A k \in Later : j <= k
                                /\ cur' = j
                                /\ pc' = "prepare"
      <4>1. PICK j \in Later : (\A k \in Later : j <= k) /\ cur' = j /\ pc' = "prepare"
        BY <3>2
      <4>2. j \in Streamed /\ j \in Nat /\ j # Boot
        BY <3>1, <4>1 DEF Later
      <4>3. ASSUME NEW k \in {Misc} \cup Streamed, k < j PROVE k \in flashed'
        <5>1. k \in Nat /\ (k > cur => k \notin Later)
          BY <3>1, <4>1, <4>2, <4>3
        <5>2. k <= cur
          BY <3>1, <4>1, <4>2, <4>3, <5>1 DEF Later
        <5> QED BY <3>1, <4>3, <5>1, <5>2
      <4> QED BY <3>1, <4>1, <4>2, <4>3
    <3>3. CASE Later = {} /\ method = "fastboot" /\ cur' = Boot /\ pc' = "prepare"
      <4>1. ASSUME NEW k \in {Misc} \cup Streamed PROVE k \in flashed'
        <5>1. k \in Nat /\ k <= cur
          BY <3>1, <3>3 DEF Later
        <5> QED BY <3>1, <5>1
      <4> QED BY <3>3, <4>1
    <3>4. CASE Later = {} /\ pc' = "reset" /\ UNCHANGED cur
      BY <3>1, <3>4 DEF Later
    <3> QED BY <1>15, <3>2, <3>3, <3>4 DEF Closed, NextImage
  <2>4. LineInv'
    BY <2>2 DEF LineInv, WritesFirst
  <2>5. PhaseInv'
    BY <2>1, <2>2, <2>3 DEF PhaseInv
  <2>6. OrderInv'
    BY <1>15, <2>2, <2>3 DEF Closed, Safe, OrderInv, StreamedDone, devVars
  <2> QED BY <2>4, <2>5, <2>6 DEF Safe
<1>16. CASE CloseRefused
  BY <1>16, FailureIsSafe DEF CloseRefused, Active, devVars, Safe, LineInv
<1>17. CASE CloseTimeout
  BY <1>17, FailureIsSafe DEF CloseTimeout, Active, devVars, Safe, LineInv
<1>18. CASE Reset
  <2> DEFINE rst == [type |-> "reset", img |-> Misc, chunk |-> 0]
  <2>1. StreamedDone /\ ~Active
    BY <1>18 DEF Reset, Safe, OrderInv, Active
  <2>2. /\ Elems(toDev') \subseteq Elems(toDev) \cup {rst}
        /\ WritesFirst(toDev')
    BY <1>18, SentLine, Packets DEF Reset, TypeOK, Safe, LineInv
  <2>3. /\ pc' \in {"done", "wait_adb"}
        /\ result' = "ok" => method = "streaming" \/ result = "ok"
    BY <1>18 DEF Reset, End
  <2>4. method = "streaming" => Rest = {}
    BY DEF Rest, Streamed
  <2>5. LineInv'
    BY <1>18, <2>1, <2>2, <2>3 DEF Reset, Safe, LineInv, StreamedDone, Active, devVars
  <2>6. PhaseInv'
    BY <2>3 DEF PhaseInv
  <2>7. OrderInv'
    BY <1>18, <2>1, <2>3, <2>4 DEF Reset, Safe, OrderInv, StreamedDone, devVars
  <2> QED BY <2>5, <2>6, <2>7 DEF Safe
<1>19. CASE AdbFound \/ AdbTimeout
  BY <1>19 DEF AdbFound, AdbTimeout, End, Safe, LineInv, PhaseInv, OrderInv, Active,
     StreamedDone, devVars
<1>20. CASE FastbootFlash
  <2>1. PICK i \in Rest \ flashed : flashed' = flashed \cup {i} /\ committed' = committed \cup {i}
    BY <1>20 DEF FastbootFlash
  <2> i \in Images \ Mibib
    BY <2>1, Positions
  <2>2. LineInv'
    BY <1>20, <2>1 DEF FastbootFlash, Safe, LineInv, StreamedDone, Active
  <2>3. PhaseInv'
    BY <1>20 DEF FastbootFlash, PhaseInv
  <2>4. OrderInv'
    BY <1>20, <2>1 DEF FastbootFlash, Safe, OrderInv, StreamedDone
  <2> QED BY <2>2, <2>3, <2>4 DEF Safe
<1>21. CASE FastbootFails \/ FastbootReboot
  BY <1>21 DEF FastbootFails, FastbootReboot, End, Safe, LineInv, PhaseInv, OrderInv,
     Active, StreamedDone, devVars
<1>22. CASE DevOpen
  <2>1. /\ Head(toDev) \in Elems(toDev)
        /\ Head(toDev).type = "open"
        /\ \A p \in Elems(toDev') : p \in Elems(toDev) /\ p.type = "reset"
        /\ WritesFirst(toDev')
        /\ toDev # <<>>
    BY <1>22, ArrivedLine DEF DevOpen, Safe, LineInv
  <2>2. devOpen' = cur
    BY <1>22, <2>1 DEF DevOpen, Safe, LineInv
  <2>3. Elems(toHost') \subseteq Elems(toHost) \cup {"opened"}
    BY <1>22, AnswerLine DEF DevOpen, Reply
  <2>4. pc \notin {"prepare", "write", "writing", "closing"}
    BY <2>1 DEF Safe, PhaseInv, OfType
  <2>5. pc = "opening" => toDev' = <<>>
    <3>1. pc = "opening" => Elems(toDev') = {}
      BY <2>1 DEF Safe, PhaseInv, OfType
    <3>2. toDev' \in Seq(Packet)
      BY <1>22, ArrivedLine DEF DevOpen
    <3> QED BY <3>1, <3>2, TakenLine
  <2>6. LineInv'
    BY <1>22, <2>1, <2>2 DEF DevOpen, Safe, LineInv, StreamedDone, Active, hostVars
  <2>7. PhaseInv'
    BY <1>22, <2>1, <2>2, <2>3, <2>4, <2>5 DEF DevOpen, Safe, PhaseInv, hostVars, OfType
  <2>8. OrderInv'
    BY <1>22 DEF DevOpen, Safe, OrderInv, StreamedDone, hostVars
  <2> QED BY <2>6, <2>7, <2>8 DEF Safe
<1>23. CASE DevWrite
  <2>1. /\ Head(toDev) \in Elems(toDev)
        /\ Head(toDev).type = "write"
        /\ Elems(toDev') \subseteq Elems(toDev)
        /\ WritesFirst(toDev')
        /\ toDev # <<>>
    BY <1>23, ArrivedLine DEF DevWrite, Safe, LineInv
  <2>2. Elems(toHost') \subseteq Elems(toHost) \cup {"written"}
    BY <1>23, AnswerLine DEF DevWrite, Reply
  <2>3. pc \notin {"prepare", "opening"}
    BY <2>1 DEF Safe, PhaseInv, OfType
  <2>4. LineInv'
    BY <1>23, <2>1 DEF DevWrite, Safe, LineInv, StreamedDone, Active, hostVars
  <2>5. PhaseInv'
    BY <1>23, <2>1, <2>2, <2>3 DEF DevWrite, Safe, PhaseInv, hostVars
  <2>6. OrderInv'
    BY <1>23 DEF DevWrite, Safe, OrderInv, StreamedDone, hostVars
  <2> QED BY <2>4, <2>5, <2>6 DEF Safe
<1>24. CASE DevClose
  <2>1. /\ Head(toDev) \in Elems(toDev)
        /\ Head(toDev).type = "close"
        /\ \A p \in Elems(toDev') : p \in Elems(toDev) /\ p.type = "reset"
        /\ WritesFirst(toDev')
        /\ toDev # <<>>
        /\ toDev' \in Seq(Packet)
    BY <1>24, ArrivedLine DEF DevClose, Safe, LineInv
  <2>2. devOpen = cur
    BY <2>1 DEF Safe, LineInv
  <2>3. Elems(toHost') \subseteq Elems(toHost) \cup {"closed"}
    BY <1>24, AnswerLine DEF DevClose, Reply
  <2>4. pc \notin {"prepare", "opening", "write", "writing"}
    BY <2>1 DEF Safe, PhaseInv, OfType
  <2>5. pc = "closing" => toDev' = <<>>
    <3>1. pc = "closing" => Elems(toDev') = {}
      BY <2>1 DEF Safe, PhaseInv, OfType
    <3> QED BY <2>1, <3>1, TakenLine
  <2>6. LineInv'
    BY <1>24, <2>1 DEF DevClose, Safe, LineInv, StreamedDone, Active, hostVars
  <2>7. PhaseInv'
    BY <1>24, <2>1, <2>2, <2>3, <2>4, <2>5 DEF DevClose, Safe, PhaseInv, hostVars
  <2>8. OrderInv'
    BY <1>24, <2>2, Positions DEF DevClose, Safe, OrderInv, StreamedDone, hostVars
  <2> QED BY <2>6, <2>7, <2>8 DEF Safe
<1>25. CASE DevReset
  <2>1. /\ Head(toDev) \in Elems(toDev)
        /\ Head(toDev).type = "reset"
        /\ Elems(toDev') \subseteq Elems(toDev)
        /\ WritesFirst(toDev')
    BY <1>25, ArrivedLine DEF DevReset, Safe, LineInv
  <2>2. StreamedDone /\ ~Active
    BY <2>1 DEF Safe, LineInv
  <2> QED BY <1>25, <2>1, <2>2 DEF DevReset, Safe, LineInv, PhaseInv, OrderInv, Active,
             StreamedDone, hostVars
<1>26. CASE DevReject
  <2>1. /\ Elems(toDev') \subseteq Elems(toDev)
        /\ WritesFirst(toDev')
        /\ toDev # <<>>
    BY <1>26, ArrivedLine DEF DevReject, Safe, LineInv
  <2>2. Elems(toHost') \subseteq Elems(toHost) \cup {"unknown"}
    BY <1>26, AnswerLine DEF DevReject, Reply
  <2>3. LineInv'
    BY <1>26, <2>1 DEF DevReject, Safe, LineInv, StreamedDone, Active, hostVars, devVars
  <2>4. PhaseInv'
    BY <1>26, <2>1, <2>2 DEF DevReject, Safe, PhaseInv, hostVars, devVars
  <2>5. OrderInv'
    BY <1>26 DEF DevReject, Safe, OrderInv, StreamedDone, hostVars, devVars
  <2> QED BY <2>3, <2>4, <2>5 DEF Safe
<1>27. CASE DevLog
  <2>1. Elems(toHost') \subseteq Elems(toHost) \cup {"log"}
    BY <1>27, ReplyLine DEF DevLog, TypeOK, Reply
  <2> QED BY <1>27, <2>1 DEF DevLog, Safe, LineInv, PhaseInv, OrderInv, Active,
             StreamedDone, hostVars
<1>28. CASE UNCHANGED vars
  BY <1>28 DEF Safe, LineInv, PhaseInv, OrderInv, Active, StreamedDone, vars, hostVars, devVars
<1> QED
  BY <1>1, <1>2, <1>3, <1>4, <1>5, <1>6, <1>7, <1>8, <1>9, <1>10, <1>11, <1>12, <1>13,
     <1>14, <1>15, <1>16, <1>17, <1>18, <1>19, <1>20, <1>21, <1>22, <1>23, <1>24, <1>25,
     <1>26, <1>27, <1>28 DEF Next, Host, Module

(* The lines carry only what belongs to the image in progress, in every    *)
(* state of every download.                                                *)
THEOREM LinesSafe == Spec => []Safe
BY SafeInit, SafeStep, TypeCorrect, PTL DEF Spec

(* The module is restarted only when all that is streamed has been closed. *)
THEOREM ResetIsLast == Spec => []ResetComesLast
<1>1. Safe => ResetComesLast
  BY DEF Safe, OrderInv, StreamedDone, ResetComesLast
<1> QED BY <1>1, LinesSafe, PTL

(* A reported success covers the package, and MIBIB is never written.      *)
THEOREM SuccessCoversPackage == Spec => []SuccessIsComplete
<1>1. Safe => SuccessIsComplete
  <2> SUFFICES ASSUME Safe PROVE SuccessIsComplete
    OBVIOUS
  <2>1. committed \cap Mibib = {}
    BY Positions DEF Safe, OrderInv
  <2>2. result = "ok" => {Misc} \cup (Images \ Mibib) \subseteq committed
    BY Positions DEF Safe, OrderInv, StreamedDone
  <2> QED BY <2>1, <2>2 DEF SuccessIsComplete
<1> QED BY <1>1, LinesSafe, PTL

(* No chunk ever reaches another image's partition.                        *)
THEOREM ChunksStayHome == Spec => []OwnPartition
<1>1. Init => OwnPartition
  BY DEF Init, OwnPartition
<1>2. ASSUME TypeOK, Safe, OwnPartition, [Next]_vars PROVE OwnPartition'
  <2>1. CASE DevWrite
    <3>1. /\ Head(toDev) \in Elems(toDev)
          /\ Head(toDev).type = "write"
      BY <1>2, <2>1, ArrivedLine DEF DevWrite
    <3>2. Head(toDev).img = devOpen
      BY <1>2, <3>1 DEF Safe, LineInv
    <3>3. flash' = flash \cup {<<devOpen, devOpen, Head(toDev).chunk>>}
      BY <2>1, <3>2 DEF DevWrite
    <3>4. \A f \in {<<devOpen, devOpen, Head(toDev).chunk>>} : f[1] = f[2]
      OBVIOUS
    <3> QED BY <1>2, <3>3, <3>4 DEF OwnPartition
  <2>2. CASE ~DevWrite
    <3>1. flash' = flash
      BY <1>2, <2>2 DEF Next, Host, Module, vars, hostVars, devVars, Unreadable, Open,
         Opened, OpeningLog, OpenRefused, OpenTimeout, OpenFailed, WaitAgain, Write,
         WriteError, Written, Resend, ResendError, GiveUp, Close, Closed, CloseRefused,
         CloseTimeout, Reset, AdbFound, AdbTimeout, FastbootFlash, FastbootFails,
         FastbootReboot, DevOpen, DevClose, DevReset, DevReject, DevLog
    <3> QED BY <1>2, <3>1 DEF OwnPartition
  <2> QED BY <2>1, <2>2
<1> QED BY <1>1, <1>2, LinesSafe, TypeCorrect, PTL DEF Spec

-----------------------------------------------------------------------------
(* The balance of an image's chunks and its resends. *)

(* The chunks from a place of a line on are at most as many as the places. *)
LEMMA ChunksCounted ==
    ASSUME NEW q \in Seq(Packet), NEW k \in 0..Len(q)
    PROVE  LET D == {q[j].chunk : j \in (k + 1)..Len(q)} IN
           IsFiniteSet(D) /\ Cardinality(D) \in Nat /\ Cardinality(D) <= Len(q) - k
<1> DEFINE S == (k + 1)..Len(q)
           D == {q[j].chunk : j \in S}
           f == [j \in S |-> q[j].chunk]
<1>1. k + 1 \in Int /\ Len(q) \in Int /\ k \in Nat /\ k <= Len(q)
  OBVIOUS
<1>2. IsFiniteSet(S) /\ Cardinality(S) = IF k + 1 > Len(q) THEN 0 ELSE Len(q) - (k + 1) + 1
  BY <1>1, FS_Interval, Zenon
<1>3. f \in Surjection(S, D)
  BY DEF Surjection
<1> HIDE DEF S, D, f
<1>4. IsFiniteSet(D) /\ Cardinality(D) <= Cardinality(S)
  BY <1>2, <1>3, FS_Surjection
<1>5. Cardinality(D) \in Nat
  BY <1>4, FS_CardinalityType
<1>6. Cardinality(D) <= Len(q) - k
  BY <1>1, <1>2, <1>4, <1>5
<1> QED BY <1>4, <1>5, <1>6 DEF D, S

(* The numbers on a line are finitely many.                                *)
LEMMA NumbersFinite ==
    ASSUME NEW q \in Seq(Packet)
    PROVE  IsFiniteSet(Numbers(q))
<1>1. Numbers(q) \subseteq {q[j].chunk : j \in (0 + 1)..Len(q)}
  BY DEF Numbers, Elems
<1>2. 0 \in 0..Len(q)
  OBVIOUS
<1> QED BY <1>1, <1>2, ChunksCounted, FS_Subset

(* TCOFLUSH takes no more chunks than writes off a line.                   *)
LEMMA CutLine ==
    ASSUME NEW q \in Seq(Packet), NEW r \in NotFlushed(q), NEW F, IsFiniteSet(F)
    PROVE  /\ r \in Seq(Packet)
           /\ Len(r) + Cardinality(F \cup Numbers(q)) <= Len(q) + Cardinality(F \cup Numbers(r))
<1>1. PICK k \in 0..Len(q) : r = SubSeq(q, 1, k)
  BY DEF NotFlushed
<1>2. /\ r \in Seq(Packet) /\ Len(r) = k /\ k \in Nat /\ Len(q) \in Nat
      /\ \A j \in 1..k : r[j] = q[j]
  BY <1>1
<1> DEFINE D == {q[j].chunk : j \in (k + 1)..Len(q)}
           R == F \cup Numbers(r)
           Q == F \cup Numbers(q)
<1>3. Q \subseteq R \cup D
  <2> SUFFICES ASSUME NEW j \in 1..Len(q), q[j].type = "write"
               PROVE  q[j].chunk \in Numbers(r) \cup D
    BY DEF Numbers, Elems
  <2>1. CASE j <= k
    BY <1>2, <2>1 DEF Numbers, Elems
  <2>2. CASE ~(j <= k)
    BY <1>2, <2>2
  <2> QED BY <2>1, <2>2
<1>4. IsFiniteSet(D) /\ Cardinality(D) \in Nat /\ Cardinality(D) <= Len(q) - k
  BY ChunksCounted
<1>5. IsFiniteSet(R)
  BY <1>2, NumbersFinite, FS_Union
<1> HIDE DEF D, R, Q
<1>6. /\ IsFiniteSet(R \cup D) /\ IsFiniteSet(R \cap D)
      /\ Cardinality(R \cup D) = Cardinality(R) + Cardinality(D) - Cardinality(R \cap D)
  BY <1>4, <1>5, FS_Union, FS_Subset
<1>7. IsFiniteSet(Q) /\ Cardinality(Q) <= Cardinality(R \cup D)
  BY <1>3, <1>6, FS_Subset
<1>8. /\ Cardinality(R) \in Nat /\ Cardinality(Q) \in Nat /\ Cardinality(R \cap D) \in Nat
      /\ Cardinality(R \cup D) \in Nat
  BY <1>5, <1>6, <1>7, FS_CardinalityType
<1>9. Len(r) + Cardinality(Q) <= Len(q) + Cardinality(R)
  BY <1>2, <1>4, <1>6, <1>7, <1>8
<1> QED BY <1>2, <1>9 DEF Q, R

(* A send adds the packet's number with the packet.                        *)
LEMMA SentNumbers ==
    ASSUME NEW q \in Seq(Packet), NEW p \in Packet, NEW r \in Sent(q, p)
    PROVE  /\ r = q \/ (Len(r) = Len(q) + 1 /\ r[Len(r)] = p /\ r # <<>>)
           /\ r = q \/ p.type # "write" => Numbers(r) = Numbers(q)
           /\ r # q /\ p.type = "write" => Numbers(r) = Numbers(q) \cup {p.chunk}
<1>1. CASE r = q
  BY <1>1
<1>2. CASE r = Append(q, p) /\ r # q
  <2>1. /\ Len(q) \in Nat /\ Len(r) = Len(q) + 1
        /\ \A j \in 1..Len(q) : r[j] = q[j]
        /\ r[Len(q) + 1] = p
        /\ r # <<>>
    BY <1>2
  <2>2. Elems(r) = Elems(q) \cup {p}
    <3>1. Elems(r) \subseteq Elems(q) \cup {p}
      BY <2>1 DEF Elems
    <3>2. p \in Elems(r)
      BY <2>1 DEF Elems
    <3>3. Elems(q) \subseteq Elems(r)
      <4> SUFFICES ASSUME NEW j \in 1..Len(q) PROVE q[j] \in Elems(r)
        BY DEF Elems
      <4> QED BY <2>1 DEF Elems
    <3> QED BY <3>1, <3>2, <3>3
  <2>3. p.type # "write" => Numbers(r) = Numbers(q)
    BY <2>2 DEF Numbers
  <2>4. p.type = "write" => Numbers(r) = Numbers(q) \cup {p.chunk}
    BY <2>2 DEF Numbers
  <2> QED BY <1>2, <2>1, <2>3, <2>4
<1> QED BY <1>1, <1>2 DEF Sent

(* Writes are all that waits, or all but the close behind them.            *)
LEMMA WaitingLine ==
    ASSUME NEW q \in Seq(Packet)
    PROVE  /\ Waiting(q) \in Nat
           /\ (\A p \in Elems(q) : p.type = "write") => Waiting(q) = Len(q)
           /\ Waiting(<<>>) = 0 /\ Numbers(<<>>) = {}
<1>1. Len(q) \in Nat /\ (q # <<>> => Len(q) \in 1..Len(q))
  OBVIOUS
<1>2. Waiting(q) \in Nat
  BY <1>1 DEF Waiting
<1>3. (\A p \in Elems(q) : p.type = "write") => Waiting(q) = Len(q)
  BY <1>1 DEF Waiting, Elems
<1>4. Elems(<<>>) = {}
  BY DEF Elems
<1> QED BY <1>2, <1>3, <1>4 DEF Waiting, Numbers

(* Taking a write off the line leaves one less to answer, and at most its  *)
(* number is gone; behind a close there is nothing.                        *)
LEMMA TakenNumbers ==
    ASSUME NEW q \in Seq(Packet), q # <<>>, WritesFirst(q),
           Elems(q) \subseteq OfType({"write", "close"})
    PROVE  /\ Head(q).type = "write" =>
                 /\ Waiting(q) = Waiting(Tail(q)) + 1
                 /\ Numbers(q) = Numbers(Tail(q)) \cup {Head(q).chunk}
           /\ Head(q).type # "write" =>
                 /\ Tail(q) = <<>>
                 /\ Waiting(q) = 0
                 /\ Numbers(q) = {}
<1>1. /\ Len(q) \in Nat \ {0}
      /\ Head(q) = q[1]
      /\ Tail(q) \in Seq(Packet)
      /\ Len(Tail(q)) = Len(q) - 1
      /\ \A j \in 1..(Len(q) - 1) : Tail(q)[j] = q[j + 1]
  OBVIOUS
<1>2. Elems(q) = Elems(Tail(q)) \cup {Head(q)}
  <2>1. Elems(q) \subseteq Elems(Tail(q)) \cup {Head(q)}
    <3> SUFFICES ASSUME NEW j \in 1..Len(q), j # 1 PROVE q[j] \in Elems(Tail(q))
      BY <1>1 DEF Elems
    <3>1. j - 1 \in 1..Len(Tail(q)) /\ Tail(q)[j - 1] = q[j]
      BY <1>1
    <3> QED BY <3>1 DEF Elems
  <2> QED BY <2>1, TakenLine
<1>3. CASE Head(q).type = "write"
  <2>1. Numbers(q) = Numbers(Tail(q)) \cup {Head(q).chunk}
    BY <1>2, <1>3 DEF Numbers
  <2>2. Waiting(q) = Waiting(Tail(q)) + 1
    <3>1. CASE Tail(q) = <<>>
      <4>1. Len(q) = 1 /\ Len(Tail(q)) = 0
        BY <1>1, <3>1
      <4>2. q[Len(q)].type = "write"
        BY <1>1, <1>3, <4>1
      <4> QED BY <3>1, <4>1, <4>2 DEF Waiting
    <3>2. CASE Tail(q) # <<>>
      <4>1. Len(Tail(q)) \in 1..(Len(q) - 1)
        BY <1>1, <3>2
      <4>2. Tail(q)[Len(Tail(q))] = q[Len(q)]
        BY <1>1, <4>1
      <4> QED BY <1>1, <3>2, <4>2 DEF Waiting
    <3> QED BY <3>1, <3>2
  <2> QED BY <1>3, <2>1, <2>2
<1>4. CASE Head(q).type # "write"
  <2>1. \A p \in Elems(Tail(q)) : p.type = "reset"
    BY <1>4, TakenLine
  <2>2. Elems(Tail(q)) = {}
    BY <1>2, <2>1 DEF OfType
  <2>3. Tail(q) = <<>>
    <3>1. 1 \notin 1..Len(Tail(q))
      BY <2>2 DEF Elems
    <3> QED BY <1>1, <3>1
  <2>4. Head(q).type = "close" /\ Len(q) = 1
    BY <1>1, <1>2, <1>4, <2>3 DEF OfType
  <2>5. Numbers(q) = {}
    BY <1>2, <1>4, <2>2 DEF Numbers
  <2>6. Waiting(q) = 0
    BY <1>1, <2>4 DEF Waiting
  <2> QED BY <1>4, <2>3, <2>5, <2>6
<1> QED BY <1>3, <1>4

(* How the acknowledgements the host has still to read become more and     *)
(* fewer.                                                                  *)
LEMMA AcksRead ==
    ASSUME NEW q \in Seq(Reply)
    PROVE  /\ Acks(q) \in Nat
           /\ q # <<>> /\ Head(q) = "written" => Acks(q) >= 1
           /\ Acks(<<>>) = 0
<1> DEFINE A == {k \in 1..Len(q) : q[k] = "written"}
<1>1. 1 \in Int /\ Len(q) \in Int
  OBVIOUS
<1>2. IsFiniteSet(1..Len(q))
  BY <1>1, FS_Interval, Zenon
<1>3. IsFiniteSet(A) /\ Cardinality(A) \in Nat
  BY <1>2, FS_Subset, FS_CardinalityType
<1>4. q # <<>> /\ Head(q) = "written" => 1 \in A
  OBVIOUS
<1>5. A # {} => Cardinality(A) # 0
  BY <1>3, FS_EmptySet
<1>6. {k \in 1..Len(<<>>) : <<>>[k] = "written"} = {}
  OBVIOUS
<1>7. Acks(<<>>) = 0
  BY <1>6, FS_EmptySet DEF Acks
<1> QED BY <1>3, <1>4, <1>5, <1>7 DEF Acks

(* What one more reply adds to them.                                       *)
LEMMA AcksArrive ==
    ASSUME NEW q \in Seq(Reply), NEW r \in Reply, NEW s \in {q, Append(q, r)}
    PROVE  /\ Acks(s) <= Acks(q) + 1
           /\ r # "written" => Acks(s) = Acks(q)
<1>1. Acks(q) \in Nat
  BY AcksRead
<1>2. CASE s = q
  BY <1>1, <1>2
<1>3. CASE s = Append(q, r)
  <2> DEFINE A == {k \in 1..Len(q) : q[k] = "written"}
             B == {k \in 1..Len(s) : s[k] = "written"}
  <2>1. /\ Len(q) \in Nat /\ Len(s) = Len(q) + 1
        /\ \A j \in 1..Len(q) : s[j] = q[j]
        /\ s[Len(q) + 1] = r
    BY <1>3
  <2>2. B = IF r = "written" THEN A \cup {Len(q) + 1} ELSE A
    BY <2>1
  <2>3. 1 \in Int /\ Len(q) \in Int
    BY <2>1
  <2>4. IsFiniteSet(1..Len(q))
    BY <2>3, FS_Interval, Zenon
  <2>5. IsFiniteSet(A)
    BY <2>4, FS_Subset
  <2> HIDE DEF A, B
  <2>6. Cardinality(A \cup {Len(q) + 1}) <= Cardinality(A) + 1
    <3>1. Cardinality(A) \in Nat
      BY <2>5, FS_CardinalityType
    <3>2. Cardinality(A \cup {Len(q) + 1}) =
              IF Len(q) + 1 \in A THEN Cardinality(A) ELSE Cardinality(A) + 1
      BY <2>5, FS_AddElement, Zenon
    <3> QED BY <3>1, <3>2
  <2>7. Cardinality(A) \in Nat
    BY <2>5, FS_CardinalityType
  <2>8. Cardinality(B) <= Cardinality(A) + 1 /\ (r # "written" => Cardinality(B) = Cardinality(A))
    BY <2>2, <2>6, <2>7
  <2> QED BY <2>8 DEF A, B, Acks
<1> QED BY <1>2, <1>3

(* A step that writes nothing off and spends no try of a closed image      *)
(* keeps the bound on its holes.                                           *)
LEMMA HolesStay ==
    ASSUME TypeOK, HolesCostResends, Rest' = Rest, flash \subseteq flash',
           flashed' \ Rest \subseteq flashed,
           \A i \in flashed : retry_cnt'[i] = retry_cnt[i]
    PROVE  HolesCostResends'
<1> SUFFICES ASSUME NEW i \in flashed \ Rest, i \in flashed'
             PROVE  Cardinality(Missing(i)') <= WriteTries - retry_cnt[i]
  BY DEF HolesCostResends, Missing
<1>1. Missing(i)' \subseteq Missing(i)
  BY DEF Missing
<1>2. /\ Chunks[i] \in Nat /\ WriteTries \in Nat
      /\ retry_cnt[i] \in Nat
  BY Positions, DownloadAssumption DEF TypeOK
<1>3. 0 \in Int /\ Chunks[i] - 1 \in Int
  BY <1>2
<1>4. IsFiniteSet(0..(Chunks[i] - 1))
  BY <1>3, FS_Interval, Zenon
<1>5. IsFiniteSet(Missing(i))
  BY <1>4, FS_Subset DEF Missing
<1>6. Cardinality(Missing(i)) <= WriteTries - retry_cnt[i]
  BY DEF HolesCostResends
<1>7. /\ Cardinality(Missing(i)') <= Cardinality(Missing(i))
      /\ Cardinality(Missing(i)') \in Nat /\ Cardinality(Missing(i)) \in Nat
  BY <1>1, <1>5, FS_Subset, FS_CardinalityType
<1> QED BY <1>2, <1>6, <1>7

(* The parts of Balance that only look at the host in the middle of an     *)
(* image.                                                                  *)
LEMMA NotTransferring ==
    ASSUME pc' \notin {"write", "writing", "closing"}
    PROVE  StartedInv' /\ BalanceInv'
BY DEF StartedInv, BalanceInv

(* At the start no chunk was sent.                                         *)
LEMMA BalanceInit == Init => Balance
<1> SUFFICES ASSUME Init PROVE Balance
  OBVIOUS
<1>1. FreshInv /\ HolesCostResends
  BY DEF Init, FreshInv, HolesCostResends
<1>2. FlashInv
  BY DEF Init, FlashInv, Stored
<1>3. StartedInv /\ BalanceInv
  BY DEF Init, StartedInv, BalanceInv
<1> QED BY <1>1, <1>2, <1>3 DEF Balance

(* The chunks that were started are finitely many.                         *)
LEMMA StartedFinite ==
    ASSUME TypeOK, StartedInv, pc \in {"write", "writing", "closing"}
    PROVE  /\ IsFiniteSet(Started) /\ IsFiniteSet(Stored(cur))
           /\ Cardinality(Started) \in Nat
           /\ Spent(cur) \in Nat
           /\ Waiting(toDev) \in Nat /\ Acks(toHost) \in Nat
<1>1. 0 \in Int /\ chunk \in Int /\ chunk \in Nat
  BY DEF TypeOK
<1>2. IsFiniteSet(0..chunk)
  BY <1>1, FS_Interval, Zenon
<1>3. Started \subseteq 0..chunk
  BY <1>1 DEF StartedInv
<1>4. Spent(cur) \in Nat
  BY DownloadAssumption DEF Spent, TypeOK
<1>5. Waiting(toDev) \in Nat /\ Acks(toHost) \in Nat
  BY WaitingLine, AcksRead DEF TypeOK
<1>6. IsFiniteSet(Started)
  BY <1>2, <1>3, FS_Subset
<1>7. IsFiniteSet(Stored(cur))
  BY <1>6, FS_Subset DEF Started
<1> QED BY <1>4, <1>5, <1>6, <1>7, FS_CardinalityType

(* A flush and a send of one more packet: the chunks that are lost are no  *)
(* more than the writes that need no answer any longer.                    *)
LEMMA FlushedNumbers ==
    ASSUME TypeOK, RetryInv, Safe, Balance, pc \in {"write", "writing"},
           NEW q \in NotFlushed(toDev), NEW p \in Packet, NEW r \in Sent(q, p)
    PROVE  /\ IsFiniteSet(Stored(cur) \cup Numbers(r))
           /\ chunk + Waiting(q) <= Cardinality(Stored(cur) \cup Numbers(q)) + Spent(cur)
           /\ Numbers(q) \subseteq Numbers(toDev)
           /\ Waiting(q) = Len(q) /\ Len(q) \in Nat
           /\ Cardinality(Stored(cur) \cup Numbers(q)) \in Nat
           /\ Cardinality(Stored(cur) \cup Numbers(r)) \in Nat
           /\ Cardinality(Stored(cur) \cup Numbers(q)) <= Cardinality(Stored(cur) \cup Numbers(r))
<1>1. /\ \A e \in Elems(toDev) : e.type = "write"
      /\ toDev \in Seq(Packet)
  BY DEF Safe, PhaseInv, OfType, TypeOK
<1>2. q \in Seq(Packet) /\ Elems(q) \subseteq Elems(toDev)
  BY <1>1, FlushedLine
<1>3. /\ Waiting(q) = Len(q) /\ Waiting(toDev) = Len(toDev)
      /\ Len(q) \in Nat /\ Len(toDev) \in Nat
  BY <1>1, <1>2, WaitingLine
<1>4. Numbers(q) \subseteq Numbers(toDev)
  BY <1>2 DEF Numbers
<1>5. /\ IsFiniteSet(Stored(cur)) /\ Cardinality(Started) \in Nat /\ Spent(cur) \in Nat
      /\ Acks(toHost) \in Nat
  BY StartedFinite DEF Balance
<1>6. Len(q) + Cardinality(Started) <= Len(toDev) + Cardinality(Stored(cur) \cup Numbers(q))
  BY <1>1, <1>5, CutLine DEF Started
<1>7. r \in Seq(Packet)
  BY <1>2, SentLine
<1>8. IsFiniteSet(Stored(cur) \cup Numbers(q)) /\ IsFiniteSet(Stored(cur) \cup Numbers(r))
  BY <1>2, <1>5, <1>7, NumbersFinite, FS_Union
<1>9. Stored(cur) \cup Numbers(q) \subseteq Stored(cur) \cup Numbers(r)
  BY <1>2, SentNumbers
<1>10. /\ Cardinality(Stored(cur) \cup Numbers(q)) \in Nat
       /\ Cardinality(Stored(cur) \cup Numbers(r)) \in Nat
       /\ Cardinality(Stored(cur) \cup Numbers(q)) <= Cardinality(Stored(cur) \cup Numbers(r))
  BY <1>8, <1>9, FS_Subset, FS_CardinalityType
<1>11. chunk + Acks(toHost) + Waiting(toDev) <= Cardinality(Started) + Spent(cur)
  BY DEF Balance, BalanceInv
<1>12. chunk \in Nat
  BY DEF TypeOK
<1>13. chunk + Waiting(q) <= Cardinality(Stored(cur) \cup Numbers(q)) + Spent(cur)
  BY <1>3, <1>5, <1>6, <1>10, <1>11, <1>12
<1> QED BY <1>3, <1>4, <1>8, <1>10, <1>13

(* The host's steps within an image that is being written.                 *)
LEMMA BalanceWrite ==
    ASSUME TypeOK, RetryInv, Safe, Balance, Rest' = Rest, Opened \/ Write \/ Written \/ Resend \/ Close
    PROVE  Balance'
<1> /\ WriteTries \in Nat \ {0}
    /\ chunk \in Nat
    /\ toDev \in Seq(Packet) /\ toHost \in Seq(Reply)
    /\ Chunks \in [Partitions -> Nat]
  BY DownloadAssumption DEF TypeOK
<1>1. /\ UNCHANGED <<cur, flash, flashed>>
      /\ pc \in {"opening", "write", "writing"}
      /\ pc' \in {"write", "writing", "closing"}
      /\ \A i \in Partitions \ {cur} : retry_cnt'[i] = retry_cnt[i]
  BY DEF Opened, Write, Written, Resend, Retry, NotAcknowledged, Close, devVars, TypeOK
<1>2. \A i \in flashed : i \in Partitions \ {cur} /\ i < cur
  BY <1>1 DEF Balance, FreshInv, Active, TypeOK, Partitions
<1>3. FreshInv'
  BY <1>1, <1>2 DEF FreshInv
<1>4. HolesCostResends'
  BY <1>1, <1>2, HolesStay DEF Balance
<1>5. FlashInv'
  BY <1>1 DEF Balance, FlashInv, Active, Stored
<1>6. Stored(cur)' = Stored(cur) /\ Started' = Stored(cur) \cup Numbers(toDev')
  BY <1>1 DEF Stored, Started
<1>7. StartedInv' /\ BalanceInv'
  <2>1. CASE Opened
    <3>1. "opened" \in Elems(toHost)
      BY <2>1 DEF Opened, Receive, Elems
    <3>2. toDev' = <<>> /\ toHost' = <<>> /\ pc' = "write" /\ chunk' = 0
      BY <2>1, <3>1 DEF Opened, Receive, Safe, PhaseInv
    <3>3. Started' = {}
      BY <1>6, <2>1, <3>2, WaitingLine DEF Opened, Balance, FlashInv, Active, TypeOK
    <3>4. Acks(toHost)' = 0 /\ Waiting(toDev)' = 0
      BY <3>2, AcksRead, WaitingLine
    <3>5. Spent(cur)' = 0
      BY <2>1 DEF Opened, Spent, TypeOK
    <3>6. Cardinality(Started)' = 0
      BY <3>3, FS_EmptySet
    <3> QED BY <3>2, <3>3, <3>4, <3>5, <3>6 DEF StartedInv, BalanceInv
  <2>2. CASE Write
    <3>1. /\ toDev' \in Sent(toDev, Pkt("write", chunk))
          /\ pc = "write" /\ pc' = "writing"
          /\ UNCHANGED <<chunk, toHost, retry_cnt>>
          /\ Pkt("write", chunk) \in Packet
          /\ Pkt("write", chunk).type = "write" /\ Pkt("write", chunk).chunk = chunk
      BY <2>2, Packets DEF Write, Pkt
    <3>2. /\ toDev' \in Seq(Packet)
          /\ Elems(toDev') \subseteq Elems(toDev) \cup {Pkt("write", chunk)}
      BY <3>1, SentLine
    <3>3. /\ \A e \in Elems(toDev) : e.type = "write"
          /\ \A e \in Elems(toDev') : e.type = "write"
      BY <3>1, <3>2 DEF Safe, PhaseInv, OfType
    <3>4. /\ Waiting(toDev) = Len(toDev) /\ Waiting(toDev)' = Len(toDev')
          /\ Len(toDev) \in Nat /\ Len(toDev') \in Nat
      BY <3>2, <3>3, WaitingLine
    <3>5. /\ IsFiniteSet(Started) /\ Cardinality(Started) \in Nat
          /\ Spent(cur) \in Nat /\ Acks(toHost) \in Nat
          /\ Started \subseteq 0..(chunk - 1)
          /\ chunk + Acks(toHost) + Waiting(toDev) <= Cardinality(Started) + Spent(cur)
      BY <3>1, StartedFinite DEF Balance, StartedInv, BalanceInv
    <3>6. Spent(cur)' = Spent(cur) /\ Acks(toHost)' = Acks(toHost)
      BY <1>1, <3>1 DEF Spent
    <3>7. CASE toDev' = toDev
      <4>1. Started' = Started /\ Started \subseteq 0..chunk
        BY <1>6, <3>5, <3>7 DEF Started
      <4> QED BY <3>1, <3>4, <3>5, <3>6, <3>7, <4>1 DEF StartedInv, BalanceInv
    <3>8. CASE toDev' # toDev
      <4>1. Len(toDev') = Len(toDev) + 1 /\ Started' = Started \cup {chunk}
        BY <1>6, <3>1, <3>8, SentNumbers DEF Started
      <4>2. chunk \notin Started /\ Started' \subseteq 0..chunk
        BY <3>5, <4>1
      <4>3. Cardinality(Started \cup {chunk}) = IF chunk \in Started THEN Cardinality(Started)
                                                ELSE Cardinality(Started) + 1
        BY <3>5, FS_AddElement, Zenon
      <4>4. Cardinality(Started') = Cardinality(Started) + 1
        BY <4>1, <4>2, <4>3
      <4>5. chunk + Acks(toHost)' + Waiting(toDev)' <= Cardinality(Started') + Spent(cur)'
        BY <3>4, <3>5, <3>6, <4>1, <4>4
      <4> QED BY <3>1, <4>2, <4>5 DEF StartedInv, BalanceInv
    <3> QED BY <3>7, <3>8
  <2>3. CASE Written
    <3>1. /\ toHost # <<>> /\ Head(toHost) = "written" /\ toHost' = <<>>
          /\ pc = "writing" /\ pc' = "write" /\ chunk' = chunk + 1
          /\ UNCHANGED <<toDev, retry_cnt>>
      BY <2>3 DEF Written, Receive
    <3>2. Acks(toHost) >= 1 /\ Acks(toHost)' = 0
      BY <3>1, AcksRead
    <3>3. /\ Cardinality(Started) \in Nat /\ Spent(cur) \in Nat /\ Acks(toHost) \in Nat
          /\ Waiting(toDev) \in Nat
          /\ Started \subseteq 0..chunk
          /\ chunk + Acks(toHost) + Waiting(toDev) <= Cardinality(Started) + Spent(cur)
      BY <3>1, StartedFinite DEF Balance, StartedInv, BalanceInv
    <3>4. /\ Spent(cur)' = Spent(cur) /\ Waiting(toDev)' = Waiting(toDev)
          /\ Started' = Started
      BY <1>1, <1>6, <3>1 DEF Spent, Started
    <3>5. chunk' - 1 = chunk
      BY <3>1
    <3>6. chunk' + Acks(toHost)' + Waiting(toDev)' <= Cardinality(Started') + Spent(cur)'
      BY <3>1, <3>2, <3>3, <3>4
    <3> QED BY <3>1, <3>3, <3>4, <3>5, <3>6 DEF StartedInv, BalanceInv
  <2>4. CASE Resend
    <3>1. PICK q \in NotFlushed(toDev) : toDev' \in Sent(q, Pkt("write", chunk))
      BY <2>4 DEF Resend, FlushAndSend
    <3>2. /\ pc = "writing" /\ pc' = "writing" /\ toHost' = <<>>
          /\ UNCHANGED <<chunk, cur>>
          /\ retry_cnt'[cur] = retry_cnt[cur] - 1
          /\ Pkt("write", chunk) \in Packet
          /\ Pkt("write", chunk).type = "write" /\ Pkt("write", chunk).chunk = chunk
      BY <2>4, Packets DEF Resend, Retry, NotAcknowledged, FlushAndSend, Pkt, TypeOK
    <3>3. q \in Seq(Packet)
      BY FlushedLine
    <3>4. /\ toDev' \in Seq(Packet)
          /\ Elems(toDev') \subseteq Elems(toDev) \cup {Pkt("write", chunk)}
      BY <2>4, <3>2, FlushAndSendLine DEF Resend
    <3>5. \A e \in Elems(toDev') : e.type = "write"
      BY <3>2, <3>4 DEF Safe, PhaseInv, OfType
    <3>6. Waiting(toDev)' = Len(toDev') /\ Acks(toHost)' = 0
      BY <3>2, <3>4, <3>5, WaitingLine, AcksRead
    <3>7. Len(toDev') <= Len(q) + 1 /\ Len(toDev') \in Nat
      <4>1. toDev' = q \/ Len(toDev') = Len(q) + 1
        BY <3>1, <3>2, <3>3, SentNumbers
      <4> QED BY <3>3, <3>4, <4>1
    <3>8. Numbers(toDev') \subseteq Numbers(q) \cup {chunk}
      BY <3>1, <3>2, <3>3, SentNumbers
    <3>9. Spent(cur) \in Nat /\ Spent(cur)' = Spent(cur) + 1
      <4>1. Spent(cur) \in Nat /\ retry_cnt[cur] \in Nat
        BY <3>2, StartedFinite DEF Balance, TypeOK
      <4> QED BY <3>2, <4>1 DEF Spent
    <3>10. /\ chunk + Waiting(q) <= Cardinality(Stored(cur) \cup Numbers(q)) + Spent(cur)
           /\ Numbers(q) \subseteq Numbers(toDev)
           /\ Waiting(q) = Len(q) /\ Len(q) \in Nat
           /\ Cardinality(Stored(cur) \cup Numbers(q)) \in Nat
           /\ Cardinality(Started') \in Nat
           /\ Cardinality(Stored(cur) \cup Numbers(q)) <= Cardinality(Started')
      BY <1>6, <3>1, <3>2, FlushedNumbers
    <3>11. Started' \subseteq 0..chunk
      <4>1. Started \subseteq 0..chunk
        BY <3>2 DEF Balance, StartedInv
      <4> QED BY <1>6, <3>8, <3>10, <4>1 DEF Started
    <3>12. chunk + Acks(toHost)' + Waiting(toDev)' <= Cardinality(Started') + Spent(cur)'
      BY <3>6, <3>7, <3>9, <3>10
    <3> QED BY <3>2, <3>11, <3>12 DEF StartedInv, BalanceInv
  <2>5. CASE Close
    <3>1. PICK q \in NotFlushed(toDev) : toDev' \in Sent(q, Pkt("close", 0))
      BY <2>5 DEF Close, FlushAndSend
    <3>2. /\ pc = "write" /\ pc' = "closing"
          /\ UNCHANGED <<chunk, cur, retry_cnt>>
          /\ Pkt("close", 0) \in Packet
          /\ Pkt("close", 0).type = "close"
      BY <2>5, Packets DEF Close, Pkt
    <3>3. q \in Seq(Packet)
      BY FlushedLine
    <3>4. Numbers(toDev') = Numbers(q)
      BY <3>1, <3>2, <3>3, SentNumbers
    <3>5. /\ chunk + Waiting(q) <= Cardinality(Stored(cur) \cup Numbers(q)) + Spent(cur)
          /\ Numbers(q) \subseteq Numbers(toDev)
          /\ Waiting(q) = Len(q) /\ Len(q) \in Nat
      BY <3>1, <3>2, FlushedNumbers
    <3>6. Waiting(toDev)' = Waiting(q)
      <4>1. CASE toDev' = q
        BY <4>1
      <4>2. CASE toDev' # q
        <5>1. Len(toDev') = Len(q) + 1 /\ toDev'[Len(toDev')].type = "close" /\ toDev' # <<>>
          BY <3>1, <3>2, <3>3, <4>2, SentNumbers
        <5> QED BY <3>5, <5>1 DEF Waiting
      <4> QED BY <4>1, <4>2
    <3>7. Spent(cur)' = Spent(cur)
      BY <3>2 DEF Spent
    <3>8. Started' \subseteq 0..(chunk - 1)
      BY <1>6, <3>2, <3>4, <3>5 DEF Started, Balance, StartedInv
    <3> QED BY <1>6, <3>2, <3>4, <3>5, <3>6, <3>7, <3>8 DEF StartedInv, BalanceInv
  <2> QED BY <2>1, <2>2, <2>3, <2>4, <2>5
<1> QED BY <1>3, <1>4, <1>5, <1>7 DEF Balance

(* An image that is closed has no more holes than it cost resends.         *)
LEMMA BalanceClosed ==
    ASSUME TypeOK, Safe, Balance, Rest' = Rest, Closed
    PROVE  Balance'
<1>1. /\ pc = "closing" /\ pc' \in {"prepare", "reset"}
      /\ "closed" \in Elems(toHost)
      /\ flashed' = flashed \cup {cur}
      /\ UNCHANGED <<chunk, retry_cnt, flash>>
  BY DEF Closed, NextImage, Receive, Elems, devVars
<1>2. chunk = Chunks[cur] /\ toDev = <<>>
  BY <1>1 DEF Safe, PhaseInv
<1>3. /\ Started = Stored(cur)
      /\ IsFiniteSet(Stored(cur)) /\ Cardinality(Stored(cur)) \in Nat
      /\ Stored(cur) \subseteq 0..(Chunks[cur] - 1)
      /\ Chunks[cur] <= Cardinality(Stored(cur)) + Spent(cur)
      /\ Spent(cur) \in Nat
  <2>1. Started = Stored(cur) /\ Waiting(toDev) = 0
    BY <1>2, WaitingLine DEF Started, TypeOK
  <2>2. chunk \in Nat
    BY DEF TypeOK
  <2> QED BY <1>1, <1>2, <2>1, <2>2, StartedFinite DEF Balance, StartedInv, BalanceInv
<1>4. Cardinality(Missing(cur)) <= Spent(cur)
  <2> DEFINE M == Missing(cur)
             S == Stored(cur)
             I == 0..(Chunks[cur] - 1)
  <2>1. Chunks[cur] \in Nat
    BY Positions DEF TypeOK
  <2>2. 0 \in Int /\ Chunks[cur] - 1 \in Int
    BY <2>1
  <2>3. IsFiniteSet(I) /\ Cardinality(I) = IF 0 > Chunks[cur] - 1 THEN 0 ELSE (Chunks[cur] - 1) - 0 + 1
    BY <2>2, FS_Interval, Zenon
  <2>4. Cardinality(I) = Chunks[cur]
    BY <2>1, <2>3
  <2>5. M \cup S = I /\ M \cap S = {}
    BY <1>3 DEF Missing, Stored
  <2> HIDE DEF M, S, I
  <2>6. IsFiniteSet(M) /\ IsFiniteSet(S)
    BY <2>3, <2>5, FS_Subset
  <2>7. Cardinality(M \cup S) = Cardinality(M) + Cardinality(S) - Cardinality(M \cap S)
    BY <2>6, FS_Union
  <2>8. Cardinality(M \cap S) = 0
    BY <2>5, FS_EmptySet
  <2>9. Cardinality(M) \in Nat /\ Cardinality(S) \in Nat
    BY <2>6, FS_CardinalityType
  <2>10. Chunks[cur] = Cardinality(M) + Cardinality(S)
    <3>1. Cardinality(M \cup S) = Chunks[cur]
      BY <2>4, <2>5
    <3> QED BY <2>7, <2>8, <2>9, <3>1
  <2>11. Chunks[cur] <= Cardinality(S) + Spent(cur)
    BY <1>3 DEF S
  <2>12. Cardinality(M) <= Spent(cur)
    BY <1>3, <2>9, <2>10, <2>11
  <2> QED BY <2>12 DEF M
<1>5. HolesCostResends'
  <2> SUFFICES ASSUME NEW i \in (flashed \cup {cur}) \ Rest
               PROVE  Cardinality(Missing(i)) <= WriteTries - retry_cnt[i]
    BY <1>1 DEF HolesCostResends, Missing
  <2>1. CASE i = cur
    BY <1>4, <2>1 DEF Spent
  <2>2. CASE i # cur
    BY <2>2 DEF Balance, HolesCostResends
  <2> QED BY <2>1, <2>2
<1>6. ASSUME pc' = "prepare" PROVE cur < cur'
  <2>1. cur' \in Later \/ (cur # Boot /\ cur' = Boot)
    BY <1>6 DEF Closed, NextImage
  <2>2. cur \in {Misc, Boot} \cup Images
    BY Positions DEF Safe, OrderInv
  <2> QED BY <2>1, <2>2, Positions DEF Later
<1>7. /\ cur \in Nat /\ cur' \in Nat
      /\ flashed \subseteq Nat /\ Partitions \subseteq Nat
  <2>1. cur' \in Later \/ cur' = Boot \/ cur' = cur
    BY DEF Closed, NextImage
  <2> QED BY <2>1, Positions DEF Later, TypeOK
<1>8. FreshInv'
  BY <1>1, <1>6, <1>7 DEF FreshInv, Balance, Active
<1>9. FlashInv'
  <2> SUFFICES ASSUME pc' = "prepare", NEW i \in Partitions, i > cur' \/ i = cur'
               PROVE  Stored(i)' = {}
    BY <1>1 DEF FlashInv, Active
  <2>1. i > cur
    BY <1>6, <1>7
  <2> QED BY <1>1, <2>1 DEF Balance, FlashInv, Active, Stored
<1> QED BY <1>1, <1>5, <1>8, <1>9, NotTransferring DEF Balance

(* What the module takes, answers and says beside that leaves the balance. *)
LEMMA BalanceModule ==
    ASSUME TypeOK, Safe, Balance, Rest' = Rest, Module
    PROVE  Balance'
<1>1. UNCHANGED hostVars /\ flash \subseteq flash'
  BY DEF Module, DevOpen, DevWrite, DevClose, DevReset, DevReject, DevLog, devVars
<1>2. HolesCostResends' /\ FreshInv'
  BY <1>1, HolesStay DEF Balance, FreshInv, Active, hostVars
<1>3. CASE ~Active
  BY <1>1, <1>2, <1>3 DEF Balance, FlashInv, Active, StartedInv, BalanceInv, hostVars
<1>4. CASE pc \in {"prepare", "opening"}
  <2>1. ~DevWrite
    <3>1. CASE DevWrite
      <4>1. Head(toDev) \in Elems(toDev) /\ Head(toDev).type = "write"
        BY <3>1, ArrivedLine DEF DevWrite
      <4> QED BY <1>4, <4>1 DEF Safe, PhaseInv, OfType, Elems
    <3> QED BY <3>1
  <2>2. flash' = flash
    BY <2>1 DEF Module, DevOpen, DevClose, DevReset, DevReject, DevLog, devVars
  <2>3. FlashInv'
    BY <1>1, <2>2 DEF Balance, FlashInv, Active, Stored, hostVars
  <2> QED BY <1>1, <1>2, <1>4, <2>3, NotTransferring DEF Balance, hostVars
<1>5. CASE pc \in {"write", "writing", "closing"}
  <2>1. /\ toDev \in Seq(Packet) /\ toHost \in Seq(Reply) /\ chunk \in Nat /\ cur \in Partitions
        /\ Elems(toDev) \subseteq OfType({"write", "close"})
        /\ WritesFirst(toDev)
        /\ \A p \in Elems(toDev) : p.img = cur /\ devOpen = cur
    BY <1>5 DEF TypeOK, Safe, PhaseInv, LineInv, OfType
  <2>2. /\ IsFiniteSet(Started) /\ Cardinality(Started) \in Nat
        /\ Spent(cur) \in Nat /\ Waiting(toDev) \in Nat /\ Acks(toHost) \in Nat
    BY <1>5, StartedFinite DEF Balance
  <2>3. Spent(cur)' = Spent(cur)
    BY <1>1 DEF Spent, hostVars
  <2>4. CASE DevWrite
    <3>1. /\ toDev # <<>> /\ Head(toDev).type = "write" /\ Head(toDev) \in Elems(toDev)
          /\ Head(toDev).chunk \in Nat
          /\ toDev' = Tail(toDev) /\ toDev' \in Seq(Packet)
      BY <2>4, ArrivedLine DEF DevWrite, Arrived, Packet
    <3>2. /\ Waiting(toDev) = Waiting(toDev)' + 1
          /\ Numbers(toDev) = Numbers(toDev') \cup {Head(toDev).chunk}
      BY <2>1, <3>1, TakenNumbers
    <3>3. flash' = flash \cup {<<cur, cur, Head(toDev).chunk>>}
      BY <2>1, <2>4, <3>1 DEF DevWrite
    <3>4. /\ Stored(cur)' = Stored(cur) \cup {Head(toDev).chunk}
          /\ \A i \in Partitions : i # cur => Stored(i)' = Stored(i)
      <4>1. cur' = cur
        BY <1>1 DEF hostVars
      <4>2. \A i, c : <<i, i, c>> \in flash' <=>
                <<i, i, c>> \in flash \/ (i = cur /\ c = Head(toDev).chunk)
        BY <3>3
      <4> QED BY <3>1, <4>1, <4>2 DEF Stored
    <3>5. Started' = Started
      BY <3>2, <3>4 DEF Started
    <3>6. toHost' \in {toHost, Append(toHost, "written")} /\ "written" \in Reply
      BY <2>4 DEF DevWrite, Answer, Reply
    <3>7. /\ Acks(toHost)' <= Acks(toHost) + 1
          /\ Acks(toHost)' \in Nat /\ Waiting(toDev)' \in Nat
      <4>1. toHost' \in Seq(Reply)
        BY <2>1, <3>6
      <4> QED BY <2>1, <3>1, <3>6, <4>1, AcksArrive, AcksRead, WaitingLine
    <3>8. StartedInv'
      BY <1>1, <3>5 DEF Balance, StartedInv, hostVars
    <3>9. BalanceInv'
      BY <1>1, <2>1, <2>2, <2>3, <3>2, <3>5, <3>7 DEF Balance, BalanceInv, hostVars
    <3>10. FlashInv'
      BY <1>1, <1>5, <2>1, <3>4, Positions DEF Balance, FlashInv, Active, hostVars
    <3> QED BY <1>2, <3>8, <3>9, <3>10 DEF Balance
  <2>5. CASE ~DevWrite
    <3>1. flash' = flash /\ FlashInv'
      <4>1. flash' = flash
        BY <2>5 DEF Module, DevOpen, DevClose, DevReset, DevReject, DevLog, devVars
      <4> QED BY <1>1, <4>1 DEF Balance, FlashInv, Active, Stored, hostVars
    <3>2. Stored(cur)' = Stored(cur)
      BY <1>1, <3>1 DEF Stored, hostVars
    <3>3. CASE DevReject \/ DevClose
      <4>1. PICK t : Arrived(t)
        BY <3>3 DEF DevReject, DevClose
      <4>2. /\ toDev # <<>>
            /\ toDev' = Tail(toDev) /\ toDev' \in Seq(Packet)
        BY <4>1, ArrivedLine DEF Arrived
      <4>3. PICK r \in {"unknown", "closed"} : Answer(r)
        BY <3>3 DEF DevReject, DevClose
      <4>4. Acks(toHost)' = Acks(toHost)
        BY <2>1, <4>3, AcksArrive DEF Answer, Reply
      <4>5. CASE Head(toDev).type = "write"
        <5> DEFINE c == Head(toDev).chunk
        <5>1. /\ Waiting(toDev) = Waiting(toDev)' + 1
              /\ Numbers(toDev) = Numbers(toDev') \cup {c}
              /\ Waiting(toDev)' \in Nat
          BY <2>1, <4>2, <4>5, TakenNumbers, WaitingLine
        <5> HIDE DEF c
        <5>2. Started = Started' \cup {c} /\ Started' \subseteq Started
          BY <3>2, <5>1 DEF Started
        <5>3. IsFiniteSet(Started') /\ Cardinality(Started') \in Nat
          BY <2>2, <5>2, FS_Subset, FS_CardinalityType
        <5>4. Cardinality(Started' \cup {c}) =
                  IF c \in Started' THEN Cardinality(Started') ELSE Cardinality(Started') + 1
          BY <5>3, FS_AddElement, Zenon
        <5>5. Cardinality(Started) <= Cardinality(Started') + 1
          BY <5>2, <5>3, <5>4
        <5>6. StartedInv'
          BY <1>1, <5>2 DEF Balance, StartedInv, hostVars
        <5>7. BalanceInv'
          BY <1>1, <2>1, <2>2, <2>3, <4>4, <5>1, <5>3, <5>5 DEF Balance, BalanceInv, hostVars
        <5> QED BY <1>2, <3>1, <5>6, <5>7 DEF Balance
      <4>6. CASE Head(toDev).type # "write"
        <5>1. toDev' = <<>> /\ Waiting(toDev) = 0 /\ Numbers(toDev) = {}
          BY <2>1, <4>2, <4>6, TakenNumbers
        <5>2. Waiting(toDev)' = 0 /\ Started' = Started
          BY <2>1, <3>2, <5>1, WaitingLine DEF Started
        <5> QED BY <1>1, <1>2, <2>3, <3>1, <4>4, <5>1, <5>2
                DEF Balance, StartedInv, BalanceInv, hostVars
      <4> QED BY <4>5, <4>6
    <3>4. CASE DevLog
      <4>1. toHost' = Append(toHost, "log") /\ "log" \in Reply /\ toDev' = toDev
        BY <3>4 DEF DevLog, Reply
      <4>2. Acks(toHost)' = Acks(toHost)
        BY <2>1, <4>1, AcksArrive
      <4>3. Started' = Started /\ Waiting(toDev)' = Waiting(toDev)
        BY <3>2, <4>1 DEF Started
      <4> QED BY <1>1, <1>2, <2>3, <3>1, <4>2, <4>3
              DEF Balance, StartedInv, BalanceInv, hostVars
    <3>5. CASE DevOpen \/ DevReset
      <4>1. \E t \in {"open", "reset"} : Arrived(t)
        BY <3>5 DEF DevOpen, DevReset
      <4>2. Head(toDev) \in Elems(toDev) /\ Head(toDev).type \in {"open", "reset"}
        BY <4>1, ArrivedLine
      <4> QED BY <2>1, <4>2 DEF OfType
    <3> QED BY <2>5, <3>3, <3>4, <3>5 DEF Module
  <2> QED BY <2>4, <2>5
<1> QED BY <1>3, <1>4, <1>5 DEF Active

(* Every step keeps the balance.                                           *)
LEMMA BalanceStep ==
    ASSUME TypeOK, RetryInv, Safe, Balance, [Next]_vars
    PROVE  Balance'
<1> /\ Rest' = Rest
    /\ WriteTries \in Nat \ {0}
  BY PlanFixed, DownloadAssumption
<1>1. \A i \in flashed : Active => i # cur
  BY DEF Balance, FreshInv, Active, TypeOK, Partitions
<1>2. CASE /\ ImageFailed \/ End("crashed")
           /\ UNCHANGED <<cur, flashed, flash>>
           /\ \A i \in flashed : retry_cnt'[i] = retry_cnt[i]
  <2>1. pc' \in {"reset", "done"}
    BY <1>2 DEF ImageFailed, End
  <2>2. HolesCostResends'
    BY <1>2, HolesStay DEF Balance
  <2> QED BY <2>1, <2>2, NotTransferring DEF Balance, FreshInv, FlashInv, Active
<1>3. CASE Unreadable \/ OpenRefused \/ OpenTimeout \/ WriteError \/ CloseRefused \/ CloseTimeout
  BY <1>2, <1>3 DEF Unreadable, OpenRefused, OpenTimeout, OpenFailed, WriteError,
     CloseRefused, CloseTimeout, devVars
<1>4. CASE ResendError \/ GiveUp
  <2>1. \A i \in flashed : retry_cnt'[i] = retry_cnt[i]
    BY <1>1, <1>4 DEF ResendError, GiveUp, Retry, NotAcknowledged, Active, TypeOK
  <2> QED BY <1>2, <1>4, <2>1 DEF ResendError, GiveUp, devVars
<1>5. CASE Open
  <2>1. /\ pc = "prepare" /\ pc' = "opening"
        /\ UNCHANGED <<cur, flash, flashed, retry_cnt>>
    BY <1>5 DEF Open, devVars
  <2>2. HolesCostResends'
    BY <2>1, HolesStay DEF Balance
  <2> QED BY <2>1, <2>2, NotTransferring DEF Balance, FreshInv, FlashInv, Active, Stored
<1>6. CASE OpeningLog \/ WaitAgain
  <2>1. /\ pc \in {"opening", "closing"}
        /\ UNCHANGED <<pc, cur, chunk, flash, flashed, retry_cnt, toDev>>
    BY <1>6 DEF OpeningLog, WaitAgain, hostVars, devVars
  <2>2. HolesCostResends'
    BY <2>1, HolesStay DEF Balance
  <2> QED BY <2>1, <2>2 DEF Balance, FreshInv, FlashInv, StartedInv, BalanceInv, Active,
          Stored, Started, Spent
<1>7. CASE Opened \/ Write \/ Written \/ Resend \/ Close
  BY <1>7, BalanceWrite
<1>8. CASE Closed
  BY <1>8, BalanceClosed
<1>9. CASE Reset \/ AdbFound \/ AdbTimeout \/ FastbootFlash \/ FastbootFails \/ FastbootReboot
  <2>1. /\ pc' \in {"done", "wait_adb", "fastboot"}
        /\ flashed' \ Rest \subseteq flashed
        /\ UNCHANGED <<retry_cnt, flash>>
    BY <1>9 DEF Reset, AdbFound, AdbTimeout, FastbootFlash, FastbootFails, FastbootReboot,
       End, devVars
  <2>2. HolesCostResends'
    BY <2>1, HolesStay DEF Balance
  <2> QED BY <2>1, <2>2, NotTransferring DEF Balance, FreshInv, FlashInv, Active
<1>10. CASE Module
  BY <1>10, BalanceModule
<1>11. CASE UNCHANGED vars
  BY <1>11 DEF Balance, FreshInv, FlashInv, StartedInv, BalanceInv, HolesCostResends,
     Missing, Active, Stored, Started, Spent, vars, hostVars, devVars
<1> QED
  BY <1>3, <1>4, <1>5, <1>6, <1>7, <1>8, <1>9, <1>10, <1>11 DEF Next, Host

(* Each hole in an image that was closed cost a resend of its own, however *)
(* many chunks the image has, and whatever came late.                      *)
THEOREM HolesAreBounded == Spec => []HolesCostResends
<1>1. Balance => HolesCostResends
  BY DEF Balance
<1> QED BY <1>1, BalanceInit, BalanceStep, TypeCorrect, LinesSafe, PTL DEF Spec

(* An image written without a resend is complete once it is closed.        *)
THEOREM NoResendNoHole == Spec => []CleanImagesComplete
<1>1. TypeOK /\ HolesCostResends => CleanImagesComplete
  <2> SUFFICES ASSUME TypeOK, HolesCostResends,
                      NEW i \in flashed \ Rest, retry_cnt[i] = WriteTries
               PROVE  Missing(i) = {}
    BY DEF CleanImagesComplete
  <2>1. Cardinality(Missing(i)) <= 0
    BY DownloadAssumption DEF HolesCostResends
  <2>2. 0 \in Int /\ Chunks[i] - 1 \in Int
    BY Positions DEF TypeOK
  <2>3. IsFiniteSet(0..(Chunks[i] - 1))
    BY <2>2, FS_Interval, Zenon
  <2>4. IsFiniteSet(Missing(i))
    BY <2>3, FS_Subset DEF Missing
  <2>5. Cardinality(Missing(i)) \in Nat
    BY <2>4, FS_CardinalityType
  <2>6. Cardinality(Missing(i)) = 0
    BY <2>1, <2>5
  <2> QED BY <2>4, <2>6, FS_EmptySet
<1> QED BY <1>1, HolesAreBounded, TypeCorrect, PTL

-----------------------------------------------------------------------------
(* The download implements PackageFlash. *)

OutcomeInv == result # "none" => pc = "done"

(* There is a result only when the download is done.                       *)
LEMMA OutcomeIsLast == Spec => []OutcomeInv
<1>1. Init => OutcomeInv
  BY DEF Init, OutcomeInv
<1>2. OutcomeInv /\ [Next]_vars => OutcomeInv'
  BY DEF OutcomeInv, Next, Host, Module, vars, hostVars, devVars, Unreadable, Open, Opened,
     OpeningLog, OpenRefused, OpenTimeout, OpenFailed, ImageFailed, End, WaitAgain,
     Write, WriteError, Written, NotAcknowledged, Retry, Resend, ResendError, GiveUp, Close, Closed, CloseRefused,
     CloseTimeout, Reset, AdbFound, AdbTimeout, FastbootFlash, FastbootFails,
     FastbootReboot, DevOpen, DevWrite, DevClose, DevReset, DevReject, DevLog
<1> QED BY <1>1, <1>2, PTL DEF Spec

Done == committed \ {Boot}

(* The place of each partition in the promised order. *)
LEMMA Ranks ==
    /\ DOMAIN Rank = {Misc} \cup (Images \ Mibib)
    /\ \A i \in Rest : Rank[i] = Boot + i
    /\ \A i \in {Misc} \cup Streamed : Rank[i] = i
<1>1. Misc \notin Rest
  BY Positions
<1>2. \A i \in Streamed : i \notin Rest
  BY Positions
<1> QED BY <1>1, <1>2, Positions DEF Rank

(* Closing the next partition is the promise's Complete, or nothing new.   *)
LEMMA CommitIsComplete ==
    ASSUME Rank' = Rank, result' = result, NEW i \in {Misc, Boot} \cup (Images \ Mibib),
           committed' = committed \cup {i},
           i = Boot \/ \A j \in DOMAIN Rank : Rank[j] < Rank[i] => j \in committed
    PROVE  [Promise!Next]_(Promise!vars)
<1>1. CASE i = Boot \/ i \in committed
  <2>1. Done' = Done
    BY <1>1 DEF Done
  <2> QED BY <2>1 DEF Promise!vars, Done
<1>2. CASE i # Boot /\ i \notin committed
  <2>1. /\ i \in DOMAIN Rank \ Done
        /\ Done' = Done \cup {i}
        /\ \A j \in DOMAIN Rank : Rank[j] < Rank[i] => j \in Done
    <3>1. \A j \in DOMAIN Rank : j # Boot
      BY Ranks, Positions
    <3> QED BY <1>2, <3>1, Ranks DEF Done
  <2> QED BY <2>1 DEF Promise!Next, Promise!Complete, Promise!Todo, Done
<1> QED BY <1>1, <1>2

(* Ending with a failure is the promise's Fail. *)
LEMMA FailureIsFail ==
    ASSUME Rank' = Rank, committed' = committed, result = "none",
           result' \in {"none", "failed", "crashed"}
    PROVE  [Promise!Next]_(Promise!vars)
<1>1. CASE result' = "none"
  BY <1>1 DEF Promise!vars
<1>2. CASE result' \in {"failed", "crashed"}
  BY <1>2 DEF Promise!Next, Promise!Fail
<1> QED BY <1>1, <1>2

(* Ending well is the promise's Succeed. *)
LEMMA SuccessIsSucceed ==
    ASSUME Safe, Rank' = Rank, committed' = committed, result = "none",
           result' = "ok", StreamedDone, Rest \subseteq flashed
    PROVE  [Promise!Next]_(Promise!vars)
<1>1. Done = {Misc} \cup (Images \ Mibib)
  <2>1. \A i \in {Misc} \cup (Images \ Mibib) : i # Boot /\ i \in {Misc} \cup Streamed \cup Rest
    BY Positions
  <2>2. {Misc} \cup Streamed \cup Rest \subseteq committed
    BY DEF Safe, OrderInv, StreamedDone
  <2>3. committed \subseteq {Misc, Boot} \cup (Images \ Mibib)
    BY DEF Safe, OrderInv
  <2> QED BY <2>1, <2>2, <2>3 DEF Done
<1> QED BY <1>1, Ranks DEF Promise!Next, Promise!Succeed, Promise!Todo, Done

(* Every step is one of PackageFlash or a stutter.                         *)
LEMMA StepIsPromised ==
    ASSUME TypeOK, Safe, OutcomeInv, [Next]_vars
    PROVE  [Promise!Next]_(Promise!vars)
<1>1. Rank' = Rank
  BY PlanFixed DEF Rank
<1>2. CASE DevClose
  <2>1. /\ Head(toDev) \in Elems(toDev)
        /\ Head(toDev).type = "close"
    BY <1>2, ArrivedLine DEF DevClose
  <2>2. /\ devOpen = cur
        /\ cur \in {Misc, Boot} \cup Streamed
        /\ {j \in {Misc} \cup Streamed : j < cur} \subseteq committed
    BY <2>1 DEF Safe, LineInv, OrderInv
  <2>3. ASSUME cur # Boot, NEW j \in DOMAIN Rank, Rank[j] < Rank[cur]
        PROVE  j \in committed
    <3>1. Rank[cur] = cur /\ cur \in Nat /\ cur < Boot
      BY <2>2, <2>3, Ranks, Positions
    <3>2. CASE j \in Rest
      <4>1. Rank[j] = Boot + j /\ j \in Nat /\ Boot \in Nat
        BY <3>2, Ranks, Positions
      <4> QED BY <2>3, <3>1, <4>1
    <3>3. CASE j \in {Misc} \cup Streamed
      BY <2>2, <2>3, <3>1, <3>3, Ranks
    <3> QED BY <3>2, <3>3, Ranks, Positions
  <2> QED BY <1>1, <1>2, <2>2, <2>3, CommitIsComplete, Positions DEF DevClose, hostVars
<1>3. CASE FastbootFlash
  <2>1. PICK i \in Rest \ flashed : /\ \A k \in Rest \ flashed : i <= k
                                    /\ committed' = committed \cup {i}
    BY <1>3 DEF FastbootFlash
  <2>2. StreamedDone /\ flashed \subseteq committed
    BY <1>3 DEF FastbootFlash, Safe, OrderInv
  <2>3. ASSUME NEW j \in DOMAIN Rank, Rank[j] < Rank[i]
        PROVE  j \in committed
    <3>1. CASE j \in {Misc} \cup Streamed
      BY <2>2, <3>1 DEF StreamedDone
    <3>2. CASE j \in Rest
      <4>1. Rank[j] = Boot + j /\ Rank[i] = Boot + i /\ i \in Nat /\ j \in Nat /\ Boot \in Nat
        BY <2>1, <3>2, Ranks, Positions
      <4>2. j < i
        BY <2>3, <4>1
      <4> QED BY <2>1, <2>2, <3>2, <4>1, <4>2
    <3> QED BY <3>1, <3>2, Ranks, Positions
  <2> QED BY <1>1, <1>3, <2>1, <2>3, CommitIsComplete, Positions DEF FastbootFlash
<1>4. CASE UNCHANGED <<committed, result>>
  BY <1>1, <1>4 DEF Promise!vars
<1>5. CASE Unreadable \/ OpenRefused \/ OpenTimeout \/ WriteError \/ ResendError \/ GiveUp
           \/ CloseRefused \/ CloseTimeout \/ AdbTimeout \/ FastbootFails
  <2>1. pc # "done" /\ committed' = committed /\ result' \in {result, "failed", "crashed"}
    BY <1>5 DEF Unreadable, OpenRefused, OpenTimeout, OpenFailed, ImageFailed, End,
       WriteError, NotAcknowledged, Retry, ResendError, GiveUp, CloseRefused, CloseTimeout,
       AdbTimeout, FastbootFails, devVars
  <2> QED BY <1>1, <2>1, FailureIsFail DEF OutcomeInv
<1>6. CASE (Reset \/ FastbootReboot) /\ result' = "ok"
  <2>1. pc # "done" /\ committed' = committed
    BY <1>6 DEF Reset, FastbootReboot, devVars
  <2>2. StreamedDone /\ Rest \subseteq flashed
    <3>1. CASE Reset
      <4>1. method = "streaming"
        BY <1>6, <2>1, <3>1 DEF Reset, OutcomeInv
      <4> QED BY <3>1, <4>1 DEF Reset, Safe, OrderInv, Rest, Streamed
    <3>2. CASE FastbootReboot
      BY <3>2 DEF FastbootReboot, Safe, OrderInv
    <3> QED BY <1>6, <3>1, <3>2
  <2> QED BY <1>1, <1>6, <2>1, <2>2, SuccessIsSucceed DEF OutcomeInv
<1> QED
  BY <1>2, <1>3, <1>4, <1>5, <1>6 DEF Next, Host, Module, vars, hostVars, devVars, End,
     Open, Opened, OpeningLog, WaitAgain, Write, Written, Resend, Close, Closed, Reset,
     AdbFound, FastbootReboot, DevOpen, DevWrite, DevReset, DevReject, DevLog

(* Partitions are completed in order, and success means all of them: the   *)
(* download implements PackageFlash.                                       *)
THEOREM Refinement == Spec => ImplementsPackageFlash
<1>1. Init => Promise!Init
  BY DEF Init, Promise!Init
<1>2. TypeOK /\ Safe /\ OutcomeInv /\ [Next]_vars => [Promise!Next]_(Promise!vars)
  BY StepIsPromised
<1> QED BY <1>1, <1>2, TypeCorrect, LinesSafe, OutcomeIsLast, PTL
        DEF Spec, ImplementsPackageFlash, Promise!Spec
=============================================================================
