----------------------------- MODULE TransportProofs -----------------------------
(***************************************************************************)
(* What is proved of Transport, for every header, cache, payload, crc and  *)
(* number of chunks: neither of send_packet's static buffers is written    *)
(* past its end if the sizes satisfy BuffersAssumption; the frame holds    *)
(* the packet that was composed; receive_packet reports the oldest frame,  *)
(* wherever the reads are cut, unless an old flag misled it, and unescapes *)
(* within its buffer; the firehose child talks to no module that is not in *)
(* emergency download as long as the devices stay as they are; a session   *)
(* that is closed while its reader waits leaves nothing behind; and each   *)
(* session hears its own reader's chunks, in order and with none missing.  *)
(***************************************************************************)
EXTENDS Transport, FiniteSetTheorems, TLAPS

(* What send_packet has written is at most twice what it has read, plus a  *)
(* flag before and, once it is done, one behind.                           *)
Escaping ==
    /\ transmit \in Seq(Payload)
    /\ Len(transmit) <= Header + Cache + 2
    /\ i \in Nat
    /\ send_tmp \in Seq(Nat)
    /\ fpc = "escape" => i <= Len(transmit) /\ Len(send_tmp) <= 1 + 2 * i
    /\ fpc # "escape" => Len(send_tmp) <= 2 * (Header + Cache + 2) + 2

(* A byte becomes at most two.                                             *)
LEMMA EscapedLength ==
  ASSUME NEW ch \in Nat, ch <= 255
  PROVE  Escaped(ch) \in Seq(Nat) /\ Len(Escaped(ch)) <= 2
<1>1. CASE ch \in {Flag, Esc}
  <2>1. Masked(ch) \in Nat
    BY <1>1 DEF Masked, Flag, Esc
  <2>2. Escaped(ch) = <<Esc, Masked(ch)>>
    BY <1>1 DEF Escaped
  <2> QED
    BY <2>1, <2>2 DEF Esc
<1>2. CASE ch \notin {Flag, Esc}
  <2>1. Escaped(ch) = <<ch>>
    BY <1>2 DEF Escaped
  <2> QED
    BY <2>1
<1> QED
  BY <1>1, <1>2

(* A packet that is composed fits g_Transmit_Buffer.                       *)
LEMMA ComposeKeeps ==
  ASSUME Escaping, Compose
  PROVE  Escaping'
<1>1. PICK n \in Header..(Header + Cache), c \in [1..2 -> Payload] :
        \E p \in [1..n -> Payload] :
           transmit' = [k \in 1..(n + 2) |-> IF k <= n THEN p[k] ELSE c[k - n]]
  BY DEF Compose
<1>2. PICK p \in [1..n -> Payload] :
        transmit' = [k \in 1..(n + 2) |-> IF k <= n THEN p[k] ELSE c[k - n]]
  BY <1>1
<1>3. n \in Nat /\ n + 2 \in Nat /\ n + 2 <= Header + Cache + 2
  BY FramingAssumption
<1>4. \A k \in 1..(n + 2) : (IF k <= n THEN p[k] ELSE c[k - n]) \in Payload
  <2> SUFFICES ASSUME NEW k \in 1..(n + 2)
               PROVE  (IF k <= n THEN p[k] ELSE c[k - n]) \in Payload
    OBVIOUS
  <2>1. CASE k <= n
    BY <2>1, <1>3
  <2>2. CASE ~(k <= n)
    <3>1. k - n \in 1..2
      BY <2>2, <1>3
    <3> QED
      BY <2>2, <3>1
  <2> QED
    BY <2>1, <2>2
<1>5. transmit' \in Seq(Payload) /\ Len(transmit') = n + 2
  BY <1>2, <1>3, <1>4
<1>6. send_tmp' \in Seq(Nat) /\ Len(send_tmp') <= 1
  <2>1. CASE send_tmp' = <<>>
    BY <2>1
  <2>2. CASE send_tmp' = <<Flag>>
    BY <2>2 DEF Flag
  <2> QED
    BY <2>1, <2>2 DEF Compose
<1>7. fpc' = "escape" /\ i' = 0
  BY DEF Compose
<1>8. i' \in Nat /\ i' <= Len(transmit') /\ Len(send_tmp') <= 1 + 2 * i'
  BY <1>3, <1>5, <1>6, <1>7
<1> QED
  BY <1>3, <1>5, <1>6, <1>7, <1>8 DEF Escaping

(* A byte that is read adds at most two bytes written.                     *)
LEMMA EscapeByteKeeps ==
  ASSUME Escaping, EscapeByte
  PROVE  Escaping'
<1>1. /\ i \in Nat /\ i < Len(transmit) /\ transmit \in Seq(Payload)
      /\ send_tmp \in Seq(Nat) /\ Len(send_tmp) <= 1 + 2 * i
  BY DEF EscapeByte, Escaping
<1>2. transmit[i + 1] \in Nat /\ transmit[i + 1] <= 255
  <2>1. transmit[i + 1] \in Payload
    BY <1>1
  <2>2. \A b \in Payload : b \in 0..255
    BY FramingAssumption
  <2>3. \A b \in 0..255 : b \in Nat /\ b <= 255
    OBVIOUS
  <2> QED
    BY <2>1, <2>2, <2>3
<1>3. PICK e : e = Escaped(transmit[i + 1])
  OBVIOUS
<1>4. e \in Seq(Nat) /\ Len(e) <= 2
  BY <1>2, <1>3, EscapedLength
<1>5. send_tmp' = send_tmp \o e
  BY <1>3 DEF EscapeByte
<1>6. send_tmp' \in Seq(Nat) /\ Len(send_tmp') = Len(send_tmp) + Len(e)
  BY <1>1, <1>4, <1>5
<1>7. Len(send_tmp') <= 1 + 2 * (i + 1)
  BY <1>1, <1>4, <1>6
<1> QED
  BY <1>1, <1>6, <1>7 DEF EscapeByte, Escaping

(* The closing flag is the last byte.                                      *)
LEMMA WritePacketKeeps ==
  ASSUME Escaping, WritePacket
  PROVE  Escaping'
<1>1. /\ i \in Nat /\ i <= Len(transmit) /\ transmit \in Seq(Payload)
      /\ Len(transmit) <= Header + Cache + 2
      /\ send_tmp \in Seq(Nat) /\ Len(send_tmp) <= 1 + 2 * i
  BY DEF WritePacket, Escaping
<1>2. send_tmp' \in Seq(Nat) /\ Len(send_tmp') = Len(send_tmp) + 1
  BY <1>1 DEF WritePacket, Flag
<1>3. Len(send_tmp') <= 2 * (Header + Cache + 2) + 2
  BY <1>1, <1>2, FramingAssumption
<1> QED
  BY <1>1, <1>2, <1>3 DEF WritePacket, Escaping

(* Receiving leaves the sending side alone, until the next call forgets    *)
(* what was sent.                                                          *)
LEMMA FramingKeeps ==
  ASSUME Escaping, FramingNext
  PROVE  Escaping'
<1> USE DEF outVars, inVars
<1>1. CASE Compose
  BY <1>1, ComposeKeeps
<1>2. CASE EscapeByte
  BY <1>2, EscapeByteKeeps
<1>3. CASE WritePacket
  BY <1>3, WritePacketKeeps
<1>4. CASE CallReceive
  <2>1. 0 <= 2 * (Header + Cache + 2) + 2 /\ 0 <= Header + Cache + 2
    BY FramingAssumption
  <2> QED
    BY <1>4, <2>1 DEF CallReceive, Escaping
<1>5. CASE FrameArrives \/ Timeout \/ Handled \/ Flush
  BY <1>5 DEF FrameArrives, Timeout, Handled, Flush, Escaping
<1>6. CASE Read
  <2>1. fpc = "receive" /\ UNCHANGED <<transmit, i, send_tmp>>
    BY <1>6 DEF Read
  <2>2. fpc' \in {"receive", "returned"}
    BY <1>6 DEF Read
  <2> QED
    BY <2>1, <2>2 DEF Escaping
<1> QED
  BY <1>1, <1>2, <1>3, <1>4, <1>5, <1>6 DEF FramingNext

(* The sending side keeps within these bounds in every reachable state.    *)
LEMMA EscapingHolds == Spec => []Escaping
<1>1. Init => Escaping
  <2>1. 0 <= 2 * (Header + Cache + 2) + 2 /\ 0 <= Header + Cache + 2
    BY FramingAssumption
  <2> QED
    BY <2>1 DEF Init, FramingInit, Escaping
<1>2. Escaping /\ [Next]_vars => Escaping'
  <2>1. ASSUME Escaping, UNCHANGED framingVars PROVE Escaping'
    BY <2>1 DEF Escaping, framingVars, outVars
  <2> QED
    BY <2>1, FramingKeeps DEF Next, vars
<1> QED
  BY <1>1, <1>2, PTL DEF Spec

(* send_packet never writes past the end of its buffers, whatever escapes. *)
THEOREM BuffersSuffice == Spec => []BuffersHold
<1>1. Escaping => BuffersHold
  <2> SUFFICES ASSUME Escaping PROVE BuffersHold
    OBVIOUS
  <2>1. Len(transmit) \in Nat /\ Len(send_tmp) \in Nat
    BY DEF Escaping
  <2>2. Len(transmit) <= TransmitSize
    BY <2>1, FramingAssumption, BuffersAssumption DEF Escaping
  <2>3. Len(send_tmp) <= SendTmpSize
    BY <2>1, FramingAssumption, BuffersAssumption DEF Escaping
  <2> QED
    BY <2>2, <2>3 DEF BuffersHold
<1> QED
  BY <1>1, EscapingHolds, PTL
-----------------------------------------------------------------------------
(* What quectel_find_usb_device makes of an empty record and a bus.        *)
FoundOn(b) == Scan(Zeroed, b)

(* The record is empty whenever a session looks for its device, and what   *)
(* it then finds is what the entry has seen, as long as nobody replugs.    *)
Looking ==
    /\ bpc \in {"entry", "open"} => ec20 = Zeroed
    /\ bpc = "use" /\ onTty => ec20 = Zeroed
    /\ bpc \notin {"use", "exit", "killed"} => ~onTty
    /\ bpc \in {"claim", "pair", "use"} /\ ~onTty => ec20.desc # 0
    /\ bpc \in {"claim", "pair", "use"} /\ ~onTty /\ ~replugged =>
          ec20.id = "edl" /\ ec20.ifaces = 1
    /\ bpc \notin {"entry", "exit", "killed"} /\ ~replugged =>
          FoundOn(bus).id = "edl" /\ FoundOn(bus).ifaces = 1

(* The main thread: the record is empty whenever a session looks for its   *)
(* device.                                                                 *)
LEMMA MainKeeps ==
  ASSUME Looking, Main
  PROVE  Looking'
<1> USE DEF worldVars, logVars, Looking, Zeroed
<1>1. CASE FindEc20
  <2>1. Find = FoundOn(bus)
    BY <1>1 DEF FindEc20, Find, FoundOn
  <2> QED
    BY <1>1, <2>1 DEF FindEc20, Stop
<1>2. CASE OpenTty
  BY <1>2 DEF OpenTty
<1>3. CASE OpenDevice
  <2>1. Find = FoundOn(bus)
    BY <1>3 DEF OpenDevice, Find, FoundOn
  <2> QED
    BY <1>3, <2>1 DEF OpenDevice, Stop
<1>4. CASE Claim
  BY <1>4 DEF Claim, Stop
<1>5. CASE StartReader
  BY <1>5 DEF StartReader
<1>6. CASE ReadSocket \/ ReadTty
  BY <1>6 DEF ReadSocket, ReadTty
<1>7. CASE GiveUp
  BY <1>7 DEF GiveUp, Stop
<1>8. CASE CloseTty
  BY <1>8 DEF CloseTty, NextSession
<1>9. CASE CloseRelease \/ CloseNear \/ CloseFar
  BY <1>9 DEF CloseRelease, CloseNear, CloseFar
<1>10. CASE CloseClear
  BY <1>10 DEF CloseClear, NextSession
<1> QED
  BY <1>1, <1>2, <1>3, <1>4, <1>5, <1>6, <1>7, <1>8, <1>9, <1>10 DEF Main

(* Readers, module and user do not write the record.                       *)
LEMMA OthersKeep ==
  ASSUME Looking, (\E s \in 1..2 : Reader(s)) \/ ChunkArrives \/ Replug
  PROVE  Looking'
<1> USE DEF worldVars, logVars, Looking
<1>1. ASSUME NEW s \in 1..2, Reader(s) PROVE Looking'
  BY <1>1 DEF Reader, TestDesc, IssueRead, ReadReturns, TestAgain, Put
<1>2. CASE ChunkArrives
  BY <1>2 DEF ChunkArrives
<1>3. CASE Replug
  BY <1>3 DEF Replug
<1> QED
  BY <1>1, <1>2, <1>3

(* The record and the bus agree in every reachable state.                  *)
LEMMA LookingHolds == Spec => []Looking
<1>1. Init => Looking
  BY DEF Init, BridgeInit, Looking, Zeroed
<1>2. Looking /\ [Next]_vars => Looking'
  <2>1. ASSUME Looking, UNCHANGED bridgeVars PROVE Looking'
    BY <2>1 DEF Looking, bridgeVars
  <2> QED
    BY <2>1, MainKeeps, OthersKeep DEF Next, vars, BridgeNext
<1> QED
  BY <1>1, <1>2, PTL DEF Spec

(* Both sessions of the child talk to a module in emergency download only, *)
(* although only the entry has looked at the ids.                          *)
THEOREM EmergencyOnly == Spec => []SessionsAreEmergency
<1>1. Looking => SessionsAreEmergency
  BY DEF Looking, SessionsAreEmergency
<1> QED
  BY <1>1, LookingHolds, PTL
-----------------------------------------------------------------------------
(* The shape of the bridge's state, the record aside, and which sessions   *)
(* there are at which place.                                               *)
BridgeTypes ==
    /\ file \in [{Near, Far, Dev} -> 0..2]
    /\ holder \in 0..2
    /\ sessions \in 0..2
    /\ bpc \in {"entry", "open", "claim", "pair", "use", "near", "far", "clear",
                "exit", "killed"}
    /\ bpc = "entry" => sessions = 0
    /\ bpc = "open" => sessions # 2
    /\ bpc \in {"claim", "pair", "use", "near", "far", "clear"} => sessions # 0
    /\ reader \in [1..2 -> [pc : {"none", "test", "issue", "reading", "got", "put", "end"},
                            file : 0..2, buf : 0..MaxChunks]]
    /\ \A s \in 1..2 : s > sessions => reader[s].pc = "none" /\ heard[s] = <<>>
    /\ \A s \in 1..2 : reader[s].pc \in {"got", "put"} => reader[s].buf \in Chunks
    /\ sock \in Seq([n : Chunks, by : 1..2])
    /\ toHost \in Seq(Chunks)
    /\ sent \in 0..MaxChunks
    /\ heard \in [1..2 -> Seq([n : Chunks, by : 1..2])]

Active(s) == reader[s].pc \notin {"none", "end"}

(* If every session that was closed found its reader waiting for data, the *)
(* only reader at work is the one of the session that is open, the record  *)
(* and the descriptors are that session's while it works, and interface    *)
(* and socket are left behind as they were found.                          *)
Quiet ==
    /\ \A s \in 1..2 : Active(s) => s = sessions /\ ~onTty /\ bpc \in {"use", "exit"}
    /\ bpc = "use" /\ ~onTty =>
          ec20.far = Far /\ \A n \in {Near, Far, Dev} : file[n] = sessions
    /\ bpc \in {"claim", "pair"} => file[Dev] = sessions
    /\ stray = {} /\ bpc # "killed"
    /\ holder \in {0, sessions}
    /\ bpc \in {"entry", "open", "near", "far", "clear"} \/ onTty => holder = 0
    /\ bpc \in {"entry", "open", "claim", "pair", "far", "clear"} \/ onTty => sock = <<>>

CleanInv == quiet => Quiet

(* Chunks leave the module in the order of their numbers, and reach the    *)
(* main thread in that order.                                              *)
UpTo(p, n) == Len(p) <= n /\ \A k \in 1..Len(p) : p[k] = n - Len(p) + k

InModule ==
    /\ UpTo(toHost, sent)
    /\ sessions = 0 /\ ~replugged => Len(toHost) = sent

OwnChunks ==
    quiet => /\ \A k \in 1..Len(sock) : sock[k].by = sessions
             /\ \A s \in 1..2 : \A k \in 1..Len(heard[s]) : heard[s][k].by = s

Whole ==
    /\ UpTo(Pending(sessions), sent)
    /\ sessions = 1 => Len(Pending(sessions)) = sent

Stream ==
    /\ InModule
    /\ OwnChunks
    /\ quiet /\ ~full /\ ~replugged /\ bpc \in {"claim", "pair", "use"} => Whole

(* A chunk taken from the head of a queue, or put behind its end.          *)
LEMMA QueueTypes ==
  ASSUME NEW S, NEW q \in Seq(S), NEW c \in S
  PROVE  /\ Append(q, c) \in Seq(S)
         /\ q # <<>> => Head(q) \in S /\ Tail(q) \in Seq(S)
  OBVIOUS

(* The main thread opens at most two sessions.                             *)
LEMMA MainTypes ==
  ASSUME BridgeTypes, Main
  PROVE  BridgeTypes'
<1> DEFINE Chunk == [n : Chunks, by : 1..2]
<1> USE DEF worldVars, logVars
<1>1. CASE FindEc20
  BY <1>1 DEF FindEc20, Stop, BridgeTypes
<1>2. CASE OpenTty
  BY <1>2 DEF OpenTty, BridgeTypes
<1>3. CASE OpenDevice
  <2>1. CASE Find.desc # 0
    <3>1. /\ file' = [file EXCEPT ![Dev] = sessions + 1] /\ sessions' = sessions + 1
          /\ sessions' \in 1..2 /\ bpc' = "claim"
      BY <1>3, <2>1 DEF OpenDevice, BridgeTypes
    <3>2. file' \in [{Near, Far, Dev} -> 0..2]
      BY <3>1 DEF BridgeTypes
    <3> QED
      BY <1>3, <3>1, <3>2 DEF OpenDevice, BridgeTypes
  <2>2. CASE ~(Find.desc # 0)
    BY <1>3, <2>2 DEF OpenDevice, Stop, BridgeTypes
  <2> QED
    BY <2>1, <2>2
<1>4. CASE Claim
  BY <1>4 DEF Claim, Stop, BridgeTypes
<1>5. CASE StartReader
  <2>1. sessions \in 1..2 /\ sock' = <<>> /\ bpc' = "use"
    BY <1>5 DEF StartReader, BridgeTypes
  <2>2. file' \in [{Near, Far, Dev} -> 0..2]
    BY <1>5, <2>1 DEF StartReader, BridgeTypes, Near, Far, Dev
  <2>3. reader' = [reader EXCEPT ![sessions] = [NoReader EXCEPT !.pc = "test"]]
    BY <1>5 DEF StartReader
  <2>4. [NoReader EXCEPT !.pc = "test"]
          \in [pc : {"none", "test", "issue", "reading", "got", "put", "end"},
               file : 0..2, buf : 0..MaxChunks]
    BY BridgeAssumption DEF NoReader
  <2>5. reader' \in [1..2 -> [pc : {"none", "test", "issue", "reading", "got", "put", "end"},
                              file : 0..2, buf : 0..MaxChunks]]
    BY <2>1, <2>3, <2>4 DEF BridgeTypes
  <2>6. /\ \A s \in 1..2 : s # sessions => reader'[s] = reader[s]
        /\ reader'[sessions].pc = "test"
    BY <2>1, <2>3 DEF BridgeTypes
  <2> QED
    BY <1>5, <2>1, <2>2, <2>5, <2>6 DEF StartReader, BridgeTypes
<1>6. ASSUME NEW c \in Chunk, Heard(c), sessions # 0,
             sock' \in Seq(Chunk), toHost' \in Seq(Chunks),
             UNCHANGED <<file, holder, sessions, bpc, reader, sent>>
      PROVE  BridgeTypes'
  <2>1. sessions \in 1..2 /\ heard \in [1..2 -> Seq(Chunk)]
    BY <1>6 DEF BridgeTypes
  <2>2. heard' = [heard EXCEPT ![sessions] = Append(heard[sessions], c)]
    BY <1>6 DEF Heard
  <2>3. Append(heard[sessions], c) \in Seq(Chunk)
    BY <1>6, <2>1, QueueTypes
  <2>4. heard' \in [1..2 -> Seq(Chunk)]
    BY <2>1, <2>2, <2>3
  <2>5. \A s \in 1..2 : s > sessions => heard'[s] = heard[s]
    BY <2>1, <2>2
  <2> QED
    BY <1>6, <2>1, <2>4, <2>5 DEF BridgeTypes
<1>7. CASE ReadSocket
  <2>1. sock \in Seq(Chunk) /\ sock # <<>> /\ toHost \in Seq(Chunks) /\ sessions # 0
    BY <1>7 DEF ReadSocket, BridgeTypes
  <2>2. Head(sock) \in Chunk /\ Tail(sock) \in Seq(Chunk)
    <3> HIDE DEF Chunk
    <3> QED
      BY <2>1, QueueTypes
  <2> QED
    BY <1>6, <1>7, <2>1, <2>2 DEF ReadSocket
<1>8. CASE ReadTty
  <2>1. sock \in Seq(Chunk) /\ toHost # <<>> /\ toHost \in Seq(Chunks) /\ sessions \in 1..2
    BY <1>8 DEF ReadTty, BridgeTypes
  <2>2. Head(toHost) \in Chunks /\ Tail(toHost) \in Seq(Chunks)
    BY <2>1
  <2>3. [n |-> Head(toHost), by |-> sessions] \in Chunk
    BY <2>1, <2>2
  <2>4. /\ Heard([n |-> Head(toHost), by |-> sessions]) /\ sock' = sock
        /\ toHost' = Tail(toHost)
        /\ UNCHANGED <<file, holder, sessions, bpc, reader, sent>>
    BY <1>8 DEF ReadTty
  <2> QED
    BY <1>6, <2>1, <2>2, <2>3, <2>4
<1>9. CASE GiveUp
  BY <1>9 DEF GiveUp, Stop, BridgeTypes
<1>10. CASE CloseTty
  BY <1>10 DEF CloseTty, NextSession, BridgeTypes
<1>11. CASE CloseRelease
  <2>1. /\ reader' = [s \in 1..2 |-> IF Waits(s) THEN [reader[s] EXCEPT !.pc = "end"]
                                                 ELSE reader[s]]
        /\ bpc' = "near" /\ holder' \in {0, holder}
        /\ UNCHANGED <<file, sessions, sock, toHost, sent, heard>> /\ bpc = "use"
    BY <1>11 DEF CloseRelease
  <2>2. reader' \in [1..2 -> [pc : {"none", "test", "issue", "reading", "got", "put", "end"},
                              file : 0..2, buf : 0..MaxChunks]]
    BY <2>1 DEF BridgeTypes
  <2>3. \A s \in 1..2 : /\ reader[s].pc = "none" => reader'[s].pc = "none"
                        /\ reader'[s].pc \in {"got", "put"} => reader'[s] = reader[s]
    BY <2>1 DEF Waits, BridgeTypes
  <2> QED
    BY <2>1, <2>2, <2>3 DEF BridgeTypes
<1>12. CASE CloseNear
  BY <1>12 DEF CloseNear, BridgeTypes
<1>13. CASE CloseFar
  BY <1>13 DEF CloseFar, BridgeTypes
<1>14. CASE CloseClear
  <2>1. file' \in [{Near, Far, Dev} -> 0..2] /\ holder' \in 0..2
    BY <1>14 DEF CloseClear, BridgeTypes
  <2>2. /\ bpc' \in {"open", "exit"} /\ (bpc' = "open" => sessions = 1)
        /\ UNCHANGED <<sessions, reader, sock, toHost, sent, heard>>
    BY <1>14 DEF CloseClear, NextSession
  <2> QED
    BY <2>1, <2>2 DEF BridgeTypes
<1> QED
  BY <1>1, <1>2, <1>3, <1>4, <1>5, <1>7, <1>8, <1>9, <1>10, <1>11, <1>12, <1>13, <1>14 DEF Main

(* Where a reader may go, what it holds and what it leaves alone.          *)
ReaderRecords == [pc : {"none", "test", "issue", "reading", "got", "put", "end"},
                  file : 0..2, buf : 0..MaxChunks]

LEMMA ReaderTypes ==
  ASSUME BridgeTypes, NEW s \in 1..2, Reader(s)
  PROVE  BridgeTypes'
<1> USE DEF worldVars, logVars
<1>1. reader \in [1..2 -> ReaderRecords] /\ reader[s].pc # "none" /\ s <= sessions
  <2>1. reader[s].pc # "none"
    BY DEF Reader, TestDesc, IssueRead, ReadReturns, TestAgain, Put, At
  <2> QED
    BY <2>1 DEF BridgeTypes, ReaderRecords
<1>2. ASSUME reader' \in [1..2 -> ReaderRecords],
             \A t \in 1..2 : t # s => reader'[t] = reader[t],
             reader'[s].pc \in {"got", "put"} => reader'[s].buf \in Chunks,
             holder' \in 0..2, bpc' \in {bpc, "killed"},
             sock' \in Seq([n : Chunks, by : 1..2]), toHost' \in Seq(Chunks),
             UNCHANGED <<file, sessions, sent, heard>>
      PROVE  BridgeTypes'
  BY <1>1, <1>2 DEF BridgeTypes, ReaderRecords
<1>3. ASSUME NEW p \in {"test", "issue", "put", "end"}, Goto(s, p)
      PROVE  /\ reader' \in [1..2 -> ReaderRecords]
             /\ \A t \in 1..2 : t # s => reader'[t] = reader[t]
             /\ reader'[s].pc = p /\ reader'[s].buf = reader[s].buf
  BY <1>1, <1>3 DEF Goto, ReaderRecords
<1>4. /\ holder \in 0..2 /\ sock \in Seq([n : Chunks, by : 1..2]) /\ toHost \in Seq(Chunks)
      /\ file \in [{Near, Far, Dev} -> 0..2]
      /\ reader[s].pc \in {"got", "put"} => reader[s].buf \in Chunks
  BY DEF BridgeTypes
<1>5. CASE TestDesc(s)
  <2>1. PICK p \in {"issue", "end"} : Goto(s, p)
    BY <1>5 DEF TestDesc
  <2> QED
    BY <1>2, <1>3, <1>4, <1>5, <2>1 DEF TestDesc
<1>6. CASE IssueRead(s)
  <2> DEFINE f == IF ec20.desc = 0 THEN 0 ELSE file[Dev]
  <2>1. f \in 0..2
    BY <1>4
  <2>2. CASE f > gone /\ holder \in {0, f}
    <3>1. reader' = [reader EXCEPT ![s].pc = "reading", ![s].file = f] /\ holder' = f
          /\ UNCHANGED <<bpc, sock, toHost, file, sessions, sent, heard>>
      BY <1>6, <2>2 DEF IssueRead
    <3> HIDE DEF f
    <3>2. /\ reader' \in [1..2 -> ReaderRecords]
          /\ \A t \in 1..2 : t # s => reader'[t] = reader[t]
          /\ reader'[s].pc = "reading"
      BY <1>1, <2>1, <3>1 DEF ReaderRecords
    <3> QED
      BY <1>2, <1>4, <2>1, <3>1, <3>2
  <2>3. CASE ~(f > gone /\ holder \in {0, f})
    <3>1. Goto(s, "end") /\ UNCHANGED <<holder, bpc, sock, toHost, file, sessions, sent, heard>>
      BY <1>6, <2>3 DEF IssueRead
    <3> QED
      BY <1>2, <1>3, <1>4, <3>1
  <2> QED
    BY <2>2, <2>3
<1>7. CASE ReadReturns(s)
  <2>1. /\ toHost # <<>> /\ toHost' = Tail(toHost) /\ Drop(reader[s].file)
        /\ reader' = [reader EXCEPT ![s].pc = "got", ![s].buf = Head(toHost)]
        /\ UNCHANGED <<bpc, sock, file, sessions, sent, heard>>
    BY <1>7 DEF ReadReturns
  <2>2. Head(toHost) \in Chunks /\ Tail(toHost) \in Seq(Chunks)
    BY <1>4, <2>1, QueueTypes
  <2>3. Head(toHost) \in 0..MaxChunks
    BY <2>2, BridgeAssumption DEF Chunks
  <2>4. /\ reader' \in [1..2 -> ReaderRecords]
        /\ \A t \in 1..2 : t # s => reader'[t] = reader[t]
        /\ reader'[s].buf = Head(toHost)
    BY <1>1, <2>1, <2>3 DEF ReaderRecords
  <2>5. holder' \in 0..2
    BY <1>4, <2>1 DEF Drop
  <2> QED
    BY <1>2, <1>4, <2>1, <2>2, <2>4, <2>5
<1>8. CASE TestAgain(s)
  <2>1. PICK p \in {"put", "end"} : Goto(s, p)
    BY <1>8 DEF TestAgain
  <2> QED
    BY <1>2, <1>3, <1>4, <1>8, <2>1 DEF TestAgain, At
<1>9. CASE Put(s)
  <2> DEFINE c == [n |-> reader[s].buf, by |-> s]
  <2>1. Goto(s, "test") /\ bpc' \in {bpc, "killed"} /\ sock' \in {sock, Append(sock, c)}
        /\ UNCHANGED <<holder, toHost, file, sessions, sent, heard>>
    BY <1>9 DEF Put
  <2>2. c \in [n : Chunks, by : 1..2]
    BY <1>4, <1>9 DEF Put, At
  <2>3. sock' \in Seq([n : Chunks, by : 1..2])
    <3> DEFINE Chunk == [n : Chunks, by : 1..2]
    <3>1. c \in Chunk /\ sock \in Seq(Chunk)
      BY <1>4, <2>2
    <3> HIDE DEF c, Chunk
    <3>2. Append(sock, c) \in Seq(Chunk)
      BY <3>1, QueueTypes
    <3> QED
      BY <2>1, <3>1, <3>2 DEF Chunk
  <2>4. /\ reader' \in [1..2 -> ReaderRecords]
        /\ \A t \in 1..2 : t # s => reader'[t] = reader[t]
        /\ reader'[s].pc = "test"
    BY <1>3, <2>1
  <2> QED
    BY <1>2, <1>4, <2>1, <2>3, <2>4
<1> QED
  BY <1>5, <1>6, <1>7, <1>8, <1>9 DEF Reader

(* The module adds a chunk, or is gone with all it held.                   *)
LEMMA OutsideTypes ==
  ASSUME BridgeTypes, ChunkArrives \/ Replug
  PROVE  BridgeTypes'
<1> USE DEF worldVars, logVars
<1>1. CASE ChunkArrives
  <2>1. sent + 1 \in Chunks /\ sent' = sent + 1 /\ toHost' = Append(toHost, sent + 1)
    BY <1>1, BridgeAssumption DEF ChunkArrives, BridgeTypes, Chunks
  <2>2. toHost' \in Seq(Chunks) /\ sent' \in 0..MaxChunks
    BY <2>1, BridgeAssumption, QueueTypes DEF BridgeTypes, Chunks
  <2> QED
    BY <1>1, <2>2 DEF ChunkArrives, BridgeTypes
<1>2. CASE Replug
  <2>1. reader' = [s \in 1..2 |-> IF reader[s].pc = "reading"
                                  THEN [reader[s] EXCEPT !.pc = "end"] ELSE reader[s]]
    BY <1>2 DEF Replug
  <2>2. reader' \in [1..2 -> ReaderRecords]
    BY <2>1 DEF BridgeTypes, ReaderRecords
  <2>3. \A s \in 1..2 : /\ reader[s].pc = "none" => reader'[s].pc = "none"
                        /\ reader'[s].pc \in {"got", "put"} => reader'[s] = reader[s]
    BY <2>1 DEF BridgeTypes
  <2>4. /\ toHost' = <<>> /\ holder' = 0
        /\ UNCHANGED <<sent, file, sessions, bpc, sock, heard>>
    BY <1>2 DEF Replug
  <2>5. toHost' \in Seq(Chunks) /\ holder' \in 0..2
    BY <2>4
  <2> QED
    BY <2>2, <2>3, <2>4, <2>5 DEF BridgeTypes, ReaderRecords
<1> QED
  BY <1>1, <1>2

(* The main thread leaves a clean bridge behind if it closes one whose     *)
(* reader waits.                                                           *)
LEMMA MainKeepsClean ==
  ASSUME BridgeTypes, Looking, CleanInv, Main, quiet'
  PROVE  Quiet'
<1> USE DEF worldVars, logVars
<1>1. quiet /\ Quiet
  BY DEF CleanInv, Main, FindEc20, OpenTty, OpenDevice, Claim, StartReader, ReadSocket,
         ReadTty, GiveUp, CloseTty, CloseRelease, CloseNear, CloseFar, CloseClear
<1>2. CASE FindEc20
  BY <1>1, <1>2 DEF FindEc20, Stop, Quiet, Active
<1>3. CASE OpenTty
  BY <1>1, <1>3 DEF OpenTty, Quiet, Active
<1>4. CASE OpenDevice
  BY <1>1, <1>4 DEF OpenDevice, Stop, Quiet, Active, BridgeTypes
<1>5. CASE Claim
  BY <1>1, <1>5 DEF Claim, Stop, Looking, Quiet, Active
<1>6. CASE StartReader
  <2>1. ~onTty /\ sessions \in 1..2
    BY <1>6 DEF StartReader, Looking, BridgeTypes
  <2>2. /\ ec20'.far = Far /\ \A n \in {Near, Far, Dev} : file'[n] = sessions
        /\ sock' = <<>> /\ bpc' = "use"
        /\ UNCHANGED <<onTty, sessions, holder, stray>>
    BY <1>1, <1>6 DEF StartReader, Quiet, BridgeTypes, Near, Far, Dev
  <2>3. \A s \in 1..2 : s # sessions => reader'[s] = reader[s]
    BY <1>6 DEF StartReader, BridgeTypes
  <2>4. \A s \in 1..2 : reader'[s].pc \notin {"none", "end"} => s = sessions
    BY <1>1, <1>6, <2>3 DEF StartReader, Quiet, Active
  <2> QED
    BY <1>1, <2>1, <2>2, <2>4 DEF Quiet, Active
<1>7. CASE ReadSocket
  BY <1>1, <1>7 DEF ReadSocket, Quiet, Active
<1>8. CASE ReadTty
  BY <1>1, <1>8 DEF ReadTty, Quiet, Active
<1>9. CASE GiveUp
  BY <1>1, <1>9 DEF GiveUp, Stop, Quiet, Active
<1>10. CASE CloseTty
  <2>1. onTty
    BY <1>10 DEF CloseTty, Looking
  <2> QED
    BY <1>1, <1>10, <2>1 DEF CloseTty, NextSession, Quiet, Active
<1>11. CASE CloseRelease
  <2>1. \A s \in 1..sessions : Waits(s) \/ reader[s].pc \in {"none", "end"}
    BY <1>11 DEF CloseRelease
  <2>2. \A s \in 1..2 : Waits(s) \/ reader[s].pc \in {"none", "end"}
    BY <2>1 DEF BridgeTypes
  <2>3. \A s \in 1..2 : reader'[s].pc \in {"none", "end"}
    BY <1>11, <2>2 DEF CloseRelease, BridgeTypes
  <2>4. ~onTty
    BY <1>11 DEF CloseRelease, Looking, Zeroed
  <2>5. /\ holder' = 0 /\ bpc' = "near"
        /\ UNCHANGED <<ec20, file, sessions, onTty, sock, stray>>
    BY <1>1, <1>11 DEF CloseRelease, Quiet
  <2> QED
    BY <1>1, <2>3, <2>4, <2>5 DEF Quiet, Active
<1>12. CASE CloseNear
  BY <1>1, <1>12 DEF CloseNear, Quiet, Active
<1>13. CASE CloseFar
  BY <1>1, <1>13 DEF CloseFar, Quiet, Active
<1>14. CASE CloseClear
  BY <1>1, <1>14 DEF CloseClear, NextSession, Quiet, Active
<1> QED
  BY <1>2, <1>3, <1>4, <1>5, <1>6, <1>7, <1>8, <1>9, <1>10, <1>11, <1>12, <1>13, <1>14 DEF Main

(* Such a reader works for the session that is open, with its record and   *)
(* its descriptors.                                                        *)
LEMMA ReaderIsOwn ==
  ASSUME BridgeTypes, Looking, CleanInv, quiet, NEW s \in 1..2, Reader(s)
  PROVE  /\ s = sessions /\ ~onTty /\ bpc = "use" /\ ec20.desc # 0 /\ ec20.far = Far
         /\ \A n \in {Near, Far, Dev} : file[n] = s
<1>1. Active(s) /\ bpc # "exit"
  BY DEF Reader, TestDesc, IssueRead, ReadReturns, TestAgain, Put, At, Running, Active
<1> QED
  BY <1>1 DEF CleanInv, Quiet, Looking

(* So it writes into its own socket, and claims the interface for its own  *)
(* session only.                                                           *)
LEMMA ReaderKeepsClean ==
  ASSUME BridgeTypes, Looking, CleanInv, NEW s \in 1..2, Reader(s), quiet'
  PROVE  Quiet'
<1> USE DEF worldVars, logVars
<1>1. quiet /\ Quiet
  BY DEF CleanInv, Reader, TestDesc, IssueRead, ReadReturns, TestAgain, Put
<1>2. /\ s = sessions /\ ~onTty /\ bpc = "use" /\ ec20.desc # 0 /\ ec20.far = Far
      /\ \A n \in {Near, Far, Dev} : file[n] = s
      /\ holder \in {0, sessions}
  BY <1>1, ReaderIsOwn DEF Quiet
<1>3. UNCHANGED <<ec20, file, sessions, onTty>> /\ \A t \in 1..2 : t # s => reader'[t] = reader[t]
  BY DEF BridgeTypes, Reader, TestDesc, IssueRead, ReadReturns, TestAgain, Put, Goto
<1>4. holder' \in {0, sessions} /\ stray' = stray /\ bpc' = "use"
  <2>1. CASE TestDesc(s) \/ TestAgain(s)
    BY <1>1, <1>2, <2>1 DEF TestDesc, TestAgain, Quiet
  <2>2. CASE IssueRead(s)
    BY <1>1, <1>2, <2>2 DEF IssueRead, Quiet
  <2>3. CASE ReadReturns(s)
    BY <1>1, <1>2, <2>3 DEF ReadReturns, Drop, Quiet
  <2>4. CASE Put(s)
    <3>1. file[Near] # 0
      BY <1>2
    <3> QED
      BY <1>2, <2>4, <3>1 DEF Put, Far
  <2> QED
    BY <2>1, <2>2, <2>3, <2>4 DEF Reader
<1>5. \A t \in 1..2 : t # s => ~Active(t)
  BY <1>1, <1>2 DEF Quiet
<1> QED
  BY <1>1, <1>2, <1>3, <1>4, <1>5 DEF Quiet, Active

(* Module and user change nothing of this.                                 *)
LEMMA OutsideKeepsClean ==
  ASSUME BridgeTypes, CleanInv, ChunkArrives \/ Replug, quiet'
  PROVE  Quiet'
<1> USE DEF worldVars, logVars
<1>1. quiet /\ Quiet
  BY DEF CleanInv, ChunkArrives, Replug
<1>2. CASE ChunkArrives
  BY <1>1, <1>2 DEF ChunkArrives, Quiet, Active
<1>3. CASE Replug
  <2>1. \A s \in 1..2 : reader'[s].pc \in {reader[s].pc, "end"}
    BY <1>3 DEF Replug, BridgeTypes
  <2> QED
    BY <1>1, <1>3, <2>1 DEF Replug, Quiet, Active
<1> QED
  BY <1>2, <1>3

(* What the bridge's readers and sessions keep in every reachable state.   *)
LEMMA BridgeHolds == Spec => [](BridgeTypes /\ Looking /\ CleanInv)
<1>1. Init => BridgeTypes /\ CleanInv
  <2> SUFFICES ASSUME Init PROVE BridgeTypes /\ CleanInv
    OBVIOUS
  <2>1. BridgeInit
    BY DEF Init
  <2>2. \A s \in 1..2 : reader[s] = NoReader /\ heard[s] = <<>>
    BY <2>1 DEF BridgeInit
  <2>3. NoReader \in ReaderRecords /\ NoReader.pc = "none"
    BY BridgeAssumption DEF NoReader, ReaderRecords
  <2>4. reader \in [1..2 -> ReaderRecords]
    BY <2>1, <2>3 DEF BridgeInit
  <2>5. heard \in [1..2 -> Seq([n : Chunks, by : 1..2])]
    BY <2>1 DEF BridgeInit
  <2>6. BridgeTypes
    BY <2>1, <2>2, <2>3, <2>4, <2>5, BridgeAssumption DEF BridgeInit, BridgeTypes, ReaderRecords
  <2>7. Quiet
    BY <2>1, <2>2, <2>3 DEF BridgeInit, Quiet, Active
  <2> QED
    BY <2>6, <2>7 DEF CleanInv
<1>2. BridgeTypes /\ Looking /\ CleanInv /\ [Next]_vars => BridgeTypes' /\ CleanInv'
  <2> SUFFICES ASSUME BridgeTypes, Looking, CleanInv, [Next]_vars
               PROVE  BridgeTypes' /\ CleanInv'
    OBVIOUS
  <2>1. CASE UNCHANGED bridgeVars
    BY <2>1 DEF bridgeVars, BridgeTypes, CleanInv, Quiet, Active
  <2>2. CASE Main
    BY <2>2, MainTypes, MainKeepsClean DEF CleanInv
  <2>3. ASSUME NEW s \in 1..2, Reader(s) PROVE BridgeTypes' /\ CleanInv'
    BY <2>3, ReaderTypes, ReaderKeepsClean DEF CleanInv
  <2>4. CASE ChunkArrives \/ Replug
    BY <2>4, OutsideTypes, OutsideKeepsClean DEF CleanInv
  <2> QED
    BY <2>1, <2>2, <2>3, <2>4 DEF Next, vars, BridgeNext
<1> QED
  BY <1>1, <1>2, LookingHolds, PTL DEF Spec

(* A session that is closed while its reader waits writes no chunk to a    *)
(* foreign descriptor, is not ended by a signal and leaves the interface   *)
(* free, whichever of the steps of the two threads come between.           *)
THEOREM QuietCloseLeavesNothing == Spec => []QuietCloseIsClean
<1>1. CleanInv => QuietCloseIsClean
  BY DEF CleanInv, Quiet, QuietCloseIsClean
<1> QED
  BY <1>1, BridgeHolds, PTL

-----------------------------------------------------------------------------
(* A number that moves from the head of one queue to the end of the one    *)
(* before it stays where it is.                                            *)
LEMMA Moves ==
  ASSUME NEW S, NEW a \in Seq(S), NEW b \in Seq(S)
  PROVE  b # <<>> => Append(a, Head(b)) \o Tail(b) = a \o b
<1> SUFFICES ASSUME b # <<>> PROVE Append(a, Head(b)) \o Tail(b) = a \o b
  OBVIOUS
<1> DEFINE x == Append(a, Head(b)) \o Tail(b)
           y == a \o b
<1>1. Head(b) \in S /\ Tail(b) \in Seq(S) /\ Len(Tail(b)) = Len(b) - 1 /\ Len(b) >= 1
      /\ Len(a) \in Nat /\ Len(b) \in Nat
  OBVIOUS
<1>2. Append(a, Head(b)) \in Seq(S) /\ Len(Append(a, Head(b))) = Len(a) + 1
  BY <1>1
<1>3. x \in Seq(S) /\ y \in Seq(S) /\ Len(x) = Len(a) + Len(b) /\ Len(y) = Len(a) + Len(b)
  BY <1>1, <1>2
<1>4. ASSUME NEW k \in 1..Len(y) PROVE x[k] = y[k]
  <2>1. CASE k <= Len(a)
    BY <1>1, <1>2, <1>3, <2>1
  <2>2. CASE k = Len(a) + 1
    BY <1>1, <1>2, <1>3, <2>2
  <2>3. CASE k > Len(a) + 1
    BY <1>1, <1>2, <1>3, <2>3
  <2> QED
    BY <1>1, <1>3, <2>1, <2>2, <2>3
<1> HIDE DEF x, y
<1>5. x = y
  BY <1>3, <1>4
<1> QED
  BY <1>5 DEF x, y

(* The numbers of a queue of chunks.                                       *)
LEMMA NumbersType ==
  ASSUME NEW q \in Seq([n : Chunks, by : 1..2])
  PROVE  /\ Numbers(q) \in Seq(Chunks) /\ Len(Numbers(q)) = Len(q)
         /\ \A k \in 1..Len(q) : Numbers(q)[k] = q[k].n
<1> DEFINE Chunk == [n : Chunks, by : 1..2]
<1>1. q \in Seq(Chunk) /\ \A d \in Chunk : d.n \in Chunks
  OBVIOUS
<1> HIDE DEF Chunk
<1>2. Len(q) \in Nat /\ \A k \in 1..Len(q) : q[k] \in Chunk
  BY <1>1
<1> QED
  BY <1>1, <1>2 DEF Numbers

(* Numbers go along with their chunks.                                     *)
LEMMA NumbersMove ==
  ASSUME NEW q \in Seq([n : Chunks, by : 1..2]), NEW c \in [n : Chunks, by : 1..2]
  PROVE  /\ Numbers(q) \in Seq(Chunks)
         /\ Numbers(Append(q, c)) = Append(Numbers(q), c.n)
         /\ q # <<>> => /\ Numbers(q) # <<>>
                        /\ Head(Numbers(q)) = Head(q).n
                        /\ Numbers(Tail(q)) = Tail(Numbers(q))
<1> DEFINE Chunk == [n : Chunks, by : 1..2]
<1>1. q \in Seq(Chunk) /\ c \in Chunk /\ \A d \in Chunk : d.n \in Chunks
  OBVIOUS
<1> HIDE DEF Chunk
<1>2. /\ Len(q) \in Nat /\ Len(Append(q, c)) = Len(q) + 1
      /\ \A k \in 1..(Len(q) + 1) :
            Append(q, c)[k] = IF k <= Len(q) THEN q[k] ELSE c
      /\ \A k \in 1..Len(q) : q[k] \in Chunk
  BY <1>1
<1>3. Numbers(q) \in Seq(Chunks) /\ Len(Numbers(q)) = Len(q)
      /\ \A k \in 1..Len(q) : Numbers(q)[k] = q[k].n
  BY NumbersType
<1>4. Numbers(Append(q, c)) = Append(Numbers(q), c.n)
  <2>1. Numbers(Append(q, c)) = [k \in 1..(Len(q) + 1) |-> (IF k <= Len(q) THEN q[k] ELSE c).n]
    BY <1>2 DEF Numbers
  <2>2. Append(Numbers(q), c.n)
          = [k \in 1..(Len(q) + 1) |-> IF k <= Len(q) THEN Numbers(q)[k] ELSE c.n]
    BY <1>1, <1>2, <1>3
  <2> QED
    BY <1>2, <1>3, <2>1, <2>2
<1>5. ASSUME q # <<>>
      PROVE  /\ Numbers(q) # <<>>
             /\ Head(Numbers(q)) = Head(q).n
             /\ Numbers(Tail(q)) = Tail(Numbers(q))
  <2>1. Len(q) >= 1 /\ Len(Tail(q)) = Len(q) - 1 /\ Head(q) = q[1]
        /\ \A k \in 1..(Len(q) - 1) : Tail(q)[k] = q[k + 1]
    BY <1>1, <1>5
  <2> DEFINE u == Numbers(Tail(q))
             v == Numbers(q)
  <2>2. u = [k \in 1..(Len(q) - 1) |-> q[k + 1].n]
    BY <2>1 DEF Numbers
  <2>3. \A k \in 1..(Len(q) - 1) : k + 1 \in 1..Len(q) /\ v[k + 1] = q[k + 1].n
                                   /\ q[k + 1].n \in Chunks
    BY <1>1, <1>2, <1>3
  <2>4. u \in Seq(Chunks) /\ Len(u) = Len(q) - 1
        /\ \A k \in 1..(Len(q) - 1) : u[k] = v[k + 1]
    BY <1>2, <2>1, <2>2, <2>3
  <2>5. Numbers(Tail(q)) = Tail(Numbers(q))
    <3>1. v \in Seq(Chunks) /\ Len(v) = Len(q) /\ Len(v) >= 1
      BY <1>3, <2>1
    <3> HIDE DEF u, v
    <3>2. Tail(v) \in Seq(Chunks) /\ Len(Tail(v)) = Len(q) - 1
          /\ \A k \in 1..(Len(q) - 1) : Tail(v)[k] = v[k + 1]
      BY <3>1
    <3>3. u = Tail(v)
      BY <2>4, <3>2
    <3> QED
      BY <3>3 DEF u, v
  <2>6. Numbers(q) # <<>> /\ Head(Numbers(q)) = q[1].n
    BY <1>2, <1>3, <2>1
  <2> QED
    BY <2>1, <2>5, <2>6
<1> QED
  BY <1>3, <1>4, <1>5

(* A queue that ends with the last chunk sent does so when its head is     *)
(* taken, and when the next chunk is put behind it.                        *)
LEMMA UpToMoves ==
  ASSUME NEW q \in Seq(Chunks), NEW n \in Nat, UpTo(q, n)
  PROVE  /\ q # <<>> => UpTo(Tail(q), n)
         /\ UpTo(Append(q, n + 1), n + 1)
<1>1. \A c \in Chunks : c \in Nat
  BY BridgeAssumption DEF Chunks
<1>2. Len(q) \in Nat /\ Len(q) <= n /\ \A k \in 1..Len(q) : q[k] = n - Len(q) + k
  BY DEF UpTo
<1>3. ASSUME q # <<>> PROVE UpTo(Tail(q), n)
  <2>1. Len(q) >= 1 /\ Len(Tail(q)) = Len(q) - 1
        /\ \A k \in 1..(Len(q) - 1) : Tail(q)[k] = q[k + 1] /\ k + 1 \in 1..Len(q)
    BY <1>3
  <2>2. \A k \in 1..(Len(q) - 1) : Tail(q)[k] = n - (Len(q) - 1) + k
    BY <1>2, <2>1
  <2> DEFINE t == Tail(q)
  <2>3. Len(t) = Len(q) - 1 /\ \A k \in 1..Len(t) : t[k] = n - Len(t) + k
    BY <2>1, <2>2
  <2> HIDE DEF t
  <2>4. UpTo(t, n)
    BY <1>2, <2>3 DEF UpTo
  <2> QED
    BY <2>4 DEF t
<1>4. UpTo(Append(q, n + 1), n + 1)
  <2> DEFINE t == Append(q, n + 1)
  <2>1. Len(t) = Len(q) + 1
        /\ \A k \in 1..(Len(q) + 1) : t[k] = IF k <= Len(q) THEN q[k] ELSE n + 1
    BY <1>2
  <2> HIDE DEF t
  <2>2. \A k \in 1..Len(t) : t[k] = (n + 1) - Len(t) + k
    BY <1>2, <2>1
  <2>3. UpTo(t, n + 1)
    BY <1>2, <2>1, <2>2 DEF UpTo
  <2> QED
    BY <2>3 DEF t
<1> QED
  BY <1>3, <1>4

(* The module hands its chunks out in order.                               *)
LEMMA ModuleKeepsChunks ==
  ASSUME BridgeTypes, InModule, BridgeNext
  PROVE  InModule'
<1> USE DEF worldVars, logVars
<1>1. toHost \in Seq(Chunks) /\ sent \in Nat /\ sessions \in 0..2
  BY BridgeAssumption DEF BridgeTypes
<1>2. ASSUME toHost # <<>>, toHost' = Tail(toHost), sessions # 0, UNCHANGED <<sent, sessions>>
      PROVE  InModule'
  BY <1>1, <1>2, UpToMoves DEF InModule
<1>3. ASSUME UNCHANGED <<toHost, sent, replugged>>, sessions' = sessions \/ sessions' = sessions + 1
      PROVE  InModule'
  BY <1>1, <1>3 DEF InModule
<1>4. CASE Main
  <2>1. CASE ReadTty
    <3>1. sessions # 0
      BY <2>1 DEF ReadTty, BridgeTypes
    <3> QED
      BY <1>2, <2>1, <3>1 DEF ReadTty
  <2>2. CASE ~ReadTty
    BY <1>3, <1>4, <2>2 DEF Main, FindEc20, OpenTty, OpenDevice, Claim, StartReader,
       ReadSocket, GiveUp, CloseTty, CloseRelease, CloseNear, CloseFar, CloseClear
  <2> QED
    BY <2>1, <2>2
<1>5. ASSUME NEW s \in 1..2, Reader(s) PROVE InModule'
  <2>1. CASE ReadReturns(s)
    <3>1. sessions # 0
      BY <2>1 DEF ReadReturns, At, BridgeTypes
    <3> QED
      BY <1>2, <2>1, <3>1 DEF ReadReturns
  <2>2. CASE ~ReadReturns(s)
    BY <1>3, <1>5, <2>2 DEF Reader, TestDesc, IssueRead, TestAgain, Put
  <2> QED
    BY <2>1, <2>2
<1>6. CASE ChunkArrives
  <2>1. /\ toHost' = Append(toHost, sent + 1) /\ sent' = sent + 1
        /\ UNCHANGED <<sessions, replugged>> /\ sent + 1 \in Nat
    BY <1>1, <1>6 DEF ChunkArrives
  <2>2. Len(toHost') = Len(toHost) + 1
    BY <1>1, <2>1
  <2> QED
    BY <1>1, <2>1, <2>2, UpToMoves DEF InModule
<1>7. CASE Replug
  BY <1>1, <1>7 DEF Replug, InModule, UpTo
<1> QED
  BY <1>4, <1>5, <1>6, <1>7 DEF BridgeNext

(* The main thread notes what it reads behind what it has read.            *)
LEMMA HeardGrows ==
  ASSUME BridgeTypes, NEW c \in [n : Chunks, by : 1..2], sessions # 0, Heard(c)
  PROVE  /\ sessions \in 1..2 /\ heard[sessions] \in Seq([n : Chunks, by : 1..2])
         /\ heard'[sessions] = Append(heard[sessions], c)
         /\ \A s \in 1..2 : s # sessions => heard'[s] = heard[s]
  BY DEF BridgeTypes, Heard

(* All chunks of a queue are the reader's own after one was put behind it  *)
(* and after its head was taken.                                           *)
LEMMA OwnMoves ==
  ASSUME NEW q \in Seq([n : Chunks, by : 1..2]), NEW s,
         \A k \in 1..Len(q) : q[k].by = s,
         NEW c \in [n : Chunks, by : 1..2], c.by = s
  PROVE  /\ \A k \in 1..Len(Append(q, c)) : Append(q, c)[k].by = s
         /\ q # <<>> => /\ Head(q) \in [n : Chunks, by : 1..2] /\ Head(q).by = s
                        /\ \A k \in 1..Len(Tail(q)) : Tail(q)[k].by = s
<1> DEFINE Chunk == [n : Chunks, by : 1..2]
<1>1. q \in Seq(Chunk) /\ c \in Chunk
  OBVIOUS
<1> HIDE DEF Chunk
<1>2. Len(Append(q, c)) = Len(q) + 1 /\ Len(q) \in Nat
      /\ \A k \in 1..(Len(q) + 1) : Append(q, c)[k] = IF k <= Len(q) THEN q[k] ELSE c
  BY <1>1
<1>3. ASSUME q # <<>>
      PROVE  /\ Head(q) \in Chunk /\ Head(q) = q[1] /\ 1 \in 1..Len(q)
             /\ Len(Tail(q)) = Len(q) - 1
             /\ \A k \in 1..(Len(q) - 1) : Tail(q)[k] = q[k + 1] /\ k + 1 \in 1..Len(q)
  BY <1>1, <1>3
<1>4. \A k \in 1..Len(Append(q, c)) : Append(q, c)[k].by = s
  BY <1>2
<1>5. q # <<>> => /\ Head(q) \in Chunk /\ Head(q).by = s
                  /\ \A k \in 1..Len(Tail(q)) : Tail(q)[k].by = s
  BY <1>3
<1> QED
  BY <1>4, <1>5 DEF Chunk

(* A quiet session hears its own reader only.                              *)
LEMMA OwnKept ==
  ASSUME BridgeTypes, Looking, CleanInv, OwnChunks, BridgeNext
  PROVE  OwnChunks'
<1> USE DEF worldVars, logVars
<1> DEFINE Chunk == [n : Chunks, by : 1..2]
<1> SUFFICES ASSUME quiet'
             PROVE  /\ \A k \in 1..Len(sock') : sock'[k].by = sessions'
                    /\ \A s \in 1..2 : \A k \in 1..Len(heard'[s]) : heard'[s][k].by = s
  BY DEF OwnChunks
<1>1. quiet
  BY DEF BridgeNext, Main, FindEc20, OpenTty, OpenDevice, Claim, StartReader, ReadSocket,
         ReadTty, GiveUp, CloseTty, CloseRelease, CloseNear, CloseFar, CloseClear,
         Reader, TestDesc, IssueRead, ReadReturns, TestAgain, Put, ChunkArrives, Replug
<1>2. /\ \A k \in 1..Len(sock) : sock[k].by = sessions
      /\ \A s \in 1..2 : \A k \in 1..Len(heard[s]) : heard[s][k].by = s
      /\ sock \in Seq(Chunk) /\ toHost \in Seq(Chunks) /\ Quiet
  BY <1>1 DEF OwnChunks, BridgeTypes, CleanInv
<1>3. CASE OpenTty \/ OpenDevice \/ StartReader \/ CloseNear
  <2>1. sock' = <<>> /\ heard' = heard
    BY <1>2, <1>3 DEF OpenTty, OpenDevice, StartReader, CloseNear, Quiet
  <2> QED
    BY <1>2, <2>1
<1>4. ASSUME NEW c \in Chunk, Heard(c), sessions # 0, c.by = sessions,
             \A k \in 1..Len(sock') : sock'[k].by = sessions, sessions' = sessions
      PROVE  OwnChunks'
  <2>1. /\ sessions \in 1..2 /\ heard[sessions] \in Seq(Chunk)
        /\ heard'[sessions] = Append(heard[sessions], c)
        /\ \A s \in 1..2 : s # sessions => heard'[s] = heard[s]
    BY <1>4, HeardGrows
  <2>2. \A k \in 1..Len(heard'[sessions]) : heard'[sessions][k].by = sessions
    BY <1>2, <1>4, <2>1, OwnMoves
  <2>3. \A s \in 1..2 : \A k \in 1..Len(heard'[s]) : heard'[s][k].by = s
    BY <1>2, <2>1, <2>2
  <2> QED
    BY <1>4, <2>3 DEF OwnChunks
<1>5. CASE ReadSocket
  <2>1. sock # <<>> /\ Heard(Head(sock)) /\ sock' = Tail(sock) /\ sessions' = sessions
        /\ sessions # 0
    BY <1>5 DEF ReadSocket, BridgeTypes
  <2>2. PICK c \in Chunk : c = Head(sock)
    <3> HIDE DEF Chunk
    <3> QED
      BY <1>2, <2>1, QueueTypes
  <2>3. c.by = sessions
    BY <1>2, <2>1, <2>2
  <2>4. \A k \in 1..Len(Tail(sock)) : Tail(sock)[k].by = sessions
    BY <1>2, <2>1, <2>2, <2>3, OwnMoves
  <2>5. Heard(c) /\ \A k \in 1..Len(sock') : sock'[k].by = sessions
    BY <2>1, <2>2, <2>4
  <2>6. OwnChunks'
    BY <1>4, <2>1, <2>3, <2>5
  <2> QED
    BY <2>6 DEF OwnChunks
<1>6. CASE ReadTty
  <2>1. toHost # <<>> /\ sessions \in 1..2 /\ sock' = sock /\ sessions' = sessions
        /\ Heard([n |-> Head(toHost), by |-> sessions])
    BY <1>6 DEF ReadTty, BridgeTypes
  <2>2. Head(toHost) \in Chunks
    BY <1>2, <2>1
  <2>3. PICK c \in Chunk : c = [n |-> Head(toHost), by |-> sessions] /\ c.by = sessions
    BY <2>1, <2>2
  <2> QED
    BY <1>2, <1>4, <2>1, <2>3 DEF OwnChunks
<1>7. ASSUME NEW s \in 1..2, Put(s) PROVE OwnChunks'
  <2>1. s = sessions /\ reader[s].buf \in Chunks
    BY <1>1, <1>7, ReaderIsOwn DEF Reader, Put, At, BridgeTypes
  <2> DEFINE c == [n |-> reader[s].buf, by |-> s]
  <2>2. c \in Chunk /\ c.by = sessions
    BY <2>1
  <2>3. sock' \in {sock, Append(sock, c)} /\ UNCHANGED <<heard, sessions>>
    BY <1>7 DEF Put
  <2> HIDE DEF c
  <2>4. \A k \in 1..Len(Append(sock, c)) : Append(sock, c)[k].by = sessions
    BY <1>2, <2>2, OwnMoves
  <2>5. \A k \in 1..Len(sock') : sock'[k].by = sessions
    BY <1>2, <2>3, <2>4
  <2> QED
    BY <1>2, <2>3, <2>5 DEF OwnChunks
<1>8. CASE UNCHANGED <<heard, sock, sessions>>
  BY <1>2, <1>8
<1>9. \/ OpenTty \/ OpenDevice \/ StartReader \/ CloseNear \/ ReadSocket \/ ReadTty
      \/ (\E s \in 1..2 : Put(s)) \/ UNCHANGED <<heard, sock, sessions>>
  <2>1. CASE Main
    BY <2>1 DEF Main, FindEc20, Claim, GiveUp, CloseTty, CloseRelease, CloseFar, CloseClear
  <2>2. ASSUME NEW s \in 1..2, Reader(s)
        PROVE  Put(s) \/ UNCHANGED <<heard, sock, sessions>>
    BY <2>2 DEF Reader, TestDesc, IssueRead, ReadReturns, TestAgain
  <2>3. CASE ChunkArrives \/ Replug
    BY <2>3 DEF ChunkArrives, Replug
  <2> QED
    BY <2>1, <2>2, <2>3 DEF BridgeNext
<1> QED
  BY <1>1, <1>3, <1>5, <1>6, <1>7, <1>8, <1>9 DEF OwnChunks

(* Queues behind one another.                                              *)
LEMMA Glued ==
  ASSUME NEW S, NEW a \in Seq(S), NEW b \in Seq(S), NEW x \in S
  PROVE  /\ a \o <<>> = a
         /\ a \o <<x>> = Append(a, x)
         /\ a \o Append(b, x) = Append(a \o b, x)
<1>1. a \o <<>> = a
  OBVIOUS
<1>2. a \o <<x>> = Append(a, x)
  OBVIOUS
<1>3. a \o Append(b, x) = Append(a \o b, x)
  OBVIOUS
<1> QED
  BY <1>1, <1>2, <1>3

(* The queues on the way of a session's chunks are queues of numbers.      *)
LEMMA PendingType ==
  ASSUME BridgeTypes, NEW s \in 1..2
  PROVE  /\ Numbers(heard[s]) \in Seq(Chunks) /\ Numbers(sock) \in Seq(Chunks)
         /\ Held(s) \in Seq(Chunks) /\ toHost \in Seq(Chunks)
         /\ Pending(s) \in Seq(Chunks)
<1>1. /\ heard[s] \in Seq([n : Chunks, by : 1..2]) /\ sock \in Seq([n : Chunks, by : 1..2])
      /\ toHost \in Seq(Chunks)
      /\ reader[s].pc \in {"got", "put"} => reader[s].buf \in Chunks
  BY DEF BridgeTypes
<1>2. Numbers(heard[s]) \in Seq(Chunks) /\ Numbers(sock) \in Seq(Chunks)
  BY <1>1, NumbersType
<1>3. Held(s) \in Seq(Chunks)
  <2>1. CASE reader[s].pc \in {"got", "put"}
    <3>1. PICK b \in Chunks : b = reader[s].buf
      BY <1>1, <2>1
    <3>2. Held(s) = <<b>>
      BY <2>1, <3>1 DEF Held
    <3> QED
      BY <3>2
  <2>2. CASE reader[s].pc \notin {"got", "put"}
    BY <2>2 DEF Held
  <2> QED
    BY <2>1, <2>2
<1> DEFINE h == Numbers(heard[s])
           k == Numbers(sock)
           r == Held(s)
<1>4. Pending(s) = ((h \o k) \o r) \o toHost /\ h \in Seq(Chunks) /\ k \in Seq(Chunks)
      /\ r \in Seq(Chunks)
  BY <1>2, <1>3 DEF Pending
<1> HIDE DEF h, k, r
<1>5. Pending(s) \in Seq(Chunks)
  BY <1>1, <1>4
<1> QED
  BY <1>1, <1>2, <1>3, <1>5

(* A chunk that the main thread reads from the socket, that the reader     *)
(* takes from the module or passes on, keeps its place among the numbers   *)
(* on the session's way.                                                   *)
LEMMA ReadKeepsPending ==
  ASSUME BridgeTypes, ReadSocket
  PROVE  Pending(sessions)' = Pending(sessions)
<1> DEFINE Chunk == [n : Chunks, by : 1..2]
           h == Numbers(heard[sessions])
           k == Numbers(sock)
<1>1. /\ sessions \in 1..2 /\ sock # <<>> /\ Heard(Head(sock)) /\ sock' = Tail(sock)
      /\ UNCHANGED <<sessions, reader, toHost>>
      /\ sock \in Seq(Chunk)
  BY DEF ReadSocket, BridgeTypes, worldVars
<1>2. PICK c \in Chunk : c = Head(sock)
  <2> HIDE DEF Chunk
  <2> QED
    BY <1>1, QueueTypes
<1>3. /\ heard[sessions] \in Seq(Chunk)
      /\ heard'[sessions] = Append(heard[sessions], c)
  BY <1>1, <1>2, HeardGrows
<1>4. h \in Seq(Chunks) /\ k \in Seq(Chunks) /\ k # <<>> /\ Head(k) = c.n
      /\ Numbers(sock') = Tail(k) /\ Numbers(heard'[sessions]) = Append(h, c.n)
  BY <1>1, <1>2, <1>3, NumbersType, NumbersMove
<1>5. Numbers(heard'[sessions]) \o Numbers(sock') = h \o k
  <2> HIDE DEF h, k
  <2> QED
    BY <1>4, Moves
<1>6. Held(sessions)' = Held(sessions)
  BY <1>1 DEF Held
<1> QED
  BY <1>1, <1>5, <1>6 DEF Pending

(* A session over the tty has no reader and no socket.                     *)
LEMMA TtyKeepsPending ==
  ASSUME BridgeTypes, Quiet, ReadTty
  PROVE  Pending(sessions)' = Pending(sessions)
<1> DEFINE h == Numbers(heard[sessions])
<1>1. /\ sessions \in 1..2 /\ toHost # <<>> /\ Heard([n |-> Head(toHost), by |-> sessions])
      /\ toHost' = Tail(toHost) /\ onTty
      /\ UNCHANGED <<sessions, reader, sock>>
      /\ toHost \in Seq(Chunks)
  BY DEF ReadTty, BridgeTypes
<1>2. sock = <<>> /\ Held(sessions) = <<>> /\ Held(sessions)' = <<>>
  BY <1>1 DEF Quiet, Active, Held
<1>3. Numbers(sock) = <<>> /\ Numbers(sock') = <<>>
  BY <1>1, <1>2 DEF Numbers
<1>4. Head(toHost) \in Chunks
  BY <1>1
<1>5. PICK c \in [n : Chunks, by : 1..2] : c = [n |-> Head(toHost), by |-> sessions]
                                           /\ c.n = Head(toHost)
  BY <1>1, <1>4
<1>6. /\ heard[sessions] \in Seq([n : Chunks, by : 1..2])
      /\ heard'[sessions] = Append(heard[sessions], c)
  <2>1. Heard(c) /\ sessions # 0
    BY <1>1, <1>5
  <2> QED
    BY <2>1, HeardGrows
<1>7. h \in Seq(Chunks) /\ Numbers(heard'[sessions]) = Append(h, Head(toHost))
  BY <1>5, <1>6, NumbersType, NumbersMove
<1> HIDE DEF h
<1>8. Append(h, Head(toHost)) \in Seq(Chunks)
  BY <1>4, <1>7
<1>9. /\ ((h \o <<>>) \o <<>>) \o toHost = h \o toHost
      /\ ((Append(h, Head(toHost)) \o <<>>) \o <<>>) \o Tail(toHost)
            = Append(h, Head(toHost)) \o Tail(toHost)
  BY <1>4, <1>7, <1>8, Glued
<1>10. Append(h, Head(toHost)) \o Tail(toHost) = h \o toHost
  BY <1>1, <1>7, Moves
<1> QED
  BY <1>1, <1>2, <1>3, <1>7, <1>9, <1>10 DEF Pending, h

(* The reader takes a chunk from the module.                               *)
LEMMA TakeKeepsPending ==
  ASSUME BridgeTypes, NEW s \in 1..2, ReadReturns(s)
  PROVE  Pending(s)' = Pending(s)
<1> DEFINE x == Numbers(heard[s]) \o Numbers(sock)
<1>1. /\ toHost # <<>> /\ toHost \in Seq(Chunks) /\ toHost' = Tail(toHost)
      /\ reader[s].pc = "reading"
      /\ reader' = [reader EXCEPT ![s].pc = "got", ![s].buf = Head(toHost)]
      /\ UNCHANGED <<heard, sock>>
  BY DEF ReadReturns, At, logVars, BridgeTypes
<1>2. Held(s) = <<>> /\ Held(s)' = <<Head(toHost)>>
  BY <1>1 DEF Held, BridgeTypes
<1>3. x \in Seq(Chunks)
  <2>1. Numbers(heard[s]) \in Seq(Chunks) /\ Numbers(sock) \in Seq(Chunks)
    BY PendingType
  <2> QED
    BY <2>1
<1>4. Pending(s) = (x \o <<>>) \o toHost /\ Pending(s)' = (x \o <<Head(toHost)>>) \o Tail(toHost)
  BY <1>1, <1>2 DEF Pending
<1> HIDE DEF x
<1>5. Head(toHost) \in Chunks
  BY <1>1
<1>6. x \o <<>> = x /\ x \o <<Head(toHost)>> = Append(x, Head(toHost))
  BY <1>3, <1>5, Glued
<1> QED
  BY <1>1, <1>3, <1>4, <1>6, Moves

(* The reader passes a chunk on to the socket.                             *)
LEMMA PutKeepsPending ==
  ASSUME BridgeTypes, NEW s \in 1..2, Put(s),
         sock' = Append(sock, [n |-> reader[s].buf, by |-> s])
  PROVE  Pending(s)' = Pending(s)
<1> DEFINE h == Numbers(heard[s])
           k == Numbers(sock)
           b == reader[s].buf
<1>1. /\ reader[s].pc = "put" /\ b \in Chunks /\ Goto(s, "test")
      /\ UNCHANGED <<heard, toHost>>
      /\ sock \in Seq([n : Chunks, by : 1..2])
  BY DEF Put, At, BridgeTypes, worldVars
<1>2. Held(s) = <<b>> /\ Held(s)' = <<>>
  BY <1>1 DEF Held, Goto, BridgeTypes
<1>3. PICK c \in [n : Chunks, by : 1..2] : c = [n |-> b, by |-> s] /\ c.n = b
  BY <1>1
<1>4. Numbers(sock') = Append(k, b)
  BY <1>1, <1>3, NumbersMove
<1>5. h \in Seq(Chunks) /\ k \in Seq(Chunks)
  BY PendingType
<1>6. Pending(s) = ((h \o k) \o <<b>>) \o toHost
      /\ Pending(s)' = ((h \o Append(k, b)) \o <<>>) \o toHost
  BY <1>1, <1>2, <1>4 DEF Pending
<1> HIDE DEF h, k
<1>7. h \o Append(k, b) = Append(h \o k, b) /\ h \o k \in Seq(Chunks)
  BY <1>1, <1>5, Glued
<1>8. (h \o k) \o <<b>> = Append(h \o k, b)
  BY <1>1, <1>7, Glued
<1>9. Append(h \o k, b) \in Seq(Chunks)
  BY <1>1, <1>7
<1>10. Append(h \o k, b) \o <<>> = Append(h \o k, b)
  BY <1>1, <1>9, Glued
<1> QED
  BY <1>6, <1>7, <1>8, <1>10

(* The main thread and the way of its session.                             *)
LEMMA MainKeepsWhole ==
  ASSUME BridgeTypes, BridgeTypes', Looking, Quiet, InModule, Main, ~replugged,
         bpc \in {"claim", "pair", "use"} => Whole,
         bpc' \in {"claim", "pair", "use"}
  PROVE  Whole'
<1> USE DEF worldVars, logVars
<1>1. ASSUME UNCHANGED <<sessions, sent>>, Pending(sessions)' = Pending(sessions),
             bpc \in {"claim", "pair", "use"}
      PROVE  Whole'
  BY <1>1 DEF Whole, UpTo
<1>2. CASE OpenTty \/ OpenDevice
  <2>1. /\ bpc = "open" /\ sessions' = sessions + 1
        /\ UNCHANGED <<heard, sock, reader, toHost, sent>>
    BY <1>2 DEF OpenTty, OpenDevice, Stop
  <2>2. sessions' \in 1..2 /\ sessions' > sessions /\ (sessions' = 1 => sessions = 0)
    BY <2>1 DEF BridgeTypes
  <2>3. /\ heard'[sessions'] = <<>> /\ reader'[sessions'].pc = "none" /\ sock' = <<>>
        /\ toHost' \in Seq(Chunks)
    BY <2>1, <2>2 DEF BridgeTypes, Quiet
  <2>4. Held(sessions)' = <<>>
    BY <2>3 DEF Held
  <2>5. Pending(sessions)' = toHost'
    <3>1. Numbers(heard'[sessions']) = <<>> /\ Numbers(sock') = <<>>
      BY <2>3 DEF Numbers
    <3>2. (<<>> \o <<>>) \o <<>> = <<>> /\ <<>> \o toHost' = toHost'
      BY <2>3
    <3> QED
      BY <2>4, <3>1, <3>2 DEF Pending
  <2> QED
    BY <2>1, <2>2, <2>5 DEF Whole, InModule, UpTo
<1>3. CASE Claim
  <2>1. Pending(sessions)' = Pending(sessions)
    BY <1>3 DEF Claim, Pending, Held
  <2> QED
    BY <1>1, <1>3, <2>1 DEF Claim
<1>4. CASE StartReader
  <2>1. /\ bpc = "pair" /\ sessions \in 1..2 /\ sock' = <<>> /\ sock = <<>>
        /\ reader' = [reader EXCEPT ![sessions] = [NoReader EXCEPT !.pc = "test"]]
        /\ UNCHANGED <<heard, sessions, toHost, sent>>
    BY <1>4 DEF StartReader, Quiet, BridgeTypes
  <2>2. Held(sessions) = <<>>
    BY <2>1 DEF Held, Quiet, Active
  <2>3. Held(sessions)' = <<>>
    BY <2>1 DEF Held, BridgeTypes
  <2>4. Pending(sessions)' = Pending(sessions)
    BY <2>1, <2>2, <2>3 DEF Pending
  <2> QED
    BY <1>1, <2>1, <2>4
<1>5. CASE ReadSocket
  BY <1>1, <1>5, ReadKeepsPending DEF ReadSocket
<1>6. CASE ReadTty
  BY <1>1, <1>6, TtyKeepsPending DEF ReadTty
<1>7. ~(FindEc20 \/ GiveUp \/ CloseTty \/ CloseRelease \/ CloseNear \/ CloseFar \/ CloseClear)
  BY DEF FindEc20, GiveUp, CloseTty, CloseRelease, CloseNear, CloseFar, CloseClear, Stop,
         NextSession
<1> QED
  BY <1>2, <1>3, <1>4, <1>5, <1>6, <1>7 DEF Main

(* The reader and the way of its session: a chunk leaves it only when the  *)
(* socket is full.                                                         *)
LEMMA ReaderKeepsWhole ==
  ASSUME BridgeTypes, Looking, CleanInv, quiet, Whole, ~full', NEW s \in 1..2, Reader(s)
  PROVE  Whole'
<1> USE DEF worldVars, logVars
<1>1. /\ s = sessions /\ bpc = "use" /\ ec20.desc # 0 /\ ec20.far = Far
      /\ \A n \in {Near, Far, Dev} : file[n] = s
      /\ UNCHANGED <<sessions, sent>>
  BY ReaderIsOwn DEF Reader, TestDesc, IssueRead, ReadReturns, TestAgain, Put
<1>2. Pending(s)' = Pending(s)
  <2>1. CASE TestDesc(s) \/ IssueRead(s) \/ TestAgain(s)
    <3>1. UNCHANGED <<heard, sock, toHost>>
      BY <2>1 DEF TestDesc, IssueRead, TestAgain
    <3>2. CASE TestDesc(s)
      BY <3>1, <3>2 DEF TestDesc, At, Goto, Pending, Held, BridgeTypes
    <3>3. CASE IssueRead(s)
      <4>1. reader[s].pc = "issue" /\ reader'[s].pc \in {"reading", "end"}
        BY <3>3 DEF IssueRead, At, Goto, BridgeTypes
      <4> QED
        BY <3>1, <4>1 DEF Pending, Held
    <3>4. CASE TestAgain(s)
      BY <1>1, <3>1, <3>4 DEF TestAgain, At, Goto, Pending, Held, BridgeTypes
    <3> QED
      BY <2>1, <3>2, <3>3, <3>4
  <2>2. CASE ReadReturns(s)
    BY <2>2, TakeKeepsPending
  <2>3. CASE Put(s)
    <3>1. ec20.far # 0 /\ file[Far] # 0 /\ file[Near] # 0
      BY <1>1 DEF Far
    <3>2. Len(sock) < Room /\ sock' = Append(sock, [n |-> reader[s].buf, by |-> s])
      <4>1. ~(Len(sock) >= Room)
        BY <2>3, <3>1 DEF Put
      <4>2. Len(sock) \in Nat /\ Room \in Nat
        BY BridgeAssumption DEF BridgeTypes
      <4> QED
        BY <2>3, <3>1, <4>1, <4>2 DEF Put
    <3> QED
      BY <2>3, <3>2, PutKeepsPending
  <2> QED
    BY <2>1, <2>2, <2>3 DEF Reader
<1> QED
  BY <1>1, <1>2 DEF Whole, UpTo

(* The next chunk comes last.                                              *)
LEMMA ArrivalKeepsWhole ==
  ASSUME BridgeTypes, Whole, sessions # 0, ChunkArrives
  PROVE  Whole'
<1>1. /\ toHost' = Append(toHost, sent + 1) /\ sent' = sent + 1 /\ sent + 1 \in Chunks
      /\ UNCHANGED <<heard, sock, reader, sessions>>
      /\ sessions \in 1..2 /\ sent \in Nat
  BY BridgeAssumption DEF ChunkArrives, BridgeTypes, logVars, Chunks
<1> DEFINE x == (Numbers(heard[sessions]) \o Numbers(sock)) \o Held(sessions)
           p == Pending(sessions)
<1>2. x \in Seq(Chunks) /\ toHost \in Seq(Chunks) /\ p \in Seq(Chunks)
  <2> DEFINE h == Numbers(heard[sessions])
             k == Numbers(sock)
             r == Held(sessions)
  <2>1. h \in Seq(Chunks) /\ k \in Seq(Chunks) /\ r \in Seq(Chunks)
    BY <1>1, PendingType
  <2> HIDE DEF h, k, r
  <2>2. (h \o k) \o r \in Seq(Chunks)
    BY <2>1
  <2> QED
    BY <1>1, <2>2, PendingType DEF h, k, r
<1>3. p = x \o toHost /\ Pending(sessions)' = x \o Append(toHost, sent + 1)
  BY <1>1 DEF Pending, Held
<1> HIDE DEF x, p
<1>4. Pending(sessions)' = Append(p, sent + 1)
  BY <1>1, <1>2, <1>3, Glued
<1>5. UpTo(p, sent) /\ (sessions = 1 => Len(p) = sent)
  BY DEF Whole, p
<1>6. UpTo(Append(p, sent + 1), sent + 1) /\ Len(Append(p, sent + 1)) = Len(p) + 1
  BY <1>1, <1>2, <1>5, UpToMoves
<1> QED
  BY <1>1, <1>4, <1>5, <1>6 DEF Whole

(* Each session reads what its own reader has read, in order and without   *)
(* gaps as long as the socket has room; the first one reads everything.    *)
THEOREM StreamsAreUnbroken == Spec => []StreamUnbroken
<1>1. Init => Stream
  <2> SUFFICES ASSUME BridgeInit PROVE Stream
    BY DEF Init
  <2>1. /\ toHost = <<>> /\ sock = <<>> /\ sent = 0 /\ bpc = "entry"
        /\ \A s \in 1..2 : heard[s] = <<>>
    BY DEF BridgeInit
  <2>2. Len(toHost) = 0 /\ Len(sock) = 0 /\ \A s \in 1..2 : Len(heard[s]) = 0
    BY <2>1
  <2> QED
    BY <2>1, <2>2 DEF Stream, InModule, OwnChunks, UpTo
<1>2. /\ BridgeTypes /\ Looking /\ CleanInv /\ BridgeTypes' /\ Stream /\ [Next]_vars
      => Stream'
  <2> SUFFICES ASSUME BridgeTypes, Looking, CleanInv, BridgeTypes', Stream, [Next]_vars
               PROVE  Stream'
    OBVIOUS
  <2>1. CASE UNCHANGED bridgeVars
    BY <2>1 DEF bridgeVars, Stream, InModule, OwnChunks, Whole, UpTo, Pending, Held
  <2>2. CASE BridgeNext
    <3>1. InModule' /\ OwnChunks'
      BY <2>2, ModuleKeepsChunks, OwnKept DEF Stream
    <3>2. ASSUME quiet', ~full', ~replugged', bpc' \in {"claim", "pair", "use"}
          PROVE  Whole'
      <4>1. CASE Main
        <5>1. quiet /\ ~full /\ ~replugged
          <6>1. CASE ~CloseRelease
            <7>1. UNCHANGED <<quiet, full, replugged>>
              BY <4>1, <6>1 DEF Main, FindEc20, OpenTty, OpenDevice, Claim, StartReader,
                 ReadSocket, ReadTty, GiveUp, CloseTty, CloseNear, CloseFar, CloseClear,
                 worldVars, logVars
            <7> QED
              BY <3>2, <7>1
          <6>2. CASE CloseRelease
            <7>1. UNCHANGED <<full, replugged>> /\ (quiet' => quiet)
              BY <6>2 DEF CloseRelease, worldVars
            <7> QED
              BY <3>2, <7>1
          <6> QED
            BY <6>1, <6>2
        <5> QED
          BY <3>2, <4>1, <5>1, MainKeepsWhole DEF Stream, CleanInv
      <4>2. ASSUME NEW s \in 1..2, Reader(s) PROVE Whole'
        <5>1. quiet /\ ~full /\ ~replugged
          <6>1. CASE ~Put(s)
            <7>1. UNCHANGED <<quiet, full, replugged>>
              BY <4>2, <6>1 DEF Reader, TestDesc, IssueRead, ReadReturns, TestAgain,
                 worldVars, logVars
            <7> QED
              BY <3>2, <7>1
          <6>2. CASE Put(s)
            <7>1. UNCHANGED <<quiet, replugged>> /\ (full => full')
              BY <6>2 DEF Put, worldVars
            <7> QED
              BY <3>2, <7>1
          <6> QED
            BY <6>1, <6>2
        <5>2. bpc = "use"
          BY <4>2, <5>1, ReaderIsOwn
        <5> QED
          BY <3>2, <4>2, <5>1, <5>2, ReaderKeepsWhole DEF Stream
      <4>3. CASE ChunkArrives
        <5>1. quiet /\ ~full /\ ~replugged /\ bpc \in {"claim", "pair", "use"}
          BY <3>2, <4>3 DEF ChunkArrives, logVars
        <5>2. sessions # 0
          BY <5>1 DEF BridgeTypes
        <5> QED
          BY <4>3, <5>1, <5>2, ArrivalKeepsWhole DEF Stream
      <4>4. ~Replug
        BY <3>2 DEF Replug
      <4> QED
        BY <2>2, <4>1, <4>2, <4>3, <4>4 DEF BridgeNext
    <3> QED
      BY <3>1, <3>2 DEF Stream
  <2> QED
    BY <2>1, <2>2 DEF Next, vars
<1>3. BridgeTypes /\ Stream => StreamUnbroken
  <2> SUFFICES ASSUME BridgeTypes, Stream PROVE StreamUnbroken
    OBVIOUS
  <2>1. ASSUME quiet, ~full, bpc = "use", ~replugged
        PROVE  LET p == Pending(sessions) IN
               /\ sessions = 1 => Len(p) = sent
               /\ \A k \in 1..Len(p) : p[k] = sent - Len(p) + k
    BY <2>1 DEF Stream, Whole, UpTo
  <2> QED
    BY <2>1 DEF StreamUnbroken, Stream, OwnChunks
<1> QED
  BY <1>1, <1>2, <1>3, BridgeHolds, PTL DEF Spec

-----------------------------------------------------------------------------
(* The bytes of a packet in a frame are finitely many.                     *)
LEMMA DataFinite ==
  ASSUME NEW s \in Seq(Nat)
  PROVE  IsFiniteSet(Data(s)) /\ Cardinality(Data(s)) \in Nat
<1>1. 1 \in Int /\ Len(s) \in Int
  OBVIOUS
<1>2. IsFiniteSet(1..Len(s))
  BY <1>1, FS_Interval, Zenon
<1>3. Data(s) \subseteq 1..Len(s)
  BY DEF Data
<1> QED
  BY <1>2, <1>3, FS_Subset, FS_CardinalityType

(* What one more byte makes of them: a flag or an escape nothing, any      *)
(* other byte is the next one.                                             *)
LEMMA DataGrows ==
  ASSUME NEW s \in Seq(Nat), NEW b \in Nat, NEW t, t = Append(s, b)
  PROVE  /\ \A k \in Data(s) : Place(t, k) = Place(s, k) /\ Meant(t, k) = Meant(s, k)
         /\ b \in {Flag, Esc} => Data(t) = Data(s)
         /\ b \notin {Flag, Esc} =>
               /\ Data(t) = Data(s) \cup {Len(s) + 1} /\ Len(s) + 1 \notin Data(s)
               /\ Cardinality(Data(t)) = Cardinality(Data(s)) + 1
               /\ Place(t, Len(s) + 1) = Cardinality(Data(s)) + 1
               /\ Meant(t, Len(s) + 1) = IF s # <<>> /\ s[Len(s)] = Esc THEN Masked(b) ELSE b
<1>1. /\ Len(s) \in Nat /\ Len(t) = Len(s) + 1 /\ t[Len(s) + 1] = b
      /\ \A k \in 1..Len(s) : t[k] = s[k]
  OBVIOUS
<1>2. \A k \in 1..Len(s) : k \in Data(t) <=> k \in Data(s)
  BY <1>1 DEF Data
<1>3. \A k \in Data(t) : k \in 1..Len(s) \/ k = Len(s) + 1
  BY <1>1 DEF Data
<1>4. \A k \in Data(s) : k \in 1..Len(s)
  BY DEF Data
<1>5. ASSUME NEW k \in Data(s)
      PROVE  Place(t, k) = Place(s, k) /\ Meant(t, k) = Meant(s, k)
  <2>1. k \in 1..Len(s) /\ t[k] = s[k]
    BY <1>1, <1>4
  <2>2. {j \in Data(t) : j <= k} = {j \in Data(s) : j <= k}
    <3>1. \A j \in Data(t) : j <= k => j \in Data(s)
      BY <1>1, <1>2, <1>3, <2>1
    <3>2. \A j \in Data(s) : j \in Data(t)
      BY <1>2, <1>4
    <3> QED
      BY <3>1, <3>2
  <2>3. k > 1 => k - 1 \in 1..Len(s)
    BY <1>1, <2>1
  <2> QED
    BY <1>1, <2>1, <2>2, <2>3 DEF Place, Meant
<1>6. ASSUME b \in {Flag, Esc} PROVE Data(t) = Data(s)
  <2>1. Len(s) + 1 \notin Data(t)
    BY <1>1, <1>6 DEF Data
  <2> QED
    BY <1>2, <1>3, <1>4, <2>1
<1>7. ASSUME b \notin {Flag, Esc}
      PROVE  /\ Data(t) = Data(s) \cup {Len(s) + 1} /\ Len(s) + 1 \notin Data(s)
             /\ Cardinality(Data(t)) = Cardinality(Data(s)) + 1
             /\ Place(t, Len(s) + 1) = Cardinality(Data(s)) + 1
             /\ Meant(t, Len(s) + 1) = IF s # <<>> /\ s[Len(s)] = Esc THEN Masked(b) ELSE b
  <2>1. Len(s) + 1 \in Data(t)
    BY <1>1, <1>7 DEF Data
  <2>2. Data(t) = Data(s) \cup {Len(s) + 1} /\ Len(s) + 1 \notin Data(s)
    BY <1>1, <1>2, <1>3, <1>4, <2>1
  <2>3. Cardinality(Data(t)) = Cardinality(Data(s)) + 1
    BY <2>2, DataFinite, FS_AddElement
  <2>4. {j \in Data(t) : j <= Len(s) + 1} = Data(t)
    BY <1>1, <1>3
  <2>5. Place(t, Len(s) + 1) = Cardinality(Data(t))
    BY <2>4 DEF Place
  <2>6. Meant(t, Len(s) + 1) = IF s # <<>> /\ s[Len(s)] = Esc THEN Masked(b) ELSE b
    <3>1. CASE s = <<>>
      BY <1>1, <3>1 DEF Meant
    <3>2. CASE s # <<>>
      <4>1. Len(s) + 1 > 1 /\ (Len(s) + 1) - 1 = Len(s) /\ t[Len(s)] = s[Len(s)]
        BY <1>1, <3>2
      <4> QED
        BY <1>1, <3>2, <4>1 DEF Meant
    <3> QED
      BY <3>1, <3>2
  <2> QED
    BY <2>2, <2>3, <2>5, <2>6
<1> QED
  BY <1>5, <1>6, <1>7

(* The frame s carries the first n bytes of the packet: the receiver would *)
(* read just them, no flag is inside and no escape at its end.             *)
Carries(s, n) ==
    /\ Cardinality(Data(s)) = n
    /\ \A k \in Data(s) : Place(s, k) \in 1..n /\ Meant(s, k) = transmit[Place(s, k)]
    /\ \A k \in 2..Len(s) : s[k] # Flag
    /\ s # <<>> => s[Len(s)] # Esc

(* An escape does not change what is carried; it is at the end, though.    *)
LEMMA EscapeCarries ==
  ASSUME NEW s \in Seq(Nat), NEW n \in Nat, Carries(s, n), NEW t, t = Append(s, Esc)
  PROVE  /\ t \in Seq(Nat) /\ t # <<>> /\ t[Len(t)] = Esc
         /\ Cardinality(Data(t)) = n
         /\ \A k \in Data(t) : Place(t, k) \in 1..n /\ Meant(t, k) = transmit[Place(t, k)]
         /\ \A k \in 2..Len(t) : t[k] # Flag
<1>1. /\ t \in Seq(Nat) /\ Len(t) = Len(s) + 1 /\ t[Len(s) + 1] = Esc
      /\ \A k \in 1..Len(s) : t[k] = s[k]
      /\ Len(s) \in Nat /\ Esc \in Nat /\ Esc # Flag
  BY DEF Esc, Flag
<1>2. Data(t) = Data(s)
      /\ \A k \in Data(s) : Place(t, k) = Place(s, k) /\ Meant(t, k) = Meant(s, k)
  BY <1>1, DataGrows
<1>3. \A k \in 2..Len(t) : t[k] # Flag
  <2> SUFFICES ASSUME NEW k \in 2..Len(t) PROVE t[k] # Flag
    OBVIOUS
  <2>1. k = Len(s) + 1 \/ k \in 2..Len(s)
    BY <1>1
  <2> QED
    BY <1>1, <2>1 DEF Carries
<1> QED
  BY <1>1, <1>2, <1>3 DEF Carries

(* A byte of the packet is carried when it is put behind a frame: as it    *)
(* is, or masked behind an escape.                                         *)
LEMMA ByteCarries ==
  ASSUME NEW s \in Seq(Nat), NEW n \in Nat, NEW b \in Nat, b \notin {Flag, Esc},
         Cardinality(Data(s)) = n,
         \A k \in Data(s) : Place(s, k) \in 1..n /\ Meant(s, k) = transmit[Place(s, k)],
         \A k \in 2..Len(s) : s[k] # Flag,
         transmit[n + 1] = IF s # <<>> /\ s[Len(s)] = Esc THEN Masked(b) ELSE b,
         NEW t, t = Append(s, b)
  PROVE  t \in Seq(Nat) /\ Carries(t, n + 1)
<1>1. /\ t \in Seq(Nat) /\ Len(t) = Len(s) + 1 /\ t[Len(s) + 1] = b
      /\ \A k \in 1..Len(s) : t[k] = s[k]
      /\ Len(s) \in Nat
  OBVIOUS
<1>2. \A k \in Data(s) : Place(t, k) = Place(s, k) /\ Meant(t, k) = Meant(s, k)
  <2>1. b \in Nat /\ t = Append(s, b)
    OBVIOUS
  <2> QED
    BY ONLY <2>1, DataGrows, s \in Seq(Nat)
<1>3. /\ Data(t) = Data(s) \cup {Len(s) + 1} /\ Len(s) + 1 \notin Data(s)
      /\ Cardinality(Data(t)) = n + 1
      /\ Place(t, Len(s) + 1) = n + 1
      /\ Meant(t, Len(s) + 1) = transmit[n + 1]
  BY DataGrows
<1>4. \A k \in Data(t) : Place(t, k) \in 1..(n + 1) /\ Meant(t, k) = transmit[Place(t, k)]
  BY <1>2, <1>3
<1>5. \A k \in 2..Len(t) : t[k] # Flag
  <2> SUFFICES ASSUME NEW k \in 2..Len(t) PROVE t[k] # Flag
    OBVIOUS
  <2>1. k = Len(s) + 1 \/ (k \in 2..Len(s) /\ k \in 1..Len(s))
    BY <1>1
  <2> QED
    BY <1>1, <2>1 DEF Flag
<1>6. t[Len(t)] # Esc
  BY <1>1
<1> QED
  BY <1>1, <1>3, <1>4, <1>5, <1>6 DEF Carries

(* What is on the wire was carried to its end; it is forgotten before the  *)
(* first answer is received.                                               *)
Carried ==
    /\ fpc = "escape" => Carries(send_tmp, i)
    /\ wire # <<>> => fpc = "call"
    /\ WireCarriesPacket

(* Of a frame that has just been begun nothing is carried.                 *)
LEMMA BegunCarries ==
  ASSUME NEW s \in {<<>>, <<Flag>>}
  PROVE  Carries(s, 0)
<1>1. Data(s) = {}
  <2>1. CASE s = <<>>
    BY <2>1 DEF Data
  <2>2. CASE s = <<Flag>>
    BY <2>2 DEF Data
  <2> QED
    BY <2>1, <2>2
<1>2. \A k \in 2..Len(s) : s[k] # Flag
  <2>1. Len(s) \in {0, 1}
    OBVIOUS
  <2> QED
    BY <2>1
<1>3. s # <<>> => s[Len(s)] # Esc
  BY DEF Flag, Esc
<1> QED
  BY <1>1, <1>2, <1>3, FS_EmptySet DEF Carries

(* The next byte of the packet: masked twice it is what it was.            *)
LEMMA EscapeByteCarries ==
  ASSUME Escaping, EscapeByte, Carries(send_tmp, i)
  PROVE  Carries(send_tmp', i')
<1>1. /\ i \in Nat /\ i < Len(transmit) /\ transmit \in Seq(Payload)
      /\ send_tmp \in Seq(Nat) /\ i' = i + 1
      /\ send_tmp' = send_tmp \o Escaped(transmit[i + 1])
  BY DEF EscapeByte, Escaping
<1> DEFINE ch == transmit[i + 1]
<1>2. ch \in Nat
  <2>1. ch \in Payload
    BY <1>1
  <2>2. \A b \in Payload : b \in 0..255
    BY FramingAssumption
  <2> QED
    BY <2>1, <2>2
<1>3. CASE ch \in {Flag, Esc}
  <2> DEFINE t == Append(send_tmp, Esc)
             m == Masked(ch)
             u == Append(t, m)
  <2>1. m \in Nat /\ m \notin {Flag, Esc} /\ Masked(m) = ch
    BY <1>3 DEF Masked, Flag, Esc
  <2>2. Escaped(ch) = <<Esc, m>> /\ Esc \in Nat
    BY <1>3 DEF Escaped, Esc
  <2> HIDE DEF m, ch
  <2>3. send_tmp' = u
    BY <1>1, <2>1, <2>2 DEF ch
  <2>4. /\ t \in Seq(Nat) /\ t # <<>> /\ t[Len(t)] = Esc
        /\ Cardinality(Data(t)) = i
        /\ \A k \in Data(t) : Place(t, k) \in 1..i /\ Meant(t, k) = transmit[Place(t, k)]
        /\ \A k \in 2..Len(t) : t[k] # Flag
    BY <1>1, EscapeCarries
  <2> HIDE DEF t
  <2>5. transmit[i + 1] = IF t # <<>> /\ t[Len(t)] = Esc THEN Masked(m) ELSE m
    BY <2>1, <2>4 DEF ch
  <2>6. Carries(u, i + 1)
    BY <1>1, <2>1, <2>4, <2>5, ByteCarries
  <2> QED
    BY <1>1, <2>3, <2>6
<1>4. CASE ch \notin {Flag, Esc}
  <2>1. Escaped(ch) = <<ch>>
    BY <1>4 DEF Escaped
  <2> HIDE DEF ch
  <2>2. send_tmp' = Append(send_tmp, ch)
    BY <1>1, <1>2, <2>1 DEF ch
  <2>3. /\ Cardinality(Data(send_tmp)) = i
        /\ \A k \in Data(send_tmp) : /\ Place(send_tmp, k) \in 1..i
                                     /\ Meant(send_tmp, k) = transmit[Place(send_tmp, k)]
        /\ \A k \in 2..Len(send_tmp) : send_tmp[k] # Flag
        /\ send_tmp # <<>> => send_tmp[Len(send_tmp)] # Esc
    BY DEF Carries
  <2>4. transmit[i + 1] = IF send_tmp # <<>> /\ send_tmp[Len(send_tmp)] = Esc
                          THEN Masked(ch) ELSE ch
    BY <2>3 DEF ch
  <2>5. Carries(send_tmp', i + 1)
    BY <1>1, <1>2, <1>4, <2>2, <2>3, <2>4, ByteCarries
  <2> QED
    BY <1>1, <2>5
<1> QED
  BY <1>3, <1>4

(* The closing flag carries nothing, and is the only one behind the start. *)
LEMMA WritePacketCarries ==
  ASSUME Escaping, WritePacket, Carries(send_tmp, i)
  PROVE  WireCarriesPacket'
<1>1. /\ i \in Nat /\ i = Len(transmit) /\ send_tmp \in Seq(Nat) /\ transmit' = transmit
      /\ wire' = Append(send_tmp, Flag)
  BY DEF WritePacket, Escaping
<1> DEFINE t == Append(send_tmp, Flag)
<1>2. /\ Len(t) = Len(send_tmp) + 1 /\ \A k \in 1..Len(send_tmp) : t[k] = send_tmp[k]
      /\ Flag \in Nat /\ Len(send_tmp) \in Nat
  BY <1>1 DEF Flag
<1>3. Data(t) = Data(send_tmp)
      /\ \A k \in Data(send_tmp) : Place(t, k) = Place(send_tmp, k)
                                   /\ Meant(t, k) = Meant(send_tmp, k)
  BY <1>1, <1>2, DataGrows
<1> HIDE DEF t
<1>4. /\ Cardinality(Data(t)) = Len(transmit)
      /\ \A k \in Data(t) : Meant(t, k) = transmit[Place(t, k)]
  BY <1>1, <1>3 DEF Carries
<1>5. \A k \in 2..(Len(t) - 1) : t[k] # Flag
  BY <1>2 DEF Carries
<1>6. wire' = t
  BY <1>1 DEF t
<1> QED
  BY <1>1, <1>4, <1>5, <1>6 DEF WireCarriesPacket

(* The module reads the packet that was composed from what send_packet     *)
(* puts on the wire, whatever its bytes are and however many are escaped.  *)
THEOREM PacketsArrive == Spec => []WireCarriesPacket
<1>1. Init => Carried
  BY DEF Init, FramingInit, Carried, WireCarriesPacket
<1>2. Escaping /\ Carried /\ [Next]_vars => Carried'
  <2> SUFFICES ASSUME Escaping, Carried, [Next]_vars PROVE Carried'
    OBVIOUS
  <2> USE DEF outVars, inVars
  <2>1. CASE UNCHANGED framingVars
    BY <2>1 DEF framingVars, Carried, Carries, WireCarriesPacket
  <2>2. CASE Compose
    <3>1. /\ send_tmp' \in {<<>>, <<Flag>>} /\ i' = 0 /\ fpc' = "escape" /\ wire' = <<>>
      BY <2>2 DEF Compose, Carried
    <3>2. Carries(send_tmp, i)'
      <4>1. Data(send_tmp') = {}
        BY <3>1 DEF Data
      <4>2. Carries(send_tmp', 0)
        BY <3>1, BegunCarries
      <4> QED
        BY <3>1, <4>1, <4>2 DEF Carries
    <3> QED
      BY <3>1, <3>2 DEF Carried, WireCarriesPacket
  <2>3. CASE EscapeByte
    <3>1. wire' = <<>> /\ fpc = "escape" /\ fpc' = "escape" /\ transmit' = transmit
      BY <2>3 DEF EscapeByte, Carried
    <3>2. Carries(send_tmp', i')
      BY <2>3, <3>1, EscapeByteCarries DEF Carried
    <3>3. Carries(send_tmp, i)'
      BY <3>1, <3>2 DEF Carries
    <3> QED
      BY <3>1, <3>3 DEF Carried, WireCarriesPacket
  <2>4. CASE WritePacket
    <3>1. fpc = "escape" /\ fpc' = "call"
      BY <2>4 DEF WritePacket
    <3> QED
      BY <2>4, <3>1, WritePacketCarries DEF Carried
  <2>5. CASE CallReceive
    BY <2>5 DEF CallReceive, Carried, WireCarriesPacket
  <2>6. CASE FrameArrives \/ Timeout \/ Handled
    <3>1. wire' = <<>> /\ fpc' \in {"receive", "call"}
      BY <2>6 DEF FrameArrives, Timeout, Handled, Carried
    <3> QED
      BY <3>1 DEF Carried, WireCarriesPacket
  <2>7. CASE Read
    <3>1. wire' = <<>>
      BY <2>7 DEF Read, Carried
    <3>2. fpc' \in {"receive", "returned"}
      BY <2>7 DEF Read
    <3> QED
      BY <3>1, <3>2 DEF Carried, WireCarriesPacket
  <2>8. CASE Flush
    BY <2>8 DEF Flush, Carried, Carries, WireCarriesPacket
  <2> QED
    BY <2>1, <2>2, <2>3, <2>4, <2>5, <2>6, <2>7, <2>8 DEF Next, FramingNext, vars
<1>3. Carried => WireCarriesPacket
  BY DEF Carried
<1> QED
  BY <1>1, <1>2, <1>3, EscapingHolds, PTL DEF Spec

-----------------------------------------------------------------------------
(* What receive_packet reports. First the frame that the module sends:     *)
(* where its bytes end.                                                    *)
LEMMA EndOfGrows ==
  ASSUME NEW f \in Seq(Nat)
  PROVE  /\ EndOf(f, 0) = 0
         /\ \A k \in 0..Len(f) : EndOf(f, k) \in Nat /\ k <= EndOf(f, k)
         /\ \A k \in 1..Len(f) : EndOf(f, k) = EndOf(f, k - 1) + Len(Escaped(f[k]))
         /\ \A k \in 0..Len(f) : \A j \in 0..(k - 1) : EndOf(f, j) < EndOf(f, k)
<1> DEFINE Twice(k) == {j \in 1..k : Len(Escaped(f[j])) > 1}
<1>1. \A k \in 0..Len(f) : IsFiniteSet(Twice(k)) /\ Cardinality(Twice(k)) \in Nat
  <2> SUFFICES ASSUME NEW k \in 0..Len(f)
               PROVE  IsFiniteSet(Twice(k)) /\ Cardinality(Twice(k)) \in Nat
    OBVIOUS
  <2>1. 1 \in Int /\ k \in Int
    OBVIOUS
  <2>2. IsFiniteSet(1..k)
    BY <2>1, FS_Interval, Zenon
  <2>3. Twice(k) \in SUBSET (1..k)
    OBVIOUS
  <2> QED
    BY <2>2, <2>3, FS_Subset, FS_CardinalityType
<1>2. \A k \in 0..Len(f) : EndOf(f, k) = k + Cardinality(Twice(k))
  BY DEF EndOf
<1>3. Twice(0) = {}
  OBVIOUS
<1>4. \A k \in 1..Len(f) : Len(Escaped(f[k])) \in {1, 2}
  BY DEF Escaped
<1>5. ASSUME NEW k \in 1..Len(f)
      PROVE  Cardinality(Twice(k)) = Cardinality(Twice(k - 1)) + Len(Escaped(f[k])) - 1
  <2>1. k - 1 \in 0..Len(f) /\ k \notin Twice(k - 1)
    OBVIOUS
  <2>2. IsFiniteSet(Twice(k - 1)) /\ Cardinality(Twice(k - 1)) \in Nat
    BY <1>1, <2>1
  <2>3. CASE Len(Escaped(f[k])) = 1
    <3>1. \A j \in 1..k : j \in 1..(k - 1) \/ j = k
      OBVIOUS
    <3>2. 1..(k - 1) \subseteq 1..k /\ ~(Len(Escaped(f[k])) > 1)
      BY <2>3
    <3>3. Twice(k) = Twice(k - 1)
      BY <3>1, <3>2, Zenon
    <3> HIDE DEF Twice
    <3> QED
      BY <2>2, <2>3, <3>3
  <2>4. CASE Len(Escaped(f[k])) = 2
    <3>1. \A j \in 1..k : j \in 1..(k - 1) \/ j = k
      OBVIOUS
    <3>2. 1..(k - 1) \subseteq 1..k /\ k \in 1..k /\ Len(Escaped(f[k])) > 1
      BY <2>4
    <3>3. Twice(k) = Twice(k - 1) \cup {k}
      BY <3>1, <3>2, Zenon
    <3> HIDE DEF Twice
    <3>4. Cardinality(Twice(k - 1) \cup {k}) = Cardinality(Twice(k - 1)) + 1
      BY <2>1, <2>2, FS_AddElement
    <3> QED
      BY <2>2, <2>4, <3>3, <3>4
  <2> QED
    BY <1>4, <2>3, <2>4
<1>6. ASSUME NEW k \in 0..Len(f), NEW j \in 0..(k - 1)
      PROVE  EndOf(f, j) < EndOf(f, k)
  <2>1. j \in 0..Len(f) /\ Twice(j) \in SUBSET Twice(k)
    OBVIOUS
  <2> HIDE DEF Twice
  <2>2. Cardinality(Twice(j)) <= Cardinality(Twice(k))
    BY <1>1, <2>1, FS_Subset
  <2> QED
    BY <1>1, <1>2, <2>1, <2>2
<1> HIDE DEF Twice
<1>7. EndOf(f, 0) = 0
  <2>1. 0 \in 0..Len(f)
    OBVIOUS
  <2>2. Cardinality(Twice(0)) = 0
    BY <1>3, FS_EmptySet, Zenon
  <2> QED
    BY <1>2, <2>1, <2>2
<1>8. \A k \in 0..Len(f) : EndOf(f, k) \in Nat /\ k <= EndOf(f, k)
  BY <1>1, <1>2
<1>9. \A k \in 1..Len(f) : EndOf(f, k) = EndOf(f, k - 1) + Len(Escaped(f[k]))
  <2> SUFFICES ASSUME NEW k \in 1..Len(f)
               PROVE  EndOf(f, k) = EndOf(f, k - 1) + Len(Escaped(f[k]))
    OBVIOUS
  <2>1. k \in 0..Len(f) /\ k - 1 \in 0..Len(f)
    OBVIOUS
  <2>2. /\ Cardinality(Twice(k - 1)) \in Nat /\ Len(Escaped(f[k])) \in {1, 2}
        /\ Cardinality(Twice(k)) = Cardinality(Twice(k - 1)) + Len(Escaped(f[k])) - 1
    BY <1>1, <1>4, <1>5, <2>1
  <2>3. EndOf(f, k) = k + Cardinality(Twice(k))
        /\ EndOf(f, k - 1) = k - 1 + Cardinality(Twice(k - 1))
    BY <1>2, <2>1
  <2> QED
    BY <2>2, <2>3
<1> QED
  BY <1>6, <1>7, <1>8, <1>9

(* The wire holds at the end of each byte what stands for it, and nothing  *)
(* but escapes elsewhere.                                                  *)
LEMMA OnWireIs ==
  ASSUME NEW f \in Seq(Nat), NEW w, w = OnWire(f)
  PROVE  /\ w \in Seq(Nat) /\ Len(w) = EndOf(f, Len(f))
         /\ \A k \in 1..Len(f) : /\ EndOf(f, k) \in 1..Len(w)
                                 /\ w[EndOf(f, k)] = Last(Escaped(f[k]))
                                 /\ w[EndOf(f, k)] \notin {Flag, Esc}
         /\ \A p \in 1..Len(w) : (\A k \in 1..Len(f) : EndOf(f, k) # p) => w[p] = Esc
<1> DEFINE e(k) == EndOf(f, k)
           Sym(p) == IF \E k \in 1..Len(f) : e(k) = p
                    THEN Last(Escaped(f[CHOOSE k \in 1..Len(f) : e(k) = p]))
                    ELSE Esc
<1>1. /\ \A k \in 0..Len(f) : e(k) \in Nat /\ k <= e(k)
      /\ \A k \in 0..Len(f) : \A j \in 0..(k - 1) : e(j) < e(k)
  BY EndOfGrows
<1>2. w = [p \in 1..e(Len(f)) |-> Sym(p)]
  BY DEF OnWire
<1>3. ASSUME NEW k \in 1..Len(f)
      PROVE  Last(Escaped(f[k])) \in Nat /\ Last(Escaped(f[k])) \notin {Flag, Esc}
  <2>1. f[k] \in Nat
    OBVIOUS
  <2>2. CASE f[k] \in {Flag, Esc}
    <3>1. Last(Escaped(f[k])) = Masked(f[k])
      BY <2>2 DEF Escaped, Last
    <3> QED
      BY <2>2, <3>1 DEF Masked, Flag, Esc
  <2>3. CASE f[k] \notin {Flag, Esc}
    <3>1. Last(Escaped(f[k])) = f[k]
      BY <2>3 DEF Escaped, Last
    <3> QED
      BY <2>1, <2>3, <3>1
  <2> QED
    BY <2>2, <2>3
<1>4. ASSUME NEW k \in 1..Len(f)
      PROVE  e(k) \in 1..e(Len(f)) /\ Sym(e(k)) = Last(Escaped(f[k]))
  <2>1. k \in 0..Len(f) /\ Len(f) \in 0..Len(f) /\ (k = Len(f) \/ k \in 0..(Len(f) - 1))
    OBVIOUS
  <2>2. e(k) \in 1..e(Len(f))
    <3> HIDE DEF e
    <3> QED BY <1>1, <2>1
  <2>3. \A j \in 1..Len(f) : e(j) = e(k) => j = k
    <3> SUFFICES ASSUME NEW j \in 1..Len(f), e(j) = e(k) PROVE j = k
      OBVIOUS
    <3>1. j \in 0..Len(f) /\ (j = k \/ j \in 0..(k - 1) \/ k \in 0..(j - 1))
      OBVIOUS
    <3> HIDE DEF e
    <3> QED BY <1>1, <2>1, <3>1
  <2> HIDE DEF e
  <2>4. (CHOOSE j \in 1..Len(f) : e(j) = e(k)) = k
    BY <2>3
  <2> QED
    BY <2>2, <2>4
<1>5. \A p \in 1..e(Len(f)) : Sym(p) \in Nat
  <2> SUFFICES ASSUME NEW p \in 1..e(Len(f)) PROVE Sym(p) \in Nat
    OBVIOUS
  <2>1. CASE \E k \in 1..Len(f) : e(k) = p
    <3>1. PICK k \in 1..Len(f) : e(k) = p
      BY <2>1
    <3> HIDE DEF e, Sym
    <3> QED BY <1>3, <1>4, <3>1
  <2>2. CASE ~\E k \in 1..Len(f) : e(k) = p
    <3>1. Sym(p) = Esc
      BY <2>2
    <3> QED BY <3>1 DEF Esc
  <2> QED
    BY <2>1, <2>2
<1>6. e(Len(f)) \in Nat
  <2>1. Len(f) \in 0..Len(f)
    OBVIOUS
  <2> QED BY <1>1, <2>1
<1>7. \A p \in 1..e(Len(f)) : (\A k \in 1..Len(f) : e(k) # p) => Sym(p) = Esc
  OBVIOUS
<1> HIDE DEF Sym, e
<1>8. w \in Seq(Nat) /\ Len(w) = e(Len(f)) /\ \A p \in 1..e(Len(f)) : w[p] = Sym(p)
  BY <1>2, <1>5, <1>6
<1>9. \A k \in 1..Len(f) : e(k) \in 1..Len(w) /\ w[e(k)] = Last(Escaped(f[k])) /\ w[e(k)] \notin {Flag, Esc}
  BY <1>3, <1>4, <1>8
<1>10. \A p \in 1..Len(w) : (\A k \in 1..Len(f) : e(k) # p) => w[p] = Esc
  BY <1>7, <1>8
<1> QED
  BY <1>8, <1>9, <1>10 DEF e

(* Sets between which a function leads both ways have the same size.       *)
LEMMA SameSize ==
  ASSUME NEW S, IsFiniteSet(S), NEW T, NEW g \in [S -> T],
         \A x, y \in S : g[x] = g[y] => x = y,
         \A t \in T : \E x \in S : g[x] = t
  PROVE  IsFiniteSet(T) /\ Cardinality(T) = Cardinality(S)
<1>1. g \in Injection(S, T) /\ g \in Surjection(S, T)
  BY DEF Injection, Surjection, IsInjective
<1>2. g \in Bijection(S, T)
  BY <1>1 DEF Bijection
<1>3. ExistsBijection(S, T)
  BY <1>2 DEF ExistsBijection
<1> QED
  BY <1>3, FS_Bijection

(* What a frame holds, once the escapes are left out and what follows one  *)
(* is masked again: byte k is where k - 1 bytes that are no escapes stand  *)
(* before it.                                                              *)
Before(w, p) == Cardinality({q \in 1..(p - 1) : w[q] # Esc})

LEMMA FrameCarries ==
  ASSUME NEW f \in Seq(Nat), NEW w, w = OnWire(f), NEW k \in 1..Len(f)
  PROVE  \E p \in 1..Len(w) :
            /\ w[p] # Esc
            /\ Before(w, p) = k - 1
            /\ f[k] = IF p > 1 /\ w[p - 1] = Esc THEN Masked(w[p]) ELSE w[p]
<1> DEFINE e(j) == EndOf(f, j)
           p == e(k)
           P == {q \in 1..(p - 1) : w[q] # Esc}
<1>1. /\ e(0) = 0
      /\ \A j \in 0..Len(f) : e(j) \in Nat /\ j <= e(j)
      /\ \A j \in 1..Len(f) : e(j) = e(j - 1) + Len(Escaped(f[j]))
      /\ \A j \in 0..Len(f) : \A m \in 0..(j - 1) : e(m) < e(j)
  BY EndOfGrows
<1>2. /\ w \in Seq(Nat) /\ Len(w) \in Nat
      /\ \A j \in 1..Len(f) : /\ e(j) \in 1..Len(w)
                              /\ w[e(j)] = Last(Escaped(f[j]))
                              /\ w[e(j)] \notin {Flag, Esc}
      /\ \A q \in 1..Len(w) : (\A j \in 1..Len(f) : e(j) # q) => w[q] = Esc
  BY OnWireIs
<1>3. \A j \in 1..Len(f) : e(j) < p <=> j < k
  <2> SUFFICES ASSUME NEW j \in 1..Len(f) PROVE e(j) < p <=> j < k
    OBVIOUS
  <2>1. j \in 0..Len(f) /\ k \in 0..Len(f) /\ (j = k \/ j \in 0..(k - 1) \/ k \in 0..(j - 1))
    OBVIOUS
  <2> HIDE DEF e
  <2> QED BY <1>1, <2>1
<1>4. Before(w, p) = k - 1
  <2> DEFINE g == [j \in 1..(k - 1) |-> e(j)]
  <2>1. 1 \in Int /\ k - 1 \in Int
    OBVIOUS
  <2>2. IsFiniteSet(1..(k - 1)) /\ Cardinality(1..(k - 1)) = k - 1
    BY <2>1, FS_Interval
  <2>3. \A j \in 1..(k - 1) : j \in 1..Len(f) /\ j < k
    OBVIOUS
  <2> HIDE DEF e
  <2>4. \A j \in 1..(k - 1) : e(j) \in P
    <3> SUFFICES ASSUME NEW j \in 1..(k - 1) PROVE e(j) \in P
      OBVIOUS
    <3>1. e(j) \in Nat /\ e(j) \in 1..Len(w) /\ e(j) < p /\ p \in Nat /\ w[e(j)] # Esc
      BY <1>2, <1>3, <2>3
    <3> QED BY <3>1
  <2>5. \A x, y \in 1..(k - 1) : e(x) = e(y) => x = y
    <3> SUFFICES ASSUME NEW x \in 1..(k - 1), NEW y \in 1..(k - 1), e(x) = e(y) PROVE x = y
      OBVIOUS
    <3>1. x \in 0..Len(f) /\ y \in 0..Len(f) /\ (x = y \/ x \in 0..(y - 1) \/ y \in 0..(x - 1))
      OBVIOUS
    <3> QED BY <1>1, <3>1
  <2>6. \A t \in P : \E x \in 1..(k - 1) : e(x) = t
    <3> SUFFICES ASSUME NEW t \in P PROVE \E x \in 1..(k - 1) : e(x) = t
      OBVIOUS
    <3>1. t \in 1..Len(w) /\ t < p /\ w[t] # Esc
      BY <1>2
    <3>2. PICK j \in 1..Len(f) : e(j) = t
      BY <1>2, <3>1
    <3>3. j \in 1..(k - 1)
      BY <1>3, <3>1, <3>2
    <3> QED BY <3>2, <3>3
  <2>7. /\ g \in [1..(k - 1) -> P] /\ \A x, y \in 1..(k - 1) : g[x] = g[y] => x = y
        /\ \A t \in P : \E x \in 1..(k - 1) : g[x] = t
    BY <2>4, <2>5, <2>6
  <2> DEFINE S == 1..(k - 1)
  <2> HIDE DEF g, P, S
  <2>8. Cardinality(P) = Cardinality(S)
    BY <2>2, <2>7, SameSize DEF S
  <2> QED
    BY <2>2, <2>8 DEF Before, P, p, S
<1>5. k - 1 \in 0..Len(f) /\ e(k - 1) \in Nat /\ p = e(k - 1) + Len(Escaped(f[k])) /\ p \in 1..Len(w)
  <2>1. k - 1 \in 0..Len(f)
    OBVIOUS
  <2> QED BY <1>1, <1>2, <2>1
<1>6. CASE f[k] \in {Flag, Esc}
  <2>1. Escaped(f[k]) = <<Esc, Masked(f[k])>>
    BY <1>6 DEF Escaped
  <2>2. p = e(k - 1) + 2 /\ w[p] = Masked(f[k])
    <3>1. Len(Escaped(f[k])) = 2 /\ Last(Escaped(f[k])) = Masked(f[k])
      BY <2>1 DEF Last
    <3> HIDE DEF e
    <3> QED BY <1>2, <1>5, <3>1
  <2>3. \A j \in 1..Len(f) : e(j) # p - 1
    <3> SUFFICES ASSUME NEW j \in 1..Len(f), e(j) = p - 1 PROVE FALSE
      OBVIOUS
    <3>1. j < k /\ j \in 0..Len(f) /\ (j = k - 1 \/ j \in 0..((k - 1) - 1))
      <4>1. p - 1 < p
        BY <1>5
      <4> QED BY <1>3, <4>1
    <3> HIDE DEF e
    <3>2. e(j) \in Nat /\ (e(j) = e(k - 1) \/ e(j) < e(k - 1))
      BY <1>1, <1>5, <3>1
    <3> QED BY <1>5, <2>2, <3>2
  <2>4. p - 1 \in 1..Len(w) /\ p > 1
    BY <1>2, <1>5, <2>2
  <2>5. w[p - 1] = Esc
    BY <1>2, <2>3, <2>4
  <2>6. Masked(Masked(f[k])) = f[k]
    BY <1>6 DEF Masked, Flag, Esc
  <2> HIDE DEF p
  <2> QED
    BY <1>2, <1>4, <1>5, <2>2, <2>4, <2>5, <2>6 DEF p
<1>7. CASE f[k] \notin {Flag, Esc}
  <2>1. Escaped(f[k]) = <<f[k]>>
    BY <1>7 DEF Escaped
  <2>2. p = e(k - 1) + 1 /\ w[p] = f[k]
    <3>1. Len(Escaped(f[k])) = 1 /\ Last(Escaped(f[k])) = f[k]
      BY <2>1 DEF Last
    <3> HIDE DEF e
    <3> QED BY <1>2, <1>5, <3>1
  <2>3. p > 1 => w[p - 1] # Esc
    <3> SUFFICES ASSUME p > 1 PROVE w[p - 1] # Esc
      OBVIOUS
    <3>1. k - 1 # 0
      BY <1>1, <2>2
    <3>2. k - 1 \in 1..Len(f)
      BY <3>1
    <3> HIDE DEF e
    <3>3. p - 1 = e(k - 1)
      BY <1>5, <2>2
    <3> QED BY <1>2, <3>2, <3>3
  <2> HIDE DEF p
  <2> QED
    BY <1>2, <1>4, <1>5, <2>2, <2>3 DEF p
<1> QED
  BY <1>6, <1>7

(* There is no flag inside a frame.                                        *)
LEMMA NoFlagInside ==
  ASSUME NEW f \in Seq(Nat), NEW w, w = OnWire(f)
  PROVE  /\ w \in Seq(Nat) /\ Len(w) \in Nat /\ \A p \in 1..Len(w) : w[p] # Flag
         /\ f # <<>> => Len(w) > 0
<1>1. /\ w \in Seq(Nat) /\ Len(w) = EndOf(f, Len(f))
      /\ \A k \in 1..Len(f) : w[EndOf(f, k)] \notin {Flag, Esc}
      /\ \A p \in 1..Len(w) : (\A k \in 1..Len(f) : EndOf(f, k) # p) => w[p] = Esc
  BY OnWireIs
<1>2. Esc # Flag
  BY DEF Esc, Flag
<1>3. ASSUME NEW p \in 1..Len(w) PROVE w[p] # Flag
  <2>1. CASE \E k \in 1..Len(f) : EndOf(f, k) = p
    BY <1>1, <2>1
  <2>2. CASE \A k \in 1..Len(f) : EndOf(f, k) # p
    BY <1>1, <1>2, <2>2
  <2> QED BY <2>1, <2>2
<1>4. ASSUME f # <<>> PROVE Len(w) > 0
  <2>1. Len(f) \in 0..Len(f) /\ Len(f) > 0
    BY <1>4
  <2>2. Len(f) <= EndOf(f, Len(f)) /\ EndOf(f, Len(f)) \in Nat
    BY <2>1, EndOfGrows
  <2> QED BY <1>1, <2>1, <2>2
<1> QED
  BY <1>1, <1>3, <1>4

(* The loop of remove_escape_hdlc_flag puts each byte that is no escape at *)
(* an index of its own, which counts those before it.                      *)
LEMMA IndexCounts ==
  ASSUME NEW buffer, NEW first \in Nat, NEW p \in Nat, first <= p
  PROVE  /\ Index(buffer, first, p) \in Nat /\ first + Index(buffer, first, p) <= p
         /\ \A q \in first..(p - 1) :
               buffer[q] # Esc => Index(buffer, first, q) < Index(buffer, first, p)
<1> DEFINE S(x) == {r \in first..(x - 1) : buffer[r] # Esc}
<1>1. \A x \in Nat : first <= x => /\ IsFiniteSet(S(x)) /\ Cardinality(S(x)) \in Nat
                                  /\ Cardinality(S(x)) <= x - first
  <2> SUFFICES ASSUME NEW x \in Nat, first <= x
               PROVE  /\ IsFiniteSet(S(x)) /\ Cardinality(S(x)) \in Nat
                      /\ Cardinality(S(x)) <= x - first
    OBVIOUS
  <2>1. first \in Int /\ x - 1 \in Int
    OBVIOUS
  <2>2. IsFiniteSet(first..(x - 1))
        /\ Cardinality(first..(x - 1)) = IF first > x - 1 THEN 0 ELSE x - 1 - first + 1
    BY <2>1, FS_Interval
  <2>3. S(x) \in SUBSET (first..(x - 1))
    OBVIOUS
  <2> HIDE DEF S
  <2>4. IsFiniteSet(S(x)) /\ Cardinality(S(x)) <= Cardinality(first..(x - 1))
    BY <2>2, <2>3, FS_Subset
  <2> QED
    BY <2>2, <2>4, FS_CardinalityType
<1>2. ASSUME NEW q \in first..(p - 1), buffer[q] # Esc
      PROVE  Cardinality(S(q)) < Cardinality(S(p))
  <2>1. q \in Nat /\ first <= q /\ q \notin S(q)
    OBVIOUS
  <2>2. S(q) \cup {q} \in SUBSET S(p)
    BY <1>2
  <2> HIDE DEF S
  <2>3. Cardinality(S(q) \cup {q}) = Cardinality(S(q)) + 1
    BY <1>1, <2>1, FS_AddElement
  <2>4. Cardinality(S(q) \cup {q}) <= Cardinality(S(p))
    BY <1>1, <2>2, FS_Subset
  <2> QED
    BY <1>1, <2>1, <2>3, <2>4
<1>3. \A x : Index(buffer, first, x) = Cardinality(S(x))
  BY DEF Index
<1> HIDE DEF S
<1> QED
  BY <1>1, <1>2, <1>3

LEMMA MovedHolds ==
  ASSUME NEW n \in Nat, NEW buffer, DOMAIN buffer = 0..n,
         NEW first \in Nat, NEW len \in 0..n, NEW q \in first..(len - 1), buffer[q] # Esc
  PROVE  Moved(buffer, first, len).buffer[Index(buffer, first, q)]
            = Unmasked(buffer, first, len)[q]
<1> DEFINE x(r) == Index(buffer, first, r)
<1>1. x(q) \in Nat /\ x(q) <= q
  <2>1. q \in Nat /\ first <= q
    OBVIOUS
  <2>2. x(q) \in Nat /\ first + x(q) <= q
    BY <2>1, IndexCounts
  <2> HIDE DEF x
  <2> QED BY <2>1, <2>2
<1>2. x(len) \in Nat /\ x(q) < x(len)
  <2>1. len \in Nat /\ first <= len
    OBVIOUS
  <2> QED BY <2>1, IndexCounts
<1>3. ASSUME NEW r \in first..(len - 1), buffer[r] # Esc, x(r) = x(q)
      PROVE  r = q
  <2>1. r \in Nat /\ q \in Nat /\ first <= r /\ first <= q
    OBVIOUS
  <2>2. r < q => x(r) < x(q)
    <3> SUFFICES ASSUME r < q PROVE x(r) < x(q)
      OBVIOUS
    <3>1. r \in first..(q - 1)
      BY <2>1
    <3> QED BY <1>3, <2>1, <3>1, IndexCounts
  <2>3. q < r => x(q) < x(r)
    <3> SUFFICES ASSUME q < r PROVE x(q) < x(r)
      OBVIOUS
    <3>1. q \in first..(r - 1)
      BY <2>1
    <3> QED BY <2>1, <3>1, IndexCounts
  <2> HIDE DEF x
  <2> QED
    BY <1>1, <1>3, <2>1, <2>2, <2>3
<1>4. (CHOOSE r \in first..(len - 1) : buffer[r] # Esc /\ x(r) = x(q)) = q
  <2> HIDE DEF x
  <2> QED BY <1>3
<1>5. x(q) \in DOMAIN buffer
  <2> HIDE DEF x
  <2> QED BY <1>1
<1> DEFINE u == Unmasked(buffer, first, len)
           Source(p) == CHOOSE r \in first..(len - 1) : buffer[r] # Esc /\ x(r) = p
<1>6. Moved(buffer, first, len).buffer
         = [p \in DOMAIN buffer |-> IF p < x(len) THEN u[Source(p)]
                                    ELSE IF p = x(len) THEN 0 ELSE u[p]]
  BY DEF Moved
<1>7. Source(x(q)) = q
  BY <1>4
<1> HIDE DEF x, u, Source
<1>8. Moved(buffer, first, len).buffer[x(q)] = u[Source(x(q))]
  BY <1>1, <1>2, <1>5, <1>6
<1> QED
  BY <1>7, <1>8 DEF x, u

(* The first byte is found if there is one.                                *)
LEMMA FirstByteIs ==
  ASSUME NEW buffer, NEW z \in DOMAIN buffer, DOMAIN buffer \subseteq Nat,
         buffer[z] # Flag, \A q \in 0..(z - 1) : buffer[q] = Flag
  PROVE  FirstByte(buffer) = z
<1>1. ASSUME NEW p \in DOMAIN buffer, buffer[p] # Flag, \A q \in 0..(p - 1) : buffer[q] = Flag
      PROVE  p = z
  <2>1. p \in Nat /\ z \in Nat /\ (p = z \/ p \in 0..(z - 1) \/ z \in 0..(p - 1))
    OBVIOUS
  <2> QED BY <1>1, <2>1
<1> QED
  BY <1>1 DEF FirstByte

(* Behind leading flags, a frame is unescaped to the front of the buffer.  *)
LEMMA FrontMoved ==
  ASSUME NEW n \in Nat, NEW buffer, DOMAIN buffer = 0..n, NEW len \in 0..n,
         NEW f \in Seq(Nat), f # <<>>, NEW w, w = OnWire(f),
         NEW z \in Nat, z + Len(w) < len,
         \A p \in 0..(z - 1) : buffer[p] = Flag,
         \A j \in 1..Len(w) : buffer[z + j - 1] = w[j]
  PROVE  \A k \in 1..Len(f) : RemoveEscapeHdlcFlag(buffer, len).buffer[k - 1] = f[k]
<1>1. Len(w) \in Nat /\ Len(w) > 0 /\ \A j \in 1..Len(w) : w[j] # Flag
  BY NoFlagInside
<1>2. FirstByte(buffer) = z
  <2>1. 1 \in 1..Len(w) /\ z + 1 - 1 = z /\ z \in 0..n /\ 0..n \subseteq Nat
    BY <1>1
  <2>2. buffer[z] # Flag
    BY <1>1, <2>1
  <2> QED
    BY <2>1, <2>2, FirstByteIs
<1>3. z # len
  BY <1>1
<1>4. RemoveEscapeHdlcFlag(buffer, len).buffer = Moved(buffer, z, len).buffer
  BY <1>2, <1>3 DEF RemoveEscapeHdlcFlag
<1> SUFFICES ASSUME NEW k \in 1..Len(f) PROVE Moved(buffer, z, len).buffer[k - 1] = f[k]
  BY <1>4
<1>5. PICK p \in 1..Len(w) :
         /\ w[p] # Esc
         /\ Before(w, p) = k - 1
         /\ f[k] = IF p > 1 /\ w[p - 1] = Esc THEN Masked(w[p]) ELSE w[p]
  <2>1. f \in Seq(Nat) /\ w = OnWire(f) /\ k \in 1..Len(f)
    OBVIOUS
  <2> QED
    BY ONLY <2>1, FrameCarries
<1> DEFINE q == z + p - 1
<1>6. q \in z..(len - 1) /\ q \in 0..n /\ buffer[q] = w[p] /\ (q > z <=> p > 1) /\ q < len
  BY <1>1
<1>7. p > 1 => buffer[q - 1] = w[p - 1]
  <2> SUFFICES ASSUME p > 1 PROVE buffer[q - 1] = w[p - 1]
    OBVIOUS
  <2>1. p - 1 \in 1..Len(w) /\ q - 1 = z + (p - 1) - 1
    BY <1>1
  <2> QED BY <2>1
<1>8. Index(buffer, z, q) = k - 1
  <2> DEFINE S == {r \in 1..(p - 1) : w[r] # Esc}
             T == {r \in z..(q - 1) : buffer[r] # Esc}
             g == [r \in S |-> z + r - 1]
  <2>1. IsFiniteSet(S)
    <3>1. 1 \in Int /\ p - 1 \in Int
      OBVIOUS
    <3>2. IsFiniteSet(1..(p - 1))
      BY <3>1, FS_Interval, Zenon
    <3> QED BY <3>2, FS_Subset
  <2>2. \A r \in S : z + r - 1 \in T
    <3> SUFFICES ASSUME NEW r \in S PROVE z + r - 1 \in T
      OBVIOUS
    <3>1. r \in 1..Len(w) /\ r \in 1..(p - 1) /\ w[r] # Esc
      BY <1>1
    <3> QED BY <3>1
  <2>3. \A t \in T : t - z + 1 \in S /\ z + (t - z + 1) - 1 = t
    <3> SUFFICES ASSUME NEW t \in T PROVE t - z + 1 \in S /\ z + (t - z + 1) - 1 = t
      OBVIOUS
    <3>1. t \in Nat /\ t >= z /\ t <= q - 1 /\ buffer[t] # Esc
      OBVIOUS
    <3>2. t - z + 1 \in 1..(p - 1) /\ t - z + 1 \in 1..Len(w) /\ z + (t - z + 1) - 1 = t
      BY <1>1, <3>1
    <3>3. buffer[t] = w[t - z + 1]
      BY <3>2
    <3> QED BY <3>1, <3>2, <3>3
  <2>4. \A r \in S : r \in Nat
    OBVIOUS
  <2> HIDE DEF S, T
  <2>5. /\ g \in [S -> T] /\ \A x, y \in S : g[x] = g[y] => x = y
        /\ \A t \in T : \E x \in S : g[x] = t
    BY <2>2, <2>3, <2>4
  <2> HIDE DEF g
  <2>6. Cardinality(T) = Cardinality(S)
    BY <2>1, <2>5, SameSize
  <2> QED
    BY <1>5, <2>6 DEF Index, Before, S, T
<1>9. Unmasked(buffer, z, len)[q] = f[k]
  BY <1>5, <1>6, <1>7 DEF Unmasked
<1> HIDE DEF q
<1>10. buffer[q] # Esc
  BY <1>5, <1>6
<1>11. Moved(buffer, z, len).buffer[Index(buffer, z, q)] = Unmasked(buffer, z, len)[q]
  BY <1>6, <1>10, MovedHolds
<1> QED
  BY <1>8, <1>9, <1>11

-----------------------------------------------------------------------------
(* The bytes a on to z of a stream are flags, then a frame, then the flag  *)
(* that ends it.                                                           *)
Rec == [b : Nat, end : BOOLEAN]

Holds(s, a, z, f) ==
    LET w == OnWire(f) IN
    /\ a + Len(w) < z
    /\ \A q \in (a + 1)..z :
          /\ s[q].b = IF z - Len(w) <= q /\ q < z THEN w[q - (z - Len(w)) + 1] ELSE Flag
          /\ s[q].end <=> q = z

(* A stream is the frames fs, which end at these places.                   *)
Stops(s, fs, stop) ==
    /\ stop \in [0..Len(fs) -> 0..Len(s)]
    /\ stop[0] = 0 /\ stop[Len(fs)] = Len(s)
    /\ \A k \in 0..Len(fs) : \A j \in 0..(k - 1) : stop[j] < stop[k]
    /\ \A k \in 1..Len(fs) : Holds(s, stop[k - 1], stop[k], fs[k])

Lay(s, fs) == \E stop : Stops(s, fs, stop)

LEMMA FrameTypes ==
  ASSUME NEW f \in Frames
  PROVE  /\ f \in Seq(Nat) /\ f # <<>>
         /\ OnWire(f) \in Seq(Nat) /\ Len(OnWire(f)) \in Nat /\ Len(OnWire(f)) > 0
         /\ \A p \in 1..Len(OnWire(f)) : OnWire(f)[p] # Flag
<1>1. f \in Seq(Payload) /\ f # <<>>
  BY FramingAssumption
<1>2. Payload \subseteq Nat
  BY FramingAssumption
<1>3. f \in Seq(Nat)
  <2>1. Len(f) \in Nat /\ f \in [1..Len(f) -> Payload]
    BY <1>1
  <2>2. f \in [1..Len(f) -> Nat]
    BY <1>2, <2>1
  <2> QED BY <2>1, <2>2
<1> QED
  BY <1>1, <1>3, NoFlagInside

LEMMA LayEmpty == Lay(<<>>, <<>>)
<1> DEFINE stop == [k \in 0..0 |-> 0]
<1>1. Stops(<<>>, <<>>, stop)
  BY DEF Stops
<1> QED
  BY <1>1 DEF Lay

(* A frame that stands elsewhere is still one, without some of its flags,  *)
(* too.                                                                    *)
LEMMA HoldsMoves ==
  ASSUME NEW s, NEW t, NEW f \in Frames, NEW a \in Nat, NEW z \in Nat, Holds(s, a, z, f),
         NEW c \in Nat, a <= c, c + Len(OnWire(f)) < z,
         NEW d \in Int, \A q \in (c + 1)..z : t[q + d] = s[q]
  PROVE  Holds(t, c + d, z + d, f)
<1> DEFINE w == OnWire(f)
           B(q, e) == IF e - Len(w) <= q /\ q < e THEN w[q - (e - Len(w)) + 1] ELSE Flag
<1>1. Len(w) \in Nat
  BY FrameTypes
<1>2. \A q \in (a + 1)..z : s[q].b = B(q, z) /\ (s[q].end <=> q = z)
  BY DEF Holds
<1>3. \A q \in Int : B(q + d, z + d) = B(q, z)
  <2> HIDE DEF w
  <2> SUFFICES ASSUME NEW q \in Int PROVE B(q + d, z + d) = B(q, z)
    OBVIOUS
  <2>1. /\ (z + d) - Len(w) <= q + d <=> z - Len(w) <= q
        /\ q + d < z + d <=> q < z
        /\ (q + d) - ((z + d) - Len(w)) + 1 = q - (z - Len(w)) + 1
    BY <1>1
  <2> QED BY <2>1
<1> HIDE DEF B, w
<1>4. ASSUME NEW p \in (c + d + 1)..(z + d)
      PROVE  t[p].b = B(p, z + d) /\ (t[p].end <=> p = z + d)
  <2> DEFINE q == p - d
  <2>1. q \in (c + 1)..z /\ q \in (a + 1)..z /\ q \in Int /\ q + d = p /\ (q = z <=> p = z + d)
    OBVIOUS
  <2> HIDE DEF q
  <2>2. t[p] = s[q] /\ B(p, z + d) = B(q, z)
    BY <1>3, <2>1
  <2> QED BY <1>2, <2>1, <2>2
<1>5. c + d + Len(w) < z + d
  BY <1>1 DEF w
<1> QED
  BY <1>4, <1>5 DEF Holds, B, w

(* What the module sends at once.                                          *)
Sent(b) == [k \in 1..Len(b) |-> [b |-> b[k], end |-> k = Len(b)]]

LEMMA SentIs ==
  ASSUME NEW b \in Seq(Nat)
  PROVE  /\ Sent(b) \in Seq(Rec) /\ Len(Sent(b)) = Len(b)
         /\ \A j \in 1..Len(b) : Sent(b)[j].b = b[j] /\ (Sent(b)[j].end <=> j = Len(b))
<1>1. Len(b) \in Nat /\ \A k \in 1..Len(b) : b[k] \in Nat
  OBVIOUS
<1>2. \A k \in 1..Len(b) : [b |-> b[k], end |-> k = Len(b)] \in Rec
  BY <1>1, Zenon DEF Rec
<1>3. Sent(b) \in [1..Len(b) -> Rec]
  BY <1>2, Zenon DEF Sent
<1>4. Sent(b) \in Seq(Rec) /\ Len(Sent(b)) = Len(b)
  <2> DEFINE x == Sent(b)
             R == Rec
  <2>1. x \in [1..Len(b) -> R]
    BY <1>3
  <2> HIDE DEF x, R
  <2>2. x \in Seq(R) /\ Len(x) = Len(b)
    BY <1>1, <2>1
  <2> QED BY <2>2 DEF x, R
<1>5. \A j \in 1..Len(b) : Sent(b)[j].b = b[j] /\ (Sent(b)[j].end <=> j = Len(b))
  BY Zenon DEF Sent
<1> QED
  BY <1>4, <1>5

LEMMA SentHolds ==
  ASSUME NEW f \in Frames, NEW lead \in {<<>>, <<Flag>>},
         NEW b, b = lead \o OnWire(f) \o <<Flag>>
  PROVE  b \in Seq(Nat) /\ Len(b) > 0 /\ Holds(Sent(b), 0, Len(b), f)
<1> DEFINE w == OnWire(f)
           l == Len(lead)
<1>1. w \in Seq(Nat) /\ Len(w) \in Nat
  BY FrameTypes
<1>2. l \in {0, 1} /\ lead \in Seq(Nat) /\ \A j \in 1..l : lead[j] = Flag
  <2>1. CASE lead = <<>>
    BY <2>1
  <2>2. CASE lead = <<Flag>>
    BY <2>2 DEF Flag
  <2> QED BY <2>1, <2>2
<1> DEFINE x == lead \o w
<1>3. b = x \o <<Flag>>
  OBVIOUS
<1> HIDE DEF w
<1>4. x \in Seq(Nat) /\ Len(x) = l + Len(w)
      /\ \A j \in 1..(l + Len(w)) : x[j] = IF j <= l THEN Flag ELSE w[j - l]
  BY <1>1, <1>2
<1> HIDE DEF x, l
<1>5. /\ b \in Seq(Nat) /\ Len(b) = l + Len(w) + 1
      /\ \A j \in 1..Len(b) : b[j] = IF l < j /\ j <= l + Len(w) THEN w[j - l] ELSE Flag
  <2>1. Flag \in Nat
    BY DEF Flag
  <2>2. x \in Seq(Nat)
    BY <1>4
  <2>3. b \in Seq(Nat) /\ Len(b) = Len(x) + 1 /\ b[Len(x) + 1] = Flag
        /\ \A j \in 1..Len(x) : b[j] = x[j]
    BY ONLY <1>3, <2>1, <2>2
  <2>4. Len(b) = l + Len(w) + 1
    BY <1>4, <2>3
  <2>5. ASSUME NEW j \in 1..Len(b)
        PROVE  b[j] = IF l < j /\ j <= l + Len(w) THEN w[j - l] ELSE Flag
    <3>1. j = l + Len(w) + 1 \/ j \in 1..(l + Len(w))
      BY ONLY <1>1, <1>2, <2>4, <2>5
    <3>2. CASE j = l + Len(w) + 1
      BY ONLY <1>1, <1>2, <1>4, <2>3, <3>2
    <3>3. CASE j \in 1..(l + Len(w))
      <4>1. b[j] = x[j] /\ x[j] = IF j <= l THEN Flag ELSE w[j - l]
        BY ONLY <1>4, <2>3, <3>3
      <4>2. j \in Int /\ l \in Int /\ j <= l + Len(w)
        BY ONLY <1>1, <1>2, <3>3
      <4>3. j <= l <=> ~(l < j)
        BY ONLY <4>2
      <4> QED BY ONLY <4>1, <4>2, <4>3
    <3> QED BY ONLY <3>1, <3>2, <3>3
  <2> QED BY <2>3, <2>4, <2>5
<1>6. /\ Len(Sent(b)) = Len(b)
      /\ \A j \in 1..Len(b) : Sent(b)[j].b = b[j] /\ (Sent(b)[j].end <=> j = Len(b))
  BY <1>5, SentIs
<1> DEFINE z == Len(b)
<1>7. ASSUME NEW q \in (0 + 1)..z
      PROVE  /\ Sent(b)[q].b = IF z - Len(w) <= q /\ q < z
                               THEN w[q - (z - Len(w)) + 1] ELSE Flag
             /\ Sent(b)[q].end <=> q = z
  <2>1. /\ (l < q /\ q <= l + Len(w)) <=> (z - Len(w) <= q /\ q < z)
        /\ q - (z - Len(w)) + 1 = q - l
        /\ q \in 1..Len(b)
    <3>1. Len(w) \in Nat /\ l \in {0, 1} /\ z = l + Len(w) + 1 /\ q \in (0 + 1)..z
      BY <1>1, <1>2, <1>5
    <3> QED BY ONLY <3>1
  <2> QED BY <1>5, <1>6, <2>1
<1>8. 0 + Len(w) < z
  BY <1>1, <1>2, <1>5
<1>9. z > 0
  BY <1>1, <1>8
<1> QED
  BY <1>5, <1>7, <1>8, <1>9 DEF Holds, w

(* The next frame arrives behind the others.                               *)
LEMMA LayAppend ==
  ASSUME NEW s \in Seq(Rec), NEW fs \in Seq(Frames), Lay(s, fs), NEW f \in Frames,
         NEW new \in Seq(Rec), Len(new) > 0, Holds(new, 0, Len(new), f)
  PROVE  Lay(s \o new, Append(fs, f))
<1> DEFINE R == Rec
<1>1. s \in Seq(R) /\ new \in Seq(R)
  OBVIOUS
<1> HIDE DEF R
<1>2. PICK stop : Stops(s, fs, stop)
  BY DEF Lay
<1> DEFINE t  == s \o new
           gs == Append(fs, f)
           n  == Len(fs)
           on == [k \in 0..(n + 1) |-> IF k <= n THEN stop[k] ELSE Len(s) + Len(new)]
<1>3. /\ Len(s) \in Nat /\ n \in Nat /\ Len(new) \in Nat /\ Len(t) = Len(s) + Len(new)
      /\ Len(gs) = n + 1 /\ gs[n + 1] = f
      /\ \A k \in 1..n : gs[k] = fs[k] /\ fs[k] \in Frames
      /\ \A q \in 1..Len(s) : t[q] = s[q]
      /\ \A q \in 1..Len(new) : t[q + Len(s)] = new[q]
  BY <1>1
<1>4. /\ stop \in [0..n -> 0..Len(s)]
      /\ stop[0] = 0 /\ stop[n] = Len(s)
      /\ \A k \in 0..n : \A j \in 0..(k - 1) : stop[j] < stop[k]
      /\ \A k \in 1..n : Holds(s, stop[k - 1], stop[k], fs[k])
  BY <1>2 DEF Stops
<1> HIDE DEF t, gs, n
<1>5. on \in [0..(n + 1) -> 0..(Len(s) + Len(new))]
  BY <1>3, <1>4
<1>6. on[0] = 0 /\ on[n + 1] = Len(s) + Len(new) /\ \A k \in 0..n : on[k] = stop[k]
  BY <1>3, <1>4
<1> HIDE DEF on
<1>7. ASSUME NEW k \in 0..(n + 1), NEW j \in 0..(k - 1)
      PROVE  on[j] < on[k]
  <2>1. j \in 0..n
    BY <1>3
  <2>2. on[j] = stop[j] /\ stop[j] \in 0..Len(s)
    BY <1>4, <1>6, <2>1
  <2>3. CASE k = n + 1
    BY <1>3, <1>6, <2>2, <2>3
  <2>4. CASE k # n + 1
    <3>1. k \in 0..n
      BY <1>3, <2>4
    <3> QED BY <1>4, <1>6, <2>1, <3>1
  <2> QED BY <2>3, <2>4
<1>8. ASSUME NEW k \in 1..(n + 1)
      PROVE  Holds(t, on[k - 1], on[k], gs[k])
  <2>1. CASE k = n + 1
    <3> DEFINE d == Len(s)
               z == Len(new)
    <3>1. k - 1 = n /\ on[k - 1] = 0 + d /\ on[k] = z + d /\ gs[k] = f
      BY <1>3, <1>4, <1>6, <2>1
    <3>2. \A q \in (0 + 1)..z : t[q + d] = new[q]
      BY <1>3
    <3>3. z \in Nat /\ d \in Int /\ 0 + Len(OnWire(f)) < z /\ 0 \in Nat /\ 0 <= 0
          /\ Holds(new, 0, z, f)
      BY <1>3 DEF Holds
    <3> HIDE DEF d, z
    <3>4. Holds(t, 0 + d, z + d, f)
      BY <3>2, <3>3, HoldsMoves
    <3> QED BY <3>1, <3>4
  <2>2. CASE k # n + 1
    <3>1. k \in 1..n /\ k \in 0..n /\ k - 1 \in 0..n
      BY <1>3, <2>2
    <3> DEFINE a == stop[k - 1]
               z == stop[k]
    <3>2. /\ Holds(s, a, z, fs[k]) /\ on[k] = z /\ on[k - 1] = a
          /\ gs[k] = fs[k] /\ fs[k] \in Frames /\ a \in 0..Len(s) /\ z \in 0..Len(s)
      BY <1>3, <1>4, <1>6, <3>1
    <3>3. \A q \in (a + 1)..z : t[q + 0] = s[q]
      <4>1. \A q \in (a + 1)..z : q \in 1..Len(s) /\ q + 0 = q
        BY <1>3, <3>2
      <4> QED BY <1>3, <4>1
    <3>4. a \in Nat /\ z \in Nat /\ a + Len(OnWire(fs[k])) < z /\ 0 \in Int /\ a <= a
      BY <1>3, <3>2 DEF Holds
    <3> HIDE DEF a, z
    <3>5. Holds(t, a + 0, z + 0, fs[k])
      BY <3>2, <3>3, <3>4, HoldsMoves
    <3>6. a + 0 = a /\ z + 0 = z
      BY <3>4
    <3> QED BY <3>2, <3>5, <3>6
  <2> QED BY <2>1, <2>2
<1>9. Stops(t, gs, on)
  BY <1>3, <1>5, <1>6, <1>7, <1>8 DEF Stops
<1> QED
  BY <1>9 DEF Lay, t, gs

(* Of some numbers one is the smallest. The library's finite subsets of    *)
(* Nat are well founded, and x <= y is 1..x \subseteq 1..y.                 *)
LEMMA Smallest ==
  ASSUME NEW T \in SUBSET Nat, T # {}
  PROVE  \E x \in T : \A y \in T : x <= y
<1> DEFINE Below == {1..x : x \in T}
<1>1. Below \subseteq FiniteSubsetsOf(Nat) /\ Below # {}
  <2>1. \A x \in T : 1 \in Int /\ x \in Int
    OBVIOUS
  <2>2. \A x \in T : IsFiniteSet(1..x)
    BY <2>1, FS_Interval, Zenon
  <2>3. \A x \in T : 1..x \subseteq Nat
    OBVIOUS
  <2> QED
    BY <2>2, <2>3 DEF FiniteSubsetsOf
<1>2. IsWellFoundedOn(StrictSubsetOrdering(Nat), FiniteSubsetsOf(Nat))
  BY FS_StrictSubsetOrderingWellFounded
<1>3. PICK b \in Below : \A c \in Below : <<c, b>> \notin StrictSubsetOrdering(Nat)
  <2> HIDE DEF Below
  <2> QED BY <1>1, <1>2, WFMin
<1>4. PICK x \in T : b = 1..x
  OBVIOUS
<1>5. ASSUME NEW y \in T PROVE x <= y
  <2>1. SUFFICES ASSUME y < x PROVE FALSE
    OBVIOUS
  <2>2. 1..y \subseteq 1..x /\ x \in 1..x /\ x \notin 1..y
    BY <2>1
  <2>3. 1..y \in Below /\ 1..y \in SUBSET Nat /\ 1..x \in SUBSET Nat
    OBVIOUS
  <2>4. <<1..y, b>> \notin StrictSubsetOrdering(Nat)
    BY <2>3, <1>3
  <2>5. 1..y # 1..x
    BY <2>2
  <2> HIDE DEF Below
  <2> QED
    BY <2>2, <2>3, <2>4, <2>5, <1>4 DEF StrictSubsetOrdering
<1> QED
  BY <1>5

(* Every byte belongs to the first frame that does not end before it.      *)
LEMMA InFrame ==
  ASSUME NEW s \in Seq(Rec), NEW fs \in Seq(Frames), NEW stop, Stops(s, fs, stop),
         NEW q \in 1..Len(s)
  PROVE  \E k \in 1..Len(fs) : q \in (stop[k - 1] + 1)..stop[k]
<1> DEFINE n == Len(fs)
           T == {k \in 1..n : q <= stop[k]}
<1>1. n \in Nat /\ Len(s) \in Nat /\ q \in Nat /\ q > 0
  <2>1. Len(s) \in Nat /\ Len(fs) \in Nat
    OBVIOUS
  <2> QED BY <2>1
<1>2. stop \in [0..n -> 0..Len(s)] /\ stop[0] = 0 /\ stop[n] = Len(s)
  BY DEF Stops
<1> HIDE DEF n
<1>3. n # 0
  BY <1>1, <1>2
<1>4. n \in T /\ T \in SUBSET Nat
  BY <1>1, <1>2, <1>3
<1>5. PICK k \in T : \A y \in T : k <= y
  BY <1>4, Smallest
<1>6. k \in 1..n /\ k - 1 \in 0..n /\ k \in 0..n /\ q <= stop[k]
  BY <1>1, <1>5
<1>7. stop[k - 1] \in Nat /\ stop[k] \in Nat
  BY <1>2, <1>6
<1>8. stop[k - 1] < q
  <2>1. CASE k = 1
    BY <1>1, <1>2, <2>1
  <2>2. CASE k # 1
    <3>1. k - 1 \in 1..n /\ ~(k <= k - 1)
      BY <1>6, <2>2
    <3>2. k - 1 \notin T
      BY <1>5, <3>1
    <3>3. ~(q <= stop[k - 1])
      BY <3>1, <3>2
    <3> QED BY <1>1, <1>7, <3>3
  <2> QED BY <2>1, <2>2
<1>9. q \in (stop[k - 1] + 1)..stop[k]
  BY <1>1, <1>6, <1>7, <1>8
<1> QED
  BY <1>6, <1>9 DEF n

(* What the byte at place m of a stream is, if it is a flag: one before a  *)
(* frame, or the one that ends it.                                         *)
LEMMA FlagIsOutside ==
  ASSUME NEW s, NEW f \in Frames, NEW a \in Nat, NEW z \in Nat, Holds(s, a, z, f),
         NEW m \in (a + 1)..z, s[m].b = Flag
  PROVE  m = z \/ m + Len(OnWire(f)) < z
<1> DEFINE w == OnWire(f)
<1>1. Len(w) \in Nat /\ \A p \in 1..Len(w) : w[p] # Flag
  BY FrameTypes
<1>2. s[m].b = IF z - Len(w) <= m /\ m < z THEN w[m - (z - Len(w)) + 1] ELSE Flag
  BY DEF Holds
<1> HIDE DEF w
<1>3. SUFFICES ASSUME z - Len(w) <= m, m < z PROVE FALSE
  BY <1>1 DEF w
<1>4. m - (z - Len(w)) + 1 \in 1..Len(w)
  BY <1>1, <1>3
<1> QED
  BY <1>1, <1>2, <1>3, <1>4

(* Up to place m, as many frames end as there are ends marked.             *)
LEMMA EndsAreCounted ==
  ASSUME NEW s \in Seq(Rec), NEW fs \in Seq(Frames), NEW stop, Stops(s, fs, stop),
         NEW m \in 1..Len(s), NEW e, e = Cardinality({q \in 1..m : s[q].end})
  PROVE  /\ e \in 0..Len(fs) /\ stop[e] <= m
         /\ e # Len(fs) => m < stop[e + 1]
         /\ e = Len(fs) => m = Len(s)
<1> DEFINE n == Len(fs)
           P == {q \in 1..m : s[q].end}
<1>1. n \in Nat /\ Len(s) \in Nat /\ m \in Nat /\ m > 0 /\ m <= Len(s)
  <2>1. Len(s) \in Nat /\ Len(fs) \in Nat
    OBVIOUS
  <2> QED BY <2>1
<1>2. /\ stop \in [0..n -> 0..Len(s)]
      /\ stop[0] = 0 /\ stop[n] = Len(s)
      /\ \A k \in 0..n : \A j \in 0..(k - 1) : stop[j] < stop[k]
      /\ \A k \in 1..n : Holds(s, stop[k - 1], stop[k], fs[k])
  BY DEF Stops
<1>3. \A k \in 1..n : \A q \in (stop[k - 1] + 1)..stop[k] : s[q].end <=> q = stop[k]
  BY <1>2 DEF Holds
<1>4. \A q \in 1..Len(s) : \E k \in 1..n : q \in (stop[k - 1] + 1)..stop[k]
  BY InFrame
<1> HIDE DEF n
<1>5. PICK h \in 1..n : m \in (stop[h - 1] + 1)..stop[h]
  BY <1>1, <1>4
<1>6. \A k \in 0..n : stop[k] \in Nat /\ stop[k] <= Len(s)
  BY <1>1, <1>2
<1>7. h \in 0..n /\ h - 1 \in 0..n /\ stop[h - 1] < m /\ m <= stop[h]
  <2>1. h \in 0..n /\ h - 1 \in 0..n
    BY <1>1
  <2> QED BY <1>1, <1>5, <1>6, <2>1
<1> DEFINE c == IF m = stop[h] THEN h ELSE h - 1
<1>8. /\ c \in 0..n /\ stop[c] <= m
      /\ c # n => m < stop[c + 1]
      /\ c = n => m = Len(s)
  <2>1. CASE m = stop[h]
    <3>1. h # n => h + 1 \in 0..n /\ h \in 0..((h + 1) - 1)
      BY <1>1, <1>7
    <3> QED BY <1>1, <1>2, <1>7, <2>1, <3>1
  <2>2. CASE m # stop[h]
    <3>1. m < stop[h] /\ h - 1 + 1 = h /\ h - 1 # n
      BY <1>1, <1>6, <1>7, <2>2
    <3> QED BY <1>1, <1>6, <1>7, <2>2, <3>1
  <2> QED BY <2>1, <2>2
<1> HIDE DEF c
<1>9. \A k \in 0..n : stop[k] <= m <=> k <= c
  <2> SUFFICES ASSUME NEW k \in 0..n PROVE stop[k] <= m <=> k <= c
    OBVIOUS
  <2>1. CASE k <= c
    <3>1. k = c \/ k \in 0..(c - 1)
      BY <1>8, <2>1
    <3> QED BY <1>1, <1>2, <1>6, <1>8, <2>1, <3>1
  <2>2. CASE ~(k <= c)
    <3>1. c # n /\ c + 1 \in 0..n /\ (k = c + 1 \/ c + 1 \in 0..(k - 1))
      BY <1>1, <1>8, <2>2
    <3> QED BY <1>1, <1>2, <1>6, <1>8, <2>2, <3>1
  <2> QED BY <2>1, <2>2
<1>10. Cardinality(P) = c
  <2> DEFINE S == 1..c
             g == [k \in S |-> stop[k]]
  <2>1. 1 \in Int /\ c \in Int /\ c \in Nat
    BY <1>8
  <2>2. IsFiniteSet(1..c) /\ Cardinality(1..c) = c
    BY <2>1, FS_Interval
  <2>3. \A k \in S : k \in 1..n /\ k \in 0..n
    BY <1>1, <1>8
  <2>4. \A k \in S : stop[k] \in P
    <3> SUFFICES ASSUME NEW k \in S PROVE stop[k] \in P
      OBVIOUS
    <3>1. k \in 1..n /\ k \in 0..n /\ k - 1 \in 0..n /\ k <= c /\ k - 1 \in 0..(k - 1)
      BY <1>1, <1>8
    <3>2. stop[k] <= m /\ stop[k - 1] < stop[k] /\ stop[k] \in Nat /\ stop[k - 1] \in Nat
      BY <1>2, <1>6, <1>9, <3>1
    <3>3. stop[k] \in 1..m /\ stop[k] \in (stop[k - 1] + 1)..stop[k]
      BY <1>1, <3>2
    <3> QED BY <1>3, <3>1, <3>3
  <2>5. \A x, y \in S : stop[x] = stop[y] => x = y
    <3> SUFFICES ASSUME NEW x \in S, NEW y \in S, stop[x] = stop[y] PROVE x = y
      OBVIOUS
    <3>1. x \in 0..n /\ y \in 0..n /\ (x = y \/ x \in 0..(y - 1) \/ y \in 0..(x - 1))
      BY <2>3
    <3> QED BY <1>2, <1>6, <3>1
  <2>6. \A t \in P : \E x \in S : stop[x] = t
    <3> SUFFICES ASSUME NEW t \in P PROVE \E x \in S : stop[x] = t
      OBVIOUS
    <3>1. t \in 1..Len(s) /\ t <= m /\ s[t].end
      BY <1>1
    <3>2. PICK k \in 1..n : t \in (stop[k - 1] + 1)..stop[k]
      BY <1>4, <3>1
    <3>3. t = stop[k]
      BY <1>3, <3>1, <3>2
    <3>4. k \in 0..n /\ k <= c
      BY <1>1, <1>9, <3>1, <3>3
    <3> QED BY <1>1, <1>8, <3>3, <3>4
  <2>7. /\ g \in [S -> P] /\ \A x, y \in S : g[x] = g[y] => x = y
        /\ \A t \in P : \E x \in S : g[x] = t
    BY <2>4, <2>5, <2>6
  <2> HIDE DEF g, P, S
  <2>8. Cardinality(P) = Cardinality(S)
    BY <2>2, <2>7, SameSize DEF S
  <2> QED
    BY <2>2, <2>8 DEF S
<1> QED
  BY <1>8, <1>10 DEF n

(* What is behind a flag is a stream of the frames that have not ended.    *)
LEMMA LayCut ==
  ASSUME NEW s \in Seq(Rec), NEW fs \in Seq(Frames), Lay(s, fs),
         NEW m \in 1..Len(s), s[m].b = Flag,
         NEW e, e = Cardinality({q \in 1..m : s[q].end})
  PROVE  e \in 0..Len(fs) /\ Lay(SubSeq(s, m + 1, Len(s)), SubSeq(fs, e + 1, Len(fs)))
<1> DEFINE n  == Len(fs)
           t  == SubSeq(s, m + 1, Len(s))
           gs == SubSeq(fs, e + 1, n)
           R  == Rec
<1>1. PICK stop : Stops(s, fs, stop)
  BY DEF Lay
<1>2. /\ e \in 0..n /\ stop[e] <= m
      /\ e # n => m < stop[e + 1]
      /\ e = n => m = Len(s)
  BY <1>1, EndsAreCounted
<1>3. /\ stop \in [0..n -> 0..Len(s)]
      /\ stop[0] = 0 /\ stop[n] = Len(s)
      /\ \A k \in 0..n : \A j \in 0..(k - 1) : stop[j] < stop[k]
      /\ \A k \in 1..n : Holds(s, stop[k - 1], stop[k], fs[k])
  BY <1>1 DEF Stops
<1>4. n \in Nat /\ Len(s) \in Nat /\ m \in Nat /\ m > 0 /\ m <= Len(s)
  <2>1. Len(s) \in Nat /\ Len(fs) \in Nat
    OBVIOUS
  <2> QED BY <2>1
<1>5. Len(t) = Len(s) - m /\ \A q \in (m + 1)..Len(s) : t[q + (-m)] = s[q]
  <2>1. s \in Seq(R)
    OBVIOUS
  <2> HIDE DEF R
  <2>2. Len(t) = Len(s) - m /\ \A p \in 1..(Len(s) - m) : t[p] = s[p + m]
    BY ONLY <1>4, <2>1 DEF t
  <2> HIDE DEF t
  <2>3. ASSUME NEW q \in (m + 1)..Len(s) PROVE t[q + (-m)] = s[q]
    <3>1. q + (-m) \in 1..(Len(s) - m) /\ (q + (-m)) + m = q
      BY <1>4
    <3> QED BY <2>2, <3>1
  <2> QED BY <2>2, <2>3
<1>6. Len(gs) = n - e /\ \A k \in 1..(n - e) : gs[k] = fs[e + k] /\ fs[e + k] \in Frames
  <2>1. e \in 0..n
    BY <1>2
  <2> QED BY ONLY <1>4, <2>1, fs \in Seq(Frames) DEF gs, n
<1> HIDE DEF n, t, gs
<1>7. \A k \in 0..n : stop[k] \in Nat /\ stop[k] <= Len(s)
  BY <1>3, <1>4
<1> DEFINE on == [k \in 0..(n - e) |-> IF k = 0 THEN 0 ELSE stop[e + k] - m]
<1>8. \A k \in 1..(n - e) : e + k \in 1..n /\ e + k \in 0..n /\ (e + k) - 1 \in 0..n /\ k \in Nat
  BY <1>2, <1>4
<1>9. \A k \in 1..(n - e) : m < stop[e + k]
  <2> SUFFICES ASSUME NEW k \in 1..(n - e) PROVE m < stop[e + k]
    OBVIOUS
  <2>1. e # n /\ e + 1 \in 0..n /\ (k = 1 \/ e + 1 \in 0..((e + k) - 1))
    BY <1>2, <1>4
  <2>2. stop[e + 1] \in Nat /\ stop[e + k] \in Nat /\ (k = 1 \/ stop[e + 1] < stop[e + k])
    BY <1>3, <1>7, <1>8, <2>1
  <2> QED BY <1>2, <1>4, <2>1, <2>2
<1>10. \A k \in 1..(n - e) : on[k] = stop[e + k] - m
  <2>1. \A k \in 1..(n - e) : k \in 0..(n - e) /\ k # 0
    BY <1>2, <1>4
  <2> QED BY <2>1
<1>11. on[0] = 0 /\ on \in [0..(n - e) -> 0..Len(t)]
  <2>1. 0 \in 0..(n - e)
    BY <1>2, <1>4
  <2>2. ASSUME NEW k \in 0..(n - e), k # 0 PROVE stop[e + k] - m \in 0..Len(t)
    <3>1. k \in 1..(n - e)
      BY <1>2, <1>4, <2>2
    <3>2. stop[e + k] \in Nat /\ stop[e + k] <= Len(s) /\ m < stop[e + k]
      BY <1>7, <1>8, <1>9, <3>1
    <3> QED BY <1>4, <1>5, <3>2
  <2>3. 0 \in 0..Len(t)
    BY <1>4, <1>5
  <2> QED BY <2>1, <2>2, <2>3
<1> HIDE DEF on
<1>12. on[n - e] = Len(t)
  <2>1. CASE e = n
    BY <1>2, <1>4, <1>5, <1>11, <2>1
  <2>2. CASE e # n
    <3>1. n - e \in 1..(n - e) /\ e + (n - e) = n
      BY <1>2, <1>4, <2>2
    <3> QED BY <1>3, <1>5, <1>10, <3>1
  <2> QED BY <2>1, <2>2
<1>13. ASSUME NEW k \in 0..(n - e), NEW j \in 0..(k - 1)
       PROVE  on[j] < on[k]
  <2>1. k \in 1..(n - e) /\ on[k] = stop[e + k] - m /\ m < stop[e + k] /\ stop[e + k] \in Nat
    <3>1. k \in 1..(n - e)
      BY <1>2, <1>4
    <3> QED BY <1>7, <1>8, <1>9, <1>10, <3>1
  <2>2. CASE j = 0
    BY <1>4, <1>11, <2>1, <2>2
  <2>3. CASE j # 0
    <3>1. j \in 1..(n - e) /\ e + j \in 0..((e + k) - 1)
      BY <1>2, <1>4, <2>3
    <3>2. on[j] = stop[e + j] - m /\ stop[e + j] \in Nat /\ stop[e + j] < stop[e + k]
      BY <1>3, <1>7, <1>8, <1>10, <2>1, <3>1
    <3> QED BY <1>4, <2>1, <3>2
  <2> QED BY <2>2, <2>3
<1>14. ASSUME NEW k \in 1..(n - e)
       PROVE  Holds(t, on[k - 1], on[k], gs[k])
  <2> DEFINE f == fs[e + k]
             a == stop[(e + k) - 1]
             z == stop[e + k]
             c == IF k = 1 THEN m ELSE a
             d == -m
  <2>1. Holds(s, a, z, f) /\ f \in Frames /\ a \in Nat /\ z \in Nat /\ z <= Len(s)
        /\ m < z /\ gs[k] = f /\ on[k] = z - m
    BY <1>3, <1>6, <1>7, <1>8, <1>9, <1>10
  <2>2. Len(OnWire(f)) \in Nat /\ a + Len(OnWire(f)) < z
    BY <2>1, FrameTypes DEF Holds
  <2>3. c \in Nat /\ a <= c /\ m <= c /\ c + Len(OnWire(f)) < z /\ on[k - 1] = c - m
    <3>1. CASE k = 1
      <4>1. (e + k) - 1 = e /\ k - 1 = 0
        BY <1>2, <3>1
      <4>2. a <= m
        BY <1>2, <4>1
      <4>3. m + Len(OnWire(f)) < z
        <5>1. CASE a = m
          BY <2>2, <5>1
        <5>2. CASE a # m
          <6>1. m \in (a + 1)..z
            BY <1>4, <2>1, <4>2, <5>2
          <6> HIDE DEF f, a, z
          <6> QED BY <1>4, <2>1, <6>1, FlagIsOutside
        <5> QED BY <5>1, <5>2
      <4> QED BY <1>4, <1>11, <3>1, <4>1, <4>2, <4>3
    <3>2. CASE k # 1
      <4>1. k - 1 \in 1..(n - e) /\ e + (k - 1) = (e + k) - 1
        BY <1>2, <1>4, <3>2
      <4>2. on[k - 1] = a - m /\ m < a
        BY <1>9, <1>10, <4>1
      <4> QED BY <1>4, <2>1, <2>2, <3>2, <4>2
    <3> QED BY <3>1, <3>2
  <2> HIDE DEF f, a, z, c
  <2>4. \A q \in (c + 1)..z : t[q + d] = s[q]
    <3>1. \A q \in (c + 1)..z : q \in (m + 1)..Len(s)
      BY <1>4, <2>1, <2>3
    <3> QED BY <1>5, <3>1
  <2>5. d \in Int /\ c + d = c - m /\ z + d = z - m
    BY <1>4, <2>1, <2>3
  <2> HIDE DEF d
  <2>6. Holds(t, c + d, z + d, f)
    BY <2>1, <2>3, <2>4, <2>5, HoldsMoves
  <2> QED BY <2>1, <2>3, <2>5, <2>6
<1>15. Stops(t, gs, on)
  BY <1>6, <1>11, <1>12, <1>13, <1>14 DEF Stops
<1> QED
  BY <1>2, <1>15 DEF Lay, t, gs, n

(* A stream that has bytes has a frame, and one that is there to its end   *)
(* has bytes that are no flags.                                            *)
LEMMA FirstFrame ==
  ASSUME NEW s \in Seq(Rec), NEW fs \in Seq(Frames), NEW stop, Stops(s, fs, stop),
         NEW m \in 1..Len(s)
  PROVE  /\ fs # <<>> /\ Head(fs) \in Frames /\ Head(fs) = fs[1]
         /\ Holds(s, 0, stop[1], Head(fs)) /\ stop[1] \in 1..Len(s)
<1>1. Len(s) \in Nat /\ Len(fs) \in Nat /\ Len(s) > 0
  <2>1. Len(s) \in Nat /\ Len(fs) \in Nat
    OBVIOUS
  <2> QED BY <2>1
<1>2. /\ stop \in [0..Len(fs) -> 0..Len(s)]
      /\ stop[0] = 0 /\ stop[Len(fs)] = Len(s)
      /\ \A k \in 0..Len(fs) : \A j \in 0..(k - 1) : stop[j] < stop[k]
      /\ \A k \in 1..Len(fs) : Holds(s, stop[k - 1], stop[k], fs[k])
  BY DEF Stops
<1>3. Len(fs) # 0
  BY <1>1, <1>2
<1>4. fs # <<>> /\ Head(fs) \in Frames /\ Head(fs) = fs[1]
  BY <1>3
<1>5. 1 \in 1..Len(fs) /\ 1 \in 0..Len(fs) /\ 0 \in 0..(1 - 1) /\ 1 - 1 = 0
  BY <1>1, <1>3
<1>6. stop[1] \in 0..Len(s) /\ 0 < stop[1] /\ Holds(s, 0, stop[1], fs[1])
  BY <1>2, <1>5
<1> QED
  BY <1>1, <1>4, <1>6

(* If a read ends with a flag and more than flags have been read, the      *)
(* oldest frame is in the buffer, behind flags, and is moved to its front. *)
LEMMA OldestInFront ==
  ASSUME NEW s \in Seq(Rec), NEW fs \in Seq(Frames), Lay(s, fs),
         NEW m \in 1..Len(s), s[m].b = Flag,
         NEW r \in 1..m, s[r].b # Flag,
         NEW n \in Nat, m <= n, NEW buffer, DOMAIN buffer = 0..n,
         \A q \in 1..m : buffer[q - 1] = s[q].b
  PROVE  /\ fs # <<>>
         /\ \A k \in 1..Len(Head(fs)) :
               RemoveEscapeHdlcFlag(buffer, m).buffer[k - 1] = Head(fs)[k]
<1>1. PICK stop : Stops(s, fs, stop)
  BY DEF Lay
<1> DEFINE f == Head(fs)
           w == OnWire(f)
           z == stop[1]
           y == (z - Len(w)) - 1
<1>2. fs # <<>> /\ f \in Frames /\ Holds(s, 0, z, f) /\ z \in 1..Len(s)
  BY <1>1, FirstFrame
<1>3. f \in Seq(Nat) /\ f # <<>> /\ Len(w) \in Nat /\ Len(w) > 0 /\ \A p \in 1..Len(w) : w[p] # Flag
  BY <1>2, FrameTypes
<1>4. /\ 0 + Len(w) < z
      /\ \A q \in 1..z : s[q].b = IF z - Len(w) <= q /\ q < z
                                  THEN w[q - (z - Len(w)) + 1] ELSE Flag
  BY <1>2 DEF Holds
<1>5. Len(s) \in Nat /\ m \in Nat /\ m > 0 /\ m <= Len(s) /\ r \in Nat /\ r > 0 /\ r <= m
  <2>1. Len(s) \in Nat
    OBVIOUS
  <2> QED BY <2>1
<1> HIDE DEF f, w, z
<1>6. y \in Nat /\ z \in Nat /\ z = (y + Len(w)) + 1
  BY <1>2, <1>3, <1>4
<1>7. y < m
  <2> SUFFICES ASSUME m <= y PROVE FALSE
    BY <1>5, <1>6
  <2>1. r \in 1..z /\ ~(z - Len(w) <= r)
    BY <1>3, <1>5, <1>6
  <2> QED BY <1>4, <2>1
<1>8. y + Len(w) < m
  <2> SUFFICES ASSUME m <= y + Len(w) PROVE FALSE
    BY <1>3, <1>5, <1>6
  <2>1. m \in 1..z /\ z - Len(w) <= m /\ m < z /\ m - (z - Len(w)) + 1 \in 1..Len(w)
    BY <1>3, <1>5, <1>6, <1>7
  <2> QED BY <1>3, <1>4, <2>1
<1>9. \A p \in 0..(y - 1) : buffer[p] = Flag
  <2> SUFFICES ASSUME NEW p \in 0..(y - 1) PROVE buffer[p] = Flag
    OBVIOUS
  <2>1. p + 1 \in 1..m /\ (p + 1) - 1 = p /\ p + 1 \in 1..z /\ ~(z - Len(w) <= p + 1)
    BY <1>3, <1>5, <1>6, <1>7
  <2>2. buffer[p] = s[p + 1].b
    BY <2>1
  <2> QED BY <1>4, <2>1, <2>2
<1>10. \A j \in 1..Len(w) : buffer[y + j - 1] = w[j]
  <2> SUFFICES ASSUME NEW j \in 1..Len(w) PROVE buffer[y + j - 1] = w[j]
    OBVIOUS
  <2> HIDE DEF y
  <2> DEFINE q == y + j
  <2>1. Len(w) \in Nat /\ j \in 1..Len(w) /\ y \in Nat /\ m \in Nat
    BY <1>3, <1>5, <1>6
  <2>2. q \in 1..m /\ q \in 1..z /\ z - Len(w) <= q /\ q < z /\ q - (z - Len(w)) + 1 = j
    BY ONLY <1>6, <1>8, <2>1
  <2>3. buffer[q - 1] = s[q].b
    BY <2>2
  <2>4. s[q].b = w[j]
    BY <1>4, <2>2
  <2>5. y + j - 1 = q - 1
    BY ONLY <2>1
  <2> QED BY ONLY <2>3, <2>4, <2>5
<1>11. m \in 0..n
  BY <1>5
<1> HIDE DEF y
<1>12. \A k \in 1..Len(f) : RemoveEscapeHdlcFlag(buffer, m).buffer[k - 1] = f[k]
  <2>1. w = OnWire(f)
    BY DEF w
  <2>2. n \in Nat /\ DOMAIN buffer = 0..n /\ y \in Nat /\ f \in Seq(Nat) /\ f # <<>>
    BY <1>3, <1>6
  <2> QED
    BY ONLY <1>8, <1>9, <1>10, <1>11, <2>1, <2>2, FrontMoved, Zenon
<1> QED
  BY <1>2, <1>12 DEF f

(* A stream that has been read in full ends with a flag, but holds more    *)
(* than flags.                                                             *)
LEMMA NothingHeld ==
  ASSUME NEW s \in Seq(Rec), NEW fs \in Seq(Frames), Lay(s, fs),
         s # <<>> /\ s[Len(s)].b = Flag => \A q \in 1..Len(s) : s[q].b = Flag
  PROVE  fs = <<>>
<1> SUFFICES ASSUME fs # <<>> PROVE FALSE
  OBVIOUS
<1>1. PICK stop : Stops(s, fs, stop)
  BY DEF Lay
<1> DEFINE n == Len(fs)
           f == fs[n]
           w == OnWire(f)
           a == stop[n - 1]
           z == Len(s)
<1>2. n \in Nat /\ n > 0 /\ z \in Nat /\ f \in Frames
  <2>1. n \in Nat /\ z \in Nat /\ n # 0
    OBVIOUS
  <2>2. n \in 1..Len(fs)
    BY <2>1
  <2> QED BY <2>1, <2>2
<1>3. Len(w) \in Nat /\ Len(w) > 0 /\ \A p \in 1..Len(w) : w[p] # Flag
  BY <1>2, FrameTypes
<1>4. n - 1 \in 0..n /\ n \in 1..n
  BY <1>2
<1>5. a \in Nat /\ Holds(s, a, z, f)
  BY <1>1, <1>4 DEF Stops
<1>6. /\ a + Len(w) < z
      /\ \A q \in (a + 1)..z : s[q].b = IF z - Len(w) <= q /\ q < z
                                        THEN w[q - (z - Len(w)) + 1] ELSE Flag
  BY <1>5 DEF Holds
<1>7. s # <<>> /\ \A q \in 1..z : q = z => s[q].b = Flag
  <2>1. z > 0
    BY <1>2, <1>3, <1>5, <1>6
  <2>2. s # <<>>
    BY <2>1
  <2> HIDE DEF w, a, z
  <2> QED BY <1>2, <1>3, <1>5, <1>6, <2>2
<1> HIDE DEF n, f, w, a
<1>8. z - 1 \in (a + 1)..z /\ z - 1 \in 1..z /\ z \in 1..z
      /\ z - Len(w) <= z - 1 /\ z - 1 < z /\ (z - 1) - (z - Len(w)) + 1 = Len(w)
      /\ Len(w) \in 1..Len(w)
  BY <1>2, <1>3, <1>5, <1>6
<1>9. s[z - 1].b # Flag
  BY <1>3, <1>6, <1>8
<1>10. s[z - 1].b = Flag
  BY <1>7, <1>8
<1> QED
  BY <1>9, <1>10

(* The search for the first byte ends, as the last byte of the buffer is   *)
(* none of a packet; and unescaping leaves that one alone.                 *)
LEMMA FirstByteFound ==
  ASSUME NEW n \in Nat, NEW buffer, DOMAIN buffer = 0..n, buffer[n] # Flag
  PROVE  /\ FirstByte(buffer) \in 0..n /\ buffer[FirstByte(buffer)] # Flag
         /\ \A q \in 0..(FirstByte(buffer) - 1) : buffer[q] = Flag
<1> DEFINE T == {p \in 0..n : buffer[p] # Flag}
<1>1. T \in SUBSET Nat /\ n \in T
  OBVIOUS
<1>2. PICK p \in T : \A q \in T : p <= q
  BY <1>1, Smallest
<1>3. p \in 0..n /\ buffer[p] # Flag /\ \A q \in 0..(p - 1) : buffer[q] = Flag
  <2>1. \A q \in 0..(p - 1) : q \in 0..n /\ ~(p <= q)
    OBVIOUS
  <2> QED BY <1>2, <2>1
<1>4. FirstByte(buffer) = p
  BY <1>3, FirstByteIs
<1> QED
  BY <1>3, <1>4

LEMMA LastStays ==
  ASSUME NEW n \in Nat, NEW buffer, DOMAIN buffer = 0..n, buffer[n] # Flag, NEW len \in 0..n
  PROVE  /\ DOMAIN RemoveEscapeHdlcFlag(buffer, len).buffer = 0..n
         /\ RemoveEscapeHdlcFlag(buffer, len).buffer[n] # Flag
<1> DEFINE first == FirstByte(buffer)
<1>1. first \in 0..n
  BY FirstByteFound
<1>2. CASE first = len
  BY <1>2 DEF RemoveEscapeHdlcFlag
<1>3. CASE first # len
  <2> DEFINE x == Index(buffer, first, len)
             v == Moved(buffer, first, len).buffer
  <2>1. RemoveEscapeHdlcFlag(buffer, len).buffer = v
    BY <1>3 DEF RemoveEscapeHdlcFlag
  <2>2. x \in Nat /\ x <= n
    <3>1. CASE first <= len
      <4>1. first \in Nat /\ len \in Nat
        BY <1>1
      <4>2. x \in Nat /\ first + x <= len
        BY <3>1, <4>1, IndexCounts
      <4> HIDE DEF x, first
      <4> QED BY <4>1, <4>2
    <3>2. CASE ~(first <= len)
      <4> HIDE DEF first
      <4>1. first..(len - 1) = {}
        BY <1>1, <3>2
      <4>2. {q \in first..(len - 1) : buffer[q] # Esc} = {}
        BY <4>1
      <4>3. x = 0
        BY <4>2, FS_EmptySet, Zenon DEF Index
      <4> QED BY <4>3
    <3> QED BY <3>1, <3>2
  <2>3. DOMAIN v = 0..n
    BY DEF Moved
  <2>4. n \in 0..n /\ ~(n < x) /\ ~(n < len)
    <3> HIDE DEF x
    <3> QED BY <2>2
  <2>5. v[n] = IF n = x THEN 0 ELSE Unmasked(buffer, first, len)[n]
    <3> HIDE DEF first
    <3> QED BY <2>4 DEF Moved
  <2>6. Unmasked(buffer, first, len)[n] = buffer[n]
    <3> HIDE DEF first
    <3> QED BY <2>4 DEF Unmasked
  <2>7. 0 # Flag
    BY DEF Flag
  <2> HIDE DEF v, x
  <2> QED BY <2>1, <2>3, <2>5, <2>6, <2>7
<1> QED
  BY <1>2, <1>3

(* What a read of n bytes does to the bytes read and the pending bytes.    *)
Splits(R, read, more, n, x, y, s) ==
    /\ x \in Seq(R) /\ y \in Seq(R) /\ s \in Seq(R)
    /\ Len(x) = Len(read) + n /\ Len(s) = Len(read) + Len(more)
    /\ x \o y = s
    /\ SubSeq(s, Len(read) + n + 1, Len(s)) = y
    /\ \A q \in 1..(Len(read) + n) : x[q] = s[q]
    /\ \A q \in 1..Len(read) : s[q] = read[q]
    /\ \A k \in 1..Len(more) : s[Len(read) + k] = more[k]

LEMMA ReadSplits ==
  ASSUME NEW R, NEW read \in Seq(R), NEW more \in Seq(R), NEW n \in 1..Len(more),
         NEW x, x = read \o SubSeq(more, 1, n),
         NEW y, y = SubSeq(more, n + 1, Len(more)),
         NEW s, s = read \o more
  PROVE  Splits(R, read, more, n, x, y, s)
<1>1. Len(read) \in Nat /\ Len(more) \in Nat /\ n \in Nat /\ n > 0 /\ n <= Len(more)
  <2>1. Len(read) \in Nat /\ Len(more) \in Nat
    OBVIOUS
  <2> QED BY <2>1
<1> DEFINE u == SubSeq(more, 1, n)
<1>2. u \in Seq(R) /\ Len(u) = n /\ \A k \in 1..n : u[k] = more[k]
  BY <1>1
<1>3. y \in Seq(R) /\ Len(y) = Len(more) - n /\ \A k \in 1..(Len(more) - n) : y[k] = more[k + n]
  BY <1>1
<1> HIDE DEF u
<1>4. x = read \o u
  BY DEF u
<1>5. /\ x \in Seq(R) /\ Len(x) = Len(read) + n
      /\ \A q \in 1..Len(read) : x[q] = read[q]
      /\ \A k \in 1..n : x[Len(read) + k] = u[k]
  BY ONLY <1>1, <1>2, <1>4, read \in Seq(R)
<1>6. /\ s \in Seq(R) /\ Len(s) = Len(read) + Len(more)
      /\ \A q \in 1..Len(read) : s[q] = read[q]
      /\ \A k \in 1..Len(more) : s[Len(read) + k] = more[k]
  BY ONLY <1>1, s = read \o more, read \in Seq(R), more \in Seq(R)
<1>7. \A q \in 1..(Len(read) + n) : x[q] = s[q]
  <2> SUFFICES ASSUME NEW q \in 1..(Len(read) + n) PROVE x[q] = s[q]
    OBVIOUS
  <2>1. CASE q <= Len(read)
    <3>1. q \in 1..Len(read)
      BY <1>1, <2>1
    <3> QED BY <1>5, <1>6, <3>1
  <2>2. CASE ~(q <= Len(read))
    <3> DEFINE k == q - Len(read)
    <3>1. k \in 1..n /\ k \in 1..Len(more) /\ Len(read) + k = q
      BY <1>1, <2>2
    <3> HIDE DEF k
    <3> QED BY <1>2, <1>5, <1>6, <3>1
  <2> QED BY <2>1, <2>2
<1>8. \A k \in 1..(Len(more) - n) : s[(Len(read) + n) + k] = y[k]
  <2> SUFFICES ASSUME NEW k \in 1..(Len(more) - n) PROVE s[(Len(read) + n) + k] = y[k]
    OBVIOUS
  <2>1. k + n \in 1..Len(more) /\ Len(read) + (k + n) = (Len(read) + n) + k
    BY <1>1
  <2> QED BY <1>3, <1>6, <2>1
<1>9. x \o y = s
  <2> DEFINE t == x \o y
  <2>1. /\ t \in Seq(R) /\ Len(t) = Len(x) + Len(y)
        /\ \A q \in 1..Len(x) : t[q] = x[q]
        /\ \A k \in 1..Len(y) : t[Len(x) + k] = y[k]
    <3>1. x \in Seq(R) /\ y \in Seq(R)
      BY <1>3, <1>5
    <3> QED BY ONLY <3>1
  <2> HIDE DEF t
  <2>2. Len(t) = Len(s)
    BY ONLY <1>1, <1>3, <1>5, <1>6, <2>1
  <2>3. \A q \in 1..Len(s) : t[q] = s[q]
    <3> SUFFICES ASSUME NEW q \in 1..Len(s) PROVE t[q] = s[q]
      OBVIOUS
    <3>1. CASE q <= Len(x)
      <4>1. q \in 1..Len(x) /\ q \in 1..(Len(read) + n)
        BY <1>1, <1>5, <3>1
      <4> QED BY <1>7, <2>1, <4>1
    <3>2. CASE ~(q <= Len(x))
      <4> DEFINE k == q - Len(x)
      <4>1. k \in 1..Len(y) /\ k \in 1..(Len(more) - n) /\ Len(x) + k = q
            /\ (Len(read) + n) + k = q
        BY <1>1, <1>3, <1>5, <1>6, <3>2
      <4> HIDE DEF k, t
      <4> QED BY <1>8, <2>1, <4>1
    <3> QED BY <3>1, <3>2
  <2> HIDE DEF t
  <2>4. t = s
    BY ONLY <1>6, <2>1, <2>2, <2>3
  <2> QED BY <2>4 DEF t
<1>10. SubSeq(s, Len(read) + n + 1, Len(s)) = y
  <2> DEFINE t == SubSeq(s, Len(read) + n + 1, Len(s))
  <2>1. /\ t \in Seq(R) /\ Len(t) = Len(s) - (Len(read) + n)
        /\ \A k \in 1..(Len(s) - (Len(read) + n)) : t[k] = s[(Len(read) + n) + k]
    BY ONLY <1>1, <1>6
  <2>2. Len(t) = Len(y) /\ \A k \in 1..Len(y) : t[k] = y[k]
    <3>1. Len(s) - (Len(read) + n) = Len(more) - n
      BY <1>1, <1>6
    <3> QED BY <1>3, <1>8, <2>1, <3>1
  <2> HIDE DEF t
  <2>3. t \in Seq(R) /\ y \in Seq(R)
    BY <1>3, <2>1
  <2>4. t = y
    BY ONLY <2>2, <2>3
  <2> QED BY <2>4 DEF t
<1> QED
  BY <1>3, <1>5, <1>6, <1>7, <1>9, <1>10 DEF Splits

(* The ends among the bytes of a read add up.                              *)
EndsIn(s, j) == Cardinality({q \in 1..j : s[q].end})

LEMMA EndsAdd ==
  ASSUME NEW j \in Nat, NEW n \in Nat, NEW s, NEW more,
         \A k \in 1..n : s[j + k] = more[k]
  PROVE  EndsIn(s, j + n) = EndsIn(s, j) + EndsIn(more, n)
<1> DEFINE A == {q \in 1..j : s[q].end}
           B == {k \in 1..n : more[k].end}
           C == {q \in 1..(j + n) : s[q].end}
           D == {q \in (j + 1)..(j + n) : s[q].end}
<1>1. IsFiniteSet(A) /\ IsFiniteSet(B)
  <2>1. 1 \in Int /\ j \in Int /\ n \in Int
    OBVIOUS
  <2>2. IsFiniteSet(1..j) /\ IsFiniteSet(1..n)
    BY <2>1, FS_Interval, Zenon
  <2>3. A \in SUBSET (1..j) /\ B \in SUBSET (1..n)
    OBVIOUS
  <2> HIDE DEF A, B
  <2> QED BY <2>2, <2>3, FS_Subset
<1>2. IsFiniteSet(D) /\ Cardinality(D) = Cardinality(B)
  <2> DEFINE g == [k \in B |-> j + k]
  <2>1. \A k \in B : k \in Nat /\ j + k \in D
    OBVIOUS
  <2>2. \A t \in D : t - j \in B /\ j + (t - j) = t
    <3> SUFFICES ASSUME NEW t \in D PROVE t - j \in B /\ j + (t - j) = t
      OBVIOUS
    <3>1. t - j \in 1..n /\ j + (t - j) = t /\ s[t].end
      OBVIOUS
    <3>2. s[t] = more[t - j]
      BY <3>1
    <3> QED BY <3>1, <3>2
  <2> HIDE DEF B, D
  <2>3. /\ g \in [B -> D] /\ \A x, y \in B : g[x] = g[y] => x = y
        /\ \A t \in D : \E x \in B : g[x] = t
    BY <2>1, <2>2
  <2> HIDE DEF g
  <2> QED BY <1>1, <2>3, SameSize
<1>3. C = A \cup D /\ A \cap D = {}
  <2>1. \A q \in 1..(j + n) : q \in 1..j \/ q \in (j + 1)..(j + n)
    OBVIOUS
  <2>2. 1..j \subseteq 1..(j + n) /\ (j + 1)..(j + n) \subseteq 1..(j + n)
    OBVIOUS
  <2>3. \A q \in 1..j : q \notin (j + 1)..(j + n)
    OBVIOUS
  <2> QED BY <2>1, <2>2, <2>3, Zenon
<1> HIDE DEF A, B, C, D
<1>4. Cardinality(C) = Cardinality(A) + Cardinality(D) - Cardinality({})
  BY <1>1, <1>2, <1>3, FS_Union
<1>5. Cardinality(A) \in Nat /\ Cardinality(D) \in Nat /\ Cardinality({}) = 0
  BY <1>1, <1>2, FS_CardinalityType, FS_EmptySet
<1>6. Cardinality(A) \in Nat /\ Cardinality(C) = Cardinality(A) + Cardinality(B)
  BY <1>2, <1>4, <1>5
<1> QED
  BY <1>6 DEF A, B, C, EndsIn

(* Between calls the pending bytes are the frames that are due. During a   *)
(* call, they are behind what it has read, which does not end with a flag  *)
(* unless it is flags alone. Once it has returned, they are the frames     *)
(* that have not been read to their end.                                   *)
Begun(read) ==
    /\ read \in Seq(Rec)
    /\ Len(read) = idx
    /\ \A q \in 1..idx : receive[q - 1] = read[q].b
    /\ ends = Cardinality({q \in 1..idx : read[q].end})
    /\ Lay(read \o pending, due)
    /\ read # <<>> /\ read[Len(read)].b = Flag => \A q \in 1..Len(read) : read[q].b = Flag

ReceiveTypes ==
    /\ fpc \in {"compose", "escape", "call", "receive", "returned"}
    /\ DOMAIN receive = 0..(ReceiveSize - 1) /\ receive[ReceiveSize - 1] # Flag
    /\ pending \in Seq(Rec)
    /\ due \in Seq(Frames)
    /\ idx \in 0..(ReceiveSize - 1)
    /\ ends \in Nat
    /\ past \in BOOLEAN

ReceiveInv ==
    /\ ReceiveTypes
    /\ ~past =>
          /\ fpc \in {"compose", "escape", "call"} => Lay(pending, due)
          /\ fpc = "receive" => \E read : Begun(read)
          /\ fpc = "returned" => ends \in 0..Len(due)
                                 /\ Lay(pending, SubSeq(due, ends + 1, Len(due)))
    /\ FrontIsOldest

(* The front of the buffer is looked at only when a call has returned.     *)
LEMMA OthersReceive ==
  ASSUME ReceiveInv, Compose \/ EscapeByte \/ WritePacket \/ Flush
  PROVE  ReceiveInv'
<1> USE DEF inVars
<1>1. CASE Compose \/ EscapeByte \/ WritePacket
  <2>1. /\ fpc \in {"compose", "escape"} /\ fpc' \in {"escape", "call"}
        /\ UNCHANGED <<pending, due, receive, idx, ends, past>>
    BY <1>1 DEF Compose, EscapeByte, WritePacket
  <2> QED
    BY <2>1 DEF ReceiveInv, ReceiveTypes, FrontIsOldest
<1>2. CASE Flush
  <2>1. /\ fpc = "call" /\ fpc' = "call" /\ pending' = <<>> /\ due' = <<>>
        /\ UNCHANGED <<receive, idx, ends, past>>
    BY <1>2 DEF Flush
  <2>2. pending' \in Seq(Rec) /\ due' \in Seq(Frames)
    BY <2>1
  <2>3. Lay(pending, due)'
    BY <2>1, LayEmpty DEF Lay, Stops, Holds
  <2> QED
    BY <2>1, <2>2, <2>3 DEF ReceiveInv, ReceiveTypes, FrontIsOldest
<1> QED
  BY <1>1, <1>2

LEMMA ArrivesReceive ==
  ASSUME ReceiveInv, FrameArrives
  PROVE  ReceiveInv'
<1>1. /\ fpc = "receive" /\ fpc' = "receive"
      /\ UNCHANGED <<receive, idx, ends, past>>
  BY DEF FrameArrives
<1>2. PICK f \in Frames, lead \in {<<>>, <<Flag>>} :
         LET b == lead \o OnWire(f) \o <<Flag>> IN
         /\ pending' = pending \o [k \in 1..Len(b) |-> [b |-> b[k], end |-> k = Len(b)]]
         /\ due' = Append(due, f)
  BY DEF FrameArrives
<1> DEFINE b == lead \o OnWire(f) \o <<Flag>>
           new == Sent(b)
<1>3. pending' = pending \o new /\ due' = Append(due, f)
  BY <1>2 DEF Sent
<1>4. b \in Seq(Nat) /\ Len(b) > 0 /\ Holds(Sent(b), 0, Len(b), f)
  BY SentHolds
<1>5. new \in Seq(Rec) /\ Len(new) = Len(b)
  BY <1>4, SentIs
<1> HIDE DEF b, new
<1>6. pending \in Seq(Rec) /\ due \in Seq(Frames)
  BY DEF ReceiveInv, ReceiveTypes
<1>7. pending' \in Seq(Rec) /\ due' \in Seq(Frames)
  <2> DEFINE R == Rec
  <2>1. pending \in Seq(R) /\ new \in Seq(R)
    BY <1>5, <1>6
  <2> HIDE DEF R
  <2>2. pending \o new \in Seq(R)
    BY <2>1
  <2> QED BY <1>3, <1>6, <2>2 DEF R
<1>8. ReceiveTypes'
  BY <1>1, <1>7 DEF ReceiveInv, ReceiveTypes
<1>9. ASSUME ~past PROVE \E read : Begun(read)'
  <2>1. PICK read : Begun(read)
    BY <1>1, <1>9 DEF ReceiveInv
  <2>2. read \in Seq(Rec) /\ Lay(read \o pending, due)
    BY <2>1 DEF Begun
  <2> DEFINE R == Rec
             s == read \o pending
  <2>3. s \in Seq(R) /\ read \o (pending \o new) = s \o new
    <3>1. read \in Seq(R) /\ pending \in Seq(R) /\ new \in Seq(R)
      BY <1>5, <1>6, <2>2
    <3> HIDE DEF R
    <3> QED BY ONLY <3>1
  <2>4. Holds(new, 0, Len(new), f) /\ Len(new) > 0
    BY <1>4, <1>5 DEF new
  <2> HIDE DEF s
  <2>5. Lay(s \o new, Append(due, f))
    BY <1>5, <1>6, <2>2, <2>3, <2>4, LayAppend DEF s
  <2>6. Lay(read \o pending', due')
    BY <1>3, <2>3, <2>5
  <2>7. Begun(read)'
    BY <1>1, <2>1, <2>6 DEF Begun, Lay, Stops, Holds
  <2> QED BY <2>7
<1> QED
  BY <1>1, <1>8, <1>9 DEF ReceiveInv, FrontIsOldest

(* A call begins with nothing read; it ends without a packet only if       *)
(* nothing is due; and the frames behind the first are given up.           *)
LEMMA CallsReceive ==
  ASSUME ReceiveInv, CallReceive \/ Timeout \/ Handled
  PROVE  ReceiveInv'
<1>1. ReceiveTypes /\ pending \in Seq(Rec) /\ due \in Seq(Frames)
  BY DEF ReceiveInv, ReceiveTypes
<1>2. CASE CallReceive
  <2>1. /\ fpc = "call" /\ fpc' = "receive" /\ idx' = 0 /\ ends' = 0
        /\ UNCHANGED <<pending, due, receive, past>>
    BY <1>2 DEF CallReceive
  <2>2. ReceiveTypes'
    <3>1. 0 \in 0..(ReceiveSize - 1) /\ 0 \in Nat
      BY FramingAssumption
    <3> QED BY <1>1, <2>1, <3>1 DEF ReceiveTypes
  <2>3. ASSUME ~past PROVE Begun(<<>>)'
    <3> DEFINE none == <<>>
               R == Rec
    <3>1. Lay(pending, due)
      BY <2>1, <2>3 DEF ReceiveInv
    <3>2. none \in Seq(R) /\ Len(none) = 0 /\ none \o pending = pending
      <4>1. pending \in Seq(R)
        BY <1>1
      <4> HIDE DEF R
      <4> QED BY ONLY <4>1
    <3>3. {q \in 1..0 : none[q].end} = {}
      OBVIOUS
    <3>4. Cardinality({q \in 1..0 : none[q].end}) = 0
      BY <3>3, FS_EmptySet, Zenon
    <3>5. \A q \in 1..0 : FALSE
      OBVIOUS
    <3>6. Lay(none \o pending', due')
      BY <2>1, <3>1, <3>2
    <3>7. Cardinality({q \in 1..idx' : none[q].end}) = ends'
      BY <2>1, <3>4
    <3>8. /\ none \in Seq(Rec) /\ Len(none) = idx'
          /\ \A q \in 1..idx' : receive'[q - 1] = none[q].b
      BY <2>1, <3>2, <3>5
    <3> QED BY <3>6, <3>7, <3>8 DEF Begun, Lay, Stops, Holds
  <2> QED
    BY <2>1, <2>2, <2>3 DEF ReceiveInv, FrontIsOldest
<1>3. CASE Timeout
  <2>1. /\ fpc = "receive" /\ fpc' = "call" /\ pending = <<>>
        /\ UNCHANGED <<pending, due, receive, idx, ends, past>>
    BY <1>3 DEF Timeout, inVars
  <2>2. ASSUME ~past PROVE Lay(pending, due)
    <3>1. PICK read : Begun(read)
      BY <2>1, <2>2 DEF ReceiveInv
    <3>2. read \in Seq(Rec) /\ Lay(read \o pending, due)
          /\ (read # <<>> /\ read[Len(read)].b = Flag => \A q \in 1..Len(read) : read[q].b = Flag)
      BY <3>1 DEF Begun
    <3>3. read \o pending = read
      <4> DEFINE R == Rec
      <4>1. read \in Seq(R)
        BY <3>2
      <4> HIDE DEF R
      <4> QED BY ONLY <2>1, <4>1
    <3>4. due = <<>>
      BY <1>1, <3>2, <3>3, NothingHeld
    <3> QED BY <2>1, <3>4, LayEmpty
  <2> QED
    BY <1>1, <2>1, <2>2 DEF ReceiveInv, ReceiveTypes, FrontIsOldest
<1>4. CASE Handled
  <2>1. /\ fpc = "returned" /\ fpc' = "call" /\ due' = SubSeq(due, ends + 1, Len(due))
        /\ UNCHANGED <<pending, receive, idx, ends, past>>
    BY <1>4 DEF Handled
  <2>2. due' \in Seq(Frames)
    <3>1. ends \in Nat
      BY <1>1 DEF ReceiveTypes
    <3> QED BY <1>1, <2>1, <3>1
  <2>3. ASSUME ~past PROVE Lay(pending, due)'
    <3>1. Lay(pending, SubSeq(due, ends + 1, Len(due)))
      BY <2>1, <2>3 DEF ReceiveInv
    <3>2. Lay(pending', due')
      BY <2>1, <3>1
    <3> QED BY <3>2 DEF Lay, Stops, Holds
  <2> QED
    BY <1>1, <2>1, <2>2, <2>3 DEF ReceiveInv, ReceiveTypes, FrontIsOldest
<1> QED
  BY <1>2, <1>3, <1>4

(* A read that ends with a flag reports a packet only if it has found more *)
(* than flags, and then the oldest frame is at the front. A read that does *)
(* not, or that has found flags alone, leaves the call as it was.          *)
LEMMA ReadReceive ==
  ASSUME ReceiveInv, Read
  PROVE  ReceiveInv'
<1>1. /\ fpc = "receive" /\ UNCHANGED <<due, frames>>
  BY DEF Read
<1>2. /\ DOMAIN receive = 0..(ReceiveSize - 1) /\ receive[ReceiveSize - 1] # Flag
      /\ pending \in Seq(Rec) /\ due \in Seq(Frames)
      /\ idx \in Nat /\ ends \in Nat /\ past \in BOOLEAN /\ ReceiveSize - 1 \in Nat
  BY FramingAssumption DEF ReceiveInv, ReceiveTypes
<1>3. PICK n \in 1..Len(pending) :
         LET b == [p \in DOMAIN receive |->
                      IF idx <= p /\ p < idx + n THEN pending[p - idx + 1].b ELSE receive[p]]
             r == RemoveEscapeHdlcFlag(b, idx + n)
         IN
         /\ idx + n < ReceiveSize
         /\ pending' = SubSeq(pending, n + 1, Len(pending))
         /\ idx' = idx + n
         /\ ends' = ends + Cardinality({k \in 1..n : pending[k].end})
         /\ IF pending[n].b = Flag
            THEN /\ receive' = r.buffer
                 /\ bytes' = r.index
                 /\ fpc' = IF r.index = 0 THEN "receive" ELSE "returned"
                 /\ past' = (past \/ FirstByte(b) > idx + n)
            ELSE /\ receive' = b
                 /\ UNCHANGED <<bytes, fpc, past>>
  BY DEF Read
<1> DEFINE b == [p \in DOMAIN receive |->
                    IF idx <= p /\ p < idx + n THEN pending[p - idx + 1].b ELSE receive[p]]
           m == idx + n
           r == RemoveEscapeHdlcFlag(b, m)
           N == ReceiveSize - 1
<1>4. /\ m < ReceiveSize
      /\ pending' = SubSeq(pending, n + 1, Len(pending))
      /\ idx' = m
      /\ ends' = ends + Cardinality({k \in 1..n : pending[k].end})
  BY <1>3
<1>5. pending[n].b = Flag =>
         /\ receive' = r.buffer
         /\ fpc' = IF r.index = 0 THEN "receive" ELSE "returned"
         /\ past' = (past \/ FirstByte(b) > m)
  BY <1>3
<1>6. pending[n].b # Flag => receive' = b /\ fpc' = "receive" /\ past' = past
  BY <1>1, <1>3
<1>7. n \in Nat /\ n > 0 /\ m \in 0..N /\ N \in Nat /\ m > 0 /\ m \in Nat
  <2>1. n \in Nat /\ n > 0
    <3>1. Len(pending) \in Nat
      BY <1>2
    <3> QED BY <3>1
  <2> QED BY <1>2, <1>4, <2>1, FramingAssumption
<1>8. DOMAIN b = 0..N /\ b[N] # Flag
  <2>1. DOMAIN b = 0..N /\ N \in DOMAIN receive
    BY <1>2
  <2>2. ~(N < idx + n)
    BY <1>7
  <2> QED BY <1>2, <2>1, <2>2
<1>9. \A q \in 1..m : b[q - 1] = IF q <= idx THEN receive[q - 1] ELSE pending[q - idx].b
  <2> SUFFICES ASSUME NEW q \in 1..m
               PROVE  b[q - 1] = IF q <= idx THEN receive[q - 1] ELSE pending[q - idx].b
    OBVIOUS
  <2>1. q - 1 \in DOMAIN receive /\ q - 1 < idx + n /\ (idx <= q - 1 <=> ~(q <= idx))
        /\ (q - 1) - idx + 1 = q - idx
    BY <1>2, <1>7
  <2> QED BY <2>1
<1> HIDE DEF b
<1>10. DOMAIN r.buffer = 0..N /\ r.buffer[N] # Flag
  BY <1>7, <1>8, LastStays
<1>11. pending' \in Seq(Rec)
  <2> DEFINE R == Rec
  <2>1. pending \in Seq(R)
    BY <1>2
  <2> HIDE DEF R
  <2>2. SubSeq(pending, n + 1, Len(pending)) \in Seq(R)
    BY ONLY <1>7, <2>1
  <2> QED BY <1>4, <2>2 DEF R
<1>12. ends' \in Nat
  <2>1. 1 \in Int /\ n \in Int
    BY <1>7
  <2>2. IsFiniteSet(1..n)
    BY <2>1, FS_Interval, Zenon
  <2> DEFINE B == {k \in 1..n : pending[k].end}
  <2>3. B \in SUBSET (1..n)
    OBVIOUS
  <2> HIDE DEF B
  <2>4. Cardinality(B) \in Nat
    BY <2>2, <2>3, FS_Subset, FS_CardinalityType
  <2>5. ends' = ends + Cardinality(B)
    BY <1>4 DEF B
  <2> QED BY <1>2, <2>4, <2>5
<1>13. FirstByte(b) \in 0..N /\ b[FirstByte(b)] # Flag
       /\ \A q \in 0..(FirstByte(b) - 1) : b[q] = Flag
  BY <1>7, <1>8, FirstByteFound
<1>14. ReceiveTypes'
  <2>1. fpc' \in {"receive", "returned"} /\ past' \in BOOLEAN
    BY <1>2, <1>5, <1>6
  <2>2. DOMAIN receive' = 0..N /\ receive'[N] # Flag
    BY <1>5, <1>6, <1>8, <1>10
  <2> QED
    BY <1>1, <1>2, <1>4, <1>7, <1>11, <1>12, <2>1, <2>2 DEF ReceiveTypes
<1>15. SUFFICES ASSUME ~past'
                PROVE  /\ fpc' = "receive" => \E read : Begun(read)'
                       /\ fpc' = "returned" =>
                             /\ ends' \in 0..Len(due)
                             /\ Lay(pending', SubSeq(due, ends' + 1, Len(due)))
                             /\ due # <<>>
                             /\ \A k \in 1..Len(Head(due)) : receive'[k - 1] = Head(due)[k]
  <2>1. fpc' \in {"receive", "returned"}
    BY <1>5, <1>6
  <2>2. Lay(pending', SubSeq(due, ends' + 1, Len(due)))
           => Lay(pending, SubSeq(due, ends + 1, Len(due)))'
    <3> SUFFICES ASSUME Lay(pending', SubSeq(due, ends' + 1, Len(due)))
                 PROVE  Lay(pending, SubSeq(due, ends + 1, Len(due)))'
      OBVIOUS
    <3>1. Lay(pending', SubSeq(due', ends' + 1, Len(due')))
      BY <1>1
    <3> QED BY <3>1 DEF Lay, Stops, Holds
  <2> QED BY <1>1, <1>14, <1>15, <2>1, <2>2 DEF ReceiveInv, FrontIsOldest
<1>16. ~past
  BY <1>2, <1>5, <1>6, <1>15
<1>17. PICK read : Begun(read)
  BY <1>1, <1>16 DEF ReceiveInv
<1> PICK x, y, s : x = read \o SubSeq(pending, 1, n) /\ y = SubSeq(pending, n + 1, Len(pending))
                   /\ s = read \o pending
  OBVIOUS
<1>18. /\ read \in Seq(Rec) /\ Len(read) = idx /\ Lay(s, due)
       /\ \A q \in 1..idx : receive[q - 1] = read[q].b
       /\ ends = Cardinality({q \in 1..idx : read[q].end})
  BY <1>17 DEF Begun
<1>19. /\ x \in Seq(Rec) /\ y \in Seq(Rec) /\ s \in Seq(Rec)
       /\ Len(x) = Len(read) + n /\ Len(s) = Len(read) + Len(pending)
       /\ x \o y = s
       /\ SubSeq(s, Len(read) + n + 1, Len(s)) = y
       /\ \A q \in 1..(Len(read) + n) : x[q] = s[q]
       /\ \A q \in 1..Len(read) : s[q] = read[q]
       /\ \A k \in 1..Len(pending) : s[Len(read) + k] = pending[k]
  <2> DEFINE R == Rec
  <2>1. read \in Seq(R) /\ pending \in Seq(R)
    BY <1>2, <1>18
  <2> HIDE DEF R
  <2> PICK more : more = pending
    OBVIOUS
  <2>2. /\ read \in Seq(R) /\ more \in Seq(R) /\ n \in 1..Len(more)
        /\ x = read \o SubSeq(more, 1, n) /\ y = SubSeq(more, n + 1, Len(more))
        /\ s = read \o more
    BY <2>1
  <2>3. Splits(R, read, more, n, x, y, s)
    BY ONLY <2>2, ReadSplits, Zenon
  <2> QED BY <2>3 DEF R, Splits
<1>20. /\ Len(x) = m /\ m \in 1..Len(s) /\ x[m] = pending[n] /\ s[m] = pending[n]
       /\ \A q \in 1..m : x[q] = s[q]
  <2>1. Len(read) = idx /\ n \in 1..Len(pending) /\ idx + n = m /\ Len(pending) \in Nat
    BY <1>2, <1>18
  <2>2. m \in 1..Len(s) /\ m \in 1..m
    BY <1>2, <1>7, <1>19, <2>1
  <2>3. s[m] = pending[n]
    BY <1>19, <2>1
  <2> QED BY <1>19, <2>1, <2>2, <2>3
<1>21. \A q \in 1..m : b[q - 1] = s[q].b
  <2> SUFFICES ASSUME NEW q \in 1..m PROVE b[q - 1] = s[q].b
    OBVIOUS
  <2>1. CASE q <= idx
    <3>1. q \in 1..idx
      BY <1>2, <2>1
    <3> QED BY <1>9, <1>18, <1>19, <2>1, <3>1
  <2>2. CASE ~(q <= idx)
    <3>1. q - idx \in 1..Len(pending) /\ idx + (q - idx) = q
      BY <1>2, <1>7, <2>2
    <3>2. s[q] = pending[q - idx]
      BY <1>18, <1>19, <3>1
    <3> QED BY <1>9, <2>2, <3>2
  <2> QED BY <2>1, <2>2
<1>22. ends' = Cardinality({q \in 1..m : s[q].end})
  <2>1. \A k \in 1..n : s[idx + k] = pending[k]
    <3>1. \A k \in 1..n : k \in 1..Len(pending)
      BY <1>7
    <3> QED BY <1>18, <1>19, <3>1
  <2>2. Cardinality({q \in 1..m : s[q].end})
           = Cardinality({q \in 1..idx : s[q].end}) + Cardinality({k \in 1..n : pending[k].end})
    <3> PICK j, more : j = idx /\ more = pending
      OBVIOUS
    <3>1. j \in Nat /\ n \in Nat /\ \A k \in 1..n : s[j + k] = more[k]
      BY <1>2, <1>7, <2>1
    <3>2. EndsIn(s, j + n) = EndsIn(s, j) + EndsIn(more, n)
      BY ONLY <3>1, EndsAdd
    <3> QED BY <3>2 DEF EndsIn
  <2>3. {q \in 1..idx : s[q].end} = {q \in 1..idx : read[q].end}
    BY <1>18, <1>19
  <2> QED BY <1>4, <1>18, <2>2, <2>3
<1>23. {q \in 1..m : x[q].end} = {q \in 1..m : s[q].end}
  BY <1>20
<1>24. ASSUME receive' = b, fpc' = "receive",
              x[m].b = Flag => \A q \in 1..m : x[q].b = Flag
       PROVE  Begun(x)'
  <2>1. Lay(x \o pending', due')
    BY <1>1, <1>4, <1>18, <1>19
  <2>2. x \in Seq(Rec) /\ Len(x) = idx' /\ ends' = Cardinality({q \in 1..idx' : x[q].end})
    BY <1>4, <1>19, <1>20, <1>22, <1>23
  <2>3. \A q \in 1..idx' : receive'[q - 1] = x[q].b
    BY <1>4, <1>20, <1>21, <1>24
  <2> QED
    BY <1>20, <1>24, <2>1, <2>2, <2>3 DEF Begun, Lay, Stops, Holds
<1>25. CASE pending[n].b # Flag
  BY <1>6, <1>20, <1>24, <1>25
<1>26. CASE pending[n].b = Flag /\ \A q \in 1..m : s[q].b = Flag
  <2>1. FirstByte(b) = m
    <3>1. FirstByte(b) \in Nat /\ ~(FirstByte(b) > m)
      <4>1. ~(FirstByte(b) > m)
        BY <1>5, <1>15, <1>26, Zenon
      <4> QED BY <1>13, <4>1
    <3>2. ~(FirstByte(b) < m)
      <4> SUFFICES ASSUME FirstByte(b) < m PROVE FALSE
        OBVIOUS
      <4> DEFINE q == FirstByte(b) + 1
      <4>1. q \in 1..m /\ q - 1 = FirstByte(b)
        BY <1>7, <3>1
      <4> HIDE DEF q
      <4>2. b[q - 1] = s[q].b
        BY <1>21, <4>1
      <4>3. s[q].b = Flag
        BY <1>26, <4>1
      <4> QED BY ONLY <1>13, <4>1, <4>2, <4>3
    <3> QED BY <1>7, <3>1, <3>2
  <2>2. r.index = 0 /\ r.buffer = b
    BY <2>1 DEF RemoveEscapeHdlcFlag
  <2> HIDE DEF r
  <2>3. receive' = b /\ fpc' = "receive"
    BY <1>5, <1>26, <2>2
  <2> QED BY <1>20, <1>24, <1>26, <2>3
<1>27. CASE pending[n].b = Flag /\ \E q \in 1..m : s[q].b # Flag
  <2>1. PICK q \in 1..m : s[q].b # Flag
    BY <1>27
  <2>2. fpc' = "returned" /\ receive' = r.buffer
    <3>1. FirstByte(b) < m /\ FirstByte(b) \in Nat
      <4> SUFFICES ASSUME ~(FirstByte(b) < m) PROVE FALSE
        BY <1>13
      <4>1. q - 1 \in 0..(FirstByte(b) - 1)
        BY <1>7, <1>13
      <4> QED BY <1>13, <1>21, <2>1, <4>1
    <3>2. r.index = Index(b, FirstByte(b), m)
      <4>1. FirstByte(b) # m
        BY <1>7, <3>1
      <4> QED BY <4>1 DEF RemoveEscapeHdlcFlag, Moved
    <3>3. Index(b, FirstByte(b), m) # 0
      <4> DEFINE first == FirstByte(b)
      <4>1. m - 1 \in first..(m - 1) /\ m - 1 \in Nat /\ first <= m - 1 /\ first <= m /\ first \in Nat
        BY <1>7, <3>1
      <4>2. b[m - 1] # Esc
        <5>1. m \in 1..m
          BY <1>7
        <5>2. b[m - 1] = Flag
          BY <1>20, <1>21, <1>27, <5>1
        <5> QED BY <5>2 DEF Flag, Esc
      <4> HIDE DEF first
      <4>3. Index(b, first, m - 1) < Index(b, first, m)
        BY <1>7, <4>1, <4>2, IndexCounts
      <4>4. Index(b, first, m - 1) \in Nat /\ Index(b, first, m) \in Nat
        BY <1>7, <4>1, IndexCounts
      <4>5. Index(b, first, m) # 0
        BY <4>3, <4>4
      <4> QED BY <4>5 DEF first
    <3> HIDE DEF r
    <3> QED BY <1>5, <1>27, <3>2, <3>3
  <2>3. due # <<>> /\ \A k \in 1..Len(Head(due)) : r.buffer[k - 1] = Head(due)[k]
    <3>1. s[m].b = Flag /\ m <= N /\ N \in Nat /\ DOMAIN b = 0..N /\ m \in 1..Len(s)
      BY <1>7, <1>8, <1>20, <1>27
    <3>2. s \in Seq(Rec) /\ due \in Seq(Frames) /\ Lay(s, due) /\ q \in 1..m
      BY <1>2, <1>18, <1>19
    <3> HIDE DEF m, N
    <3> QED
      BY ONLY <1>21, <2>1, <3>1, <3>2, OldestInFront, Zenon
  <2>4. ends' \in 0..Len(due) /\ Lay(SubSeq(s, m + 1, Len(s)), SubSeq(due, ends' + 1, Len(due)))
    <3>1. s[m].b = Flag
      BY <1>20, <1>27
    <3> QED
      BY <1>2, <1>18, <1>19, <1>20, <1>22, <3>1, LayCut
  <2>5. SubSeq(s, m + 1, Len(s)) = pending'
    BY <1>4, <1>18, <1>19
  <2> HIDE DEF r
  <2> QED BY <2>2, <2>3, <2>4, <2>5
<1> QED
  BY <1>25, <1>26, <1>27

(* What a call has read and what is pending are the frames that are due.   *)
LEMMA ReceiveHolds == Spec => []ReceiveInv
<1>1. Init => ReceiveInv
  <2> SUFFICES ASSUME FramingInit PROVE ReceiveInv
    BY DEF Init
  <2>1. /\ fpc = "compose" /\ pending = <<>> /\ due = <<>> /\ idx = 0 /\ ends = 0 /\ past = FALSE
        /\ receive = [p \in 0..(ReceiveSize - 1) |-> 0]
    BY DEF FramingInit
  <2>2. ReceiveTypes
    <3>1. ReceiveSize - 1 \in 0..(ReceiveSize - 1) /\ 0 \in 0..(ReceiveSize - 1)
      BY FramingAssumption
    <3>2. DOMAIN receive = 0..(ReceiveSize - 1) /\ receive[ReceiveSize - 1] # Flag
      BY <2>1, <3>1 DEF Flag
    <3>3. <<>> \in Seq(Rec) /\ <<>> \in Seq(Frames)
      OBVIOUS
    <3> QED BY <2>1, <3>1, <3>2, <3>3 DEF ReceiveTypes
  <2>3. Lay(pending, due)
    BY <2>1, LayEmpty
  <2> QED BY <2>1, <2>2, <2>3 DEF ReceiveInv, FrontIsOldest
<1>2. ReceiveInv /\ [Next]_vars => ReceiveInv'
  <2> SUFFICES ASSUME ReceiveInv, [Next]_vars PROVE ReceiveInv'
    OBVIOUS
  <2>1. CASE UNCHANGED framingVars
    <3>1. UNCHANGED <<fpc, pending, due, receive, idx, ends, past>>
      BY <2>1 DEF framingVars, inVars
    <3>2. ReceiveTypes' /\ FrontIsOldest'
      BY <3>1 DEF ReceiveInv, ReceiveTypes, FrontIsOldest
    <3>3. ASSUME NEW read, Begun(read) PROVE Begun(read)'
      <4>1. Lay(read \o pending', due')
        BY <3>1, <3>3 DEF Begun
      <4>2. Lay(read \o pending, due)'
        BY <4>1 DEF Lay, Stops, Holds
      <4> QED
        BY <3>1, <3>3, <4>2 DEF Begun
    <3>4. Lay(pending, due) => Lay(pending, due)'
      <4>1. Lay(pending, due) => Lay(pending', due')
        BY <3>1
      <4> QED BY <4>1 DEF Lay, Stops, Holds
    <3>5. Lay(pending, SubSeq(due, ends + 1, Len(due)))
             => Lay(pending, SubSeq(due, ends + 1, Len(due)))'
      <4>1. Lay(pending, SubSeq(due, ends + 1, Len(due)))
               => Lay(pending', SubSeq(due', ends' + 1, Len(due')))
        BY <3>1
      <4> QED BY <4>1 DEF Lay, Stops, Holds
    <3> QED
      BY <3>1, <3>2, <3>3, <3>4, <3>5 DEF ReceiveInv
  <2>2. CASE FramingNext
    <3>1. CASE Compose \/ EscapeByte \/ WritePacket \/ Flush
      BY <3>1, OthersReceive
    <3>2. CASE FrameArrives
      BY <3>2, ArrivesReceive
    <3>3. CASE CallReceive \/ Timeout \/ Handled
      BY <3>3, CallsReceive
    <3>4. CASE Read
      BY <3>4, ReadReceive
    <3> QED BY <2>2, <3>1, <3>2, <3>3, <3>4 DEF FramingNext
  <2> QED BY <2>1, <2>2 DEF Next, vars
<1> QED
  BY <1>1, <1>2, PTL DEF Spec

(* FrontIsOldest: when receive_packet reports a packet, the oldest frame   *)
(* not yet handled is at the front of the buffer, whole and unescaped,     *)
(* wherever the reads were cut and whatever flags come before it; unless a *)
(* flag that an earlier packet left in the buffer was taken for a leading  *)
(* one.                                                                    *)
THEOREM OldestComesFirst == Spec => []FrontIsOldest
<1>1. ReceiveInv => FrontIsOldest
  BY DEF ReceiveInv
<1> QED
  BY <1>1, ReceiveHolds, PTL

(* Unmasking a byte, escaping one and unescaping a buffer yield bytes.     *)
LEMMA MaskedIsByte ==
  ASSUME NEW b \in Byte
  PROVE  Masked(b) \in Byte
  BY DEF Masked, Byte

LEMMA EscapedIsBytes ==
  ASSUME NEW ch \in Byte
  PROVE  Escaped(ch) \in Seq(Byte)
<1>1. Esc \in Byte /\ Masked(ch) \in Byte
  <2>1. Esc \in Byte
    BY DEF Esc, Byte
  <2> QED BY <2>1, MaskedIsByte, Zenon
<1> DEFINE m == Masked(ch)
<1>2. <<Esc, m>> \in Seq(Byte) /\ <<ch>> \in Seq(Byte)
  <2> HIDE DEF m
  <2>1. m \in Byte
    BY <1>1 DEF m
  <2> QED BY <1>1, <2>1
<1> QED
  BY <1>2, Zenon DEF Escaped

LEMMA OnWireIsBytes ==
  ASSUME NEW f \in Seq(Byte)
  PROVE  OnWire(f) \in Seq(Byte)
<1> DEFINE n == EndOf(f, Len(f))
           w(p) == IF \E k \in 1..Len(f) : EndOf(f, k) = p
                   THEN Last(Escaped(f[CHOOSE k \in 1..Len(f) : EndOf(f, k) = p]))
                   ELSE Esc
<1>1. n \in Nat
  <2>1. f \in Seq(Nat)
    <3>1. Len(f) \in Nat /\ f \in [1..Len(f) -> Byte]
      OBVIOUS
    <3>2. Byte \subseteq Nat
      BY DEF Byte
    <3>3. f \in [1..Len(f) -> Nat]
      BY <3>1, <3>2
    <3> QED BY <3>1, <3>3
  <2> QED BY <2>1, OnWireIs
<1>2. ASSUME NEW p \in 1..n PROVE w(p) \in Byte
  <2>1. CASE \E k \in 1..Len(f) : EndOf(f, k) = p
    <3>1. PICK k \in 1..Len(f) : k = CHOOSE c \in 1..Len(f) : EndOf(f, c) = p
      BY <2>1
    <3>2. f[k] \in Byte
      OBVIOUS
    <3>3. Last(Escaped(f[k])) \in Byte
      <4>1. Masked(f[k]) \in Byte
        BY <3>2, MaskedIsByte
      <4> QED BY <3>2, <4>1 DEF Escaped, Last
    <3> QED BY <2>1, <3>1, <3>3
  <2>2. CASE ~(\E k \in 1..Len(f) : EndOf(f, k) = p)
    BY <2>2 DEF Esc, Byte
  <2> QED BY <2>1, <2>2
<1>3. OnWire(f) = [p \in 1..n |-> w(p)]
  BY DEF OnWire
<1> HIDE DEF n, w
<1> QED
  BY <1>1, <1>2, <1>3

(* What the loop of remove_escape_hdlc_flag counts goes up by one at a     *)
(* byte that is no escape.                                                 *)
LEMMA IndexStep ==
  ASSUME NEW buffer, NEW first \in Nat, NEW q \in Nat, first <= q
  PROVE  /\ Index(buffer, first, first) = 0
         /\ buffer[q] = Esc => Index(buffer, first, q + 1) = Index(buffer, first, q)
         /\ buffer[q] # Esc => Index(buffer, first, q + 1) = Index(buffer, first, q) + 1
<1> DEFINE S(x) == {r \in first..(x - 1) : buffer[r] # Esc}
<1>1. S(first) = {} /\ q \notin S(q)
  OBVIOUS
<1>2. buffer[q] = Esc => S(q + 1) = S(q)
  OBVIOUS
<1>3. buffer[q] # Esc => S(q + 1) = S(q) \cup {q}
  OBVIOUS
<1>4. IsFiniteSet(S(q))
  <2>1. first \in Int /\ q - 1 \in Int
    OBVIOUS
  <2>2. IsFiniteSet(first..(q - 1))
    BY <2>1, FS_Interval, Zenon
  <2>3. S(q) \in SUBSET (first..(q - 1))
    OBVIOUS
  <2> HIDE DEF S
  <2> QED BY <2>2, <2>3, FS_Subset
<1>5. \A x : Index(buffer, first, x) = Cardinality(S(x))
  BY DEF Index
<1> HIDE DEF S
<1>6. Cardinality(S(q) \cup {q}) = Cardinality(S(q)) + 1
  BY <1>1, <1>4, FS_AddElement
<1>7. Cardinality(S(first)) = 0
  BY <1>1, FS_EmptySet
<1> QED
  BY <1>2, <1>3, <1>5, <1>6, <1>7

(* remove_escape_hdlc_flag stays within the buffer and leaves bytes in it: *)
(* every index below the one it reports has a byte that is moved there.    *)
LEMMA RemovedIsBytes ==
  ASSUME NEW n \in Nat, NEW buffer \in [0..n -> Byte], buffer[n] # Flag, NEW len \in 0..n
  PROVE  /\ RemoveEscapeHdlcFlag(buffer, len).buffer \in [0..n -> Byte]
         /\ RemoveEscapeHdlcFlag(buffer, len).index \in 0..n
<1> DEFINE first == FirstByte(buffer)
           x(q) == Index(buffer, first, q)
           u == Unmasked(buffer, first, len)
           Source(p) == CHOOSE q \in first..(len - 1) : buffer[q] # Esc /\ x(q) = p
<1>1. first \in 0..n /\ first \in Nat /\ len \in Nat
  <2>1. first \in 0..n
    BY FirstByteFound
  <2> HIDE DEF first
  <2> QED BY <2>1
<1>2. u \in [0..n -> Byte]
  <2> HIDE DEF first
  <2>1. \A p \in 0..n : buffer[p] \in Byte /\ Masked(buffer[p]) \in Byte
    BY MaskedIsByte
  <2> QED BY <2>1 DEF Unmasked
<1>3. CASE first = len
  BY <1>3 DEF RemoveEscapeHdlcFlag
<1>4. CASE first # len
  <2> DEFINE m == x(len)
  <2>1. /\ RemoveEscapeHdlcFlag(buffer, len).index = m
        /\ RemoveEscapeHdlcFlag(buffer, len).buffer
              = [p \in 0..n |-> IF p < m THEN u[Source(p)] ELSE IF p = m THEN 0 ELSE u[p]]
    BY <1>4 DEF RemoveEscapeHdlcFlag, Moved
  <2>2. m \in 0..len
    <3> HIDE DEF first
    <3>1. CASE first <= len
      <4>1. x(len) \in Nat /\ first + x(len) <= len
        BY <1>1, <3>1, IndexCounts
      <4> HIDE DEF x
      <4> QED BY <1>1, <4>1
    <3>2. CASE ~(first <= len)
      <4>1. {q \in first..(len - 1) : buffer[q] # Esc} = {}
        BY <1>1, <3>2
      <4>2. x(len) = 0
        BY <4>1, FS_EmptySet DEF Index
      <4> QED BY <1>1, <4>2
    <3> QED BY <3>1, <3>2
  <2>3. ASSUME NEW p \in 0..n, p < m
        PROVE  \E q \in first..(len - 1) : buffer[q] # Esc /\ x(q) = p
    <3> HIDE DEF first
    <3> DEFINE T == {z \in first..len : p < x(z)}
    <3>1. len \in T
      <4> SUFFICES first <= len
        BY <1>1, <2>3
      <4> SUFFICES ASSUME ~(first <= len) PROVE FALSE
        BY <1>1
      <4>1. {q \in first..(len - 1) : buffer[q] # Esc} = {}
        BY <1>1
      <4>2. x(len) = 0
        BY <4>1, FS_EmptySet DEF Index
      <4> QED BY <2>3, <4>2
    <3>2. PICK z \in T : \A y \in T : z <= y
      <4>1. T \in SUBSET Nat
        BY <1>1
      <4> QED BY <3>1, <4>1, Smallest
    <3>3. z \in first..len /\ p < x(z)
      OBVIOUS
    <3>4. z # first
      <4>1. x(first) = 0
        BY <1>1, IndexStep
      <4> HIDE DEF x
      <4> QED BY <3>3, <4>1
    <3> DEFINE q == z - 1
    <3>5. q \in first..(len - 1) /\ q \in Nat /\ first <= q /\ q + 1 = z
      BY <1>1, <3>3, <3>4
    <3>6. ~(p < x(q))
      <4> SUFFICES ASSUME p < x(q) PROVE FALSE
        OBVIOUS
      <4>1. q \in T /\ ~(z <= q)
        BY <1>1, <3>5
      <4> QED BY <3>2, <4>1
    <3>7. /\ buffer[q] = Esc => x(z) = x(q)
          /\ buffer[q] # Esc => x(z) = x(q) + 1
      <4> HIDE DEF q
      <4>1. /\ buffer[q] = Esc => x(q + 1) = x(q)
            /\ buffer[q] # Esc => x(q + 1) = x(q) + 1
        BY <1>1, <3>5, IndexStep
      <4> QED BY <3>5, <4>1
    <3>8. x(q) \in Nat
      <4> HIDE DEF q
      <4> QED BY <1>1, <3>5, IndexCounts
    <3> HIDE DEF x, q
    <3>9. buffer[q] # Esc /\ x(q) = p
      BY <3>3, <3>6, <3>7, <3>8
    <3> QED BY <3>5, <3>9
  <2>4. ASSUME NEW p \in 0..n, p < m PROVE u[Source(p)] \in Byte
    <3>1. Source(p) \in first..(len - 1)
      <4> HIDE DEF m, x, first
      <4> QED BY <2>3, <2>4
    <3> HIDE DEF Source, first, u
    <3>2. Source(p) \in 0..n
      BY <1>1, <3>1
    <3> QED BY <1>2, <3>2
  <2>5. 0 \in Byte /\ m \in 0..n
    BY <1>1, <2>2 DEF Byte
  <2> HIDE DEF u, Source, m, x, first
  <2> QED BY <1>2, <2>1, <2>4, <2>5
<1> QED
  BY <1>1, <1>3, <1>4

(* Each frame sent ends once among the bytes read and the pending ones.    *)
Typed ==
    /\ FramingTypeOK
    /\ ends + EndsIn(pending, Len(pending)) <= frames

LEMMA EndsType ==
  ASSUME NEW s, NEW n \in Nat
  PROVE  EndsIn(s, n) \in Nat
<1> DEFINE B == {k \in 1..n : s[k].end}
<1>1. IsFiniteSet(1..n) /\ B \in SUBSET (1..n)
  <2>1. 1 \in Int /\ n \in Int
    OBVIOUS
  <2> QED BY <2>1, FS_Interval, Zenon
<1> HIDE DEF B
<1>2. Cardinality(B) \in Nat
  BY <1>1, FS_Subset, FS_CardinalityType
<1> QED
  BY <1>2 DEF B, EndsIn

(* The sending side.                                                       *)
LEMMA SendTyped ==
  ASSUME Typed, Compose \/ EscapeByte \/ WritePacket
  PROVE  Typed'
<1>1. UNCHANGED <<pending, due, receive, idx, ends, bytes, frames, past>>
  BY DEF Compose, EscapeByte, WritePacket, inVars
<1>2. /\ transmit \in Seq(Byte) /\ i \in 0..Len(transmit)
      /\ send_tmp \in Seq(Byte) /\ wire \in Seq(Byte)
  BY DEF Typed, FramingTypeOK
<1>3. Flag \in Byte
  BY DEF Flag, Byte
<1> SUFFICES /\ fpc' \in {"compose", "escape", "call", "receive", "returned"}
             /\ transmit' \in Seq(Byte) /\ i' \in 0..Len(transmit')
             /\ send_tmp' \in Seq(Byte) /\ wire' \in Seq(Byte)
  BY <1>1 DEF Typed, FramingTypeOK, EndsIn
<1>4. CASE Compose
  <2>1. /\ fpc' = "escape" /\ i' = 0 /\ send_tmp' \in {<<>>, <<Flag>>} /\ wire' = wire
    BY <1>4 DEF Compose
  <2>2. PICK n \in Header..(Header + Cache), c \in [1..2 -> Payload] :
          \E p \in [1..n -> Payload] :
             transmit' = [k \in 1..(n + 2) |-> IF k <= n THEN p[k] ELSE c[k - n]]
    BY <1>4 DEF Compose
  <2>3. PICK p \in [1..n -> Payload] :
          transmit' = [k \in 1..(n + 2) |-> IF k <= n THEN p[k] ELSE c[k - n]]
    BY <2>2
  <2>4. n \in Nat /\ n + 2 \in Nat /\ Payload \subseteq Byte
    BY FramingAssumption DEF Byte
  <2>5. \A k \in 1..(n + 2) : (IF k <= n THEN p[k] ELSE c[k - n]) \in Byte
    <3> SUFFICES ASSUME NEW k \in 1..(n + 2)
                 PROVE  (IF k <= n THEN p[k] ELSE c[k - n]) \in Byte
      OBVIOUS
    <3>1. CASE k <= n
      BY <2>4, <3>1
    <3>2. CASE ~(k <= n)
      <4>1. k - n \in 1..2
        BY <2>4, <3>2
      <4> QED BY <2>4, <3>2, <4>1
    <3> QED BY <3>1, <3>2
  <2>6. transmit' \in Seq(Byte) /\ 0 \in 0..Len(transmit')
    BY <2>3, <2>4, <2>5
  <2>7. send_tmp' \in Seq(Byte)
    <3>1. <<>> \in Seq(Byte) /\ <<Flag>> \in Seq(Byte)
      BY <1>3
    <3> QED BY <2>1, <3>1, Zenon
  <2> QED BY <1>2, <2>1, <2>6, <2>7
<1>5. CASE EscapeByte
  <2>1. /\ fpc' = "escape" /\ i < Len(transmit) /\ i' = i + 1
        /\ UNCHANGED <<transmit, wire>>
        /\ send_tmp' = send_tmp \o Escaped(transmit[i + 1])
    BY <1>5 DEF EscapeByte
  <2>2. transmit[i + 1] \in Byte /\ i' \in 0..Len(transmit)
    <3>1. Len(transmit) \in Nat
      BY <1>2
    <3>2. i + 1 \in 1..Len(transmit)
      BY <1>2, <2>1, <3>1
    <3> QED BY <1>2, <2>1, <3>1, <3>2
  <2>3. Escaped(transmit[i + 1]) \in Seq(Byte)
    BY <2>2, EscapedIsBytes
  <2>4. send_tmp' \in Seq(Byte)
    <3> DEFINE e == Escaped(transmit[i + 1])
    <3> HIDE DEF e
    <3>1. send_tmp \o e \in Seq(Byte)
      BY <1>2, <2>3 DEF e
    <3> QED BY <2>1, <3>1 DEF e
  <2> QED BY <1>2, <2>1, <2>2, <2>4
<1>6. CASE WritePacket
  <2>1. /\ fpc' = "call" /\ UNCHANGED <<transmit, i>>
        /\ send_tmp' = Append(send_tmp, Flag) /\ wire' = Append(send_tmp, Flag)
    BY <1>6 DEF WritePacket
  <2>2. Append(send_tmp, Flag) \in Seq(Byte)
    BY <1>2, <1>3
  <2> QED BY <1>2, <2>1, <2>2
<1> QED
  BY <1>4, <1>5, <1>6

(* Calls of receive_packet and the module's frames.                        *)
LEMMA CallsTyped ==
  ASSUME Typed, CallReceive \/ Timeout \/ Handled \/ Flush
  PROVE  Typed'
<1>1. /\ transmit \in Seq(Byte) /\ i \in 0..Len(transmit)
      /\ send_tmp \in Seq(Byte) /\ wire \in Seq(Byte)
      /\ pending \in Seq([b : Byte, end : BOOLEAN]) /\ due \in Seq(Frames)
      /\ idx \in 0..(ReceiveSize - 1) /\ ends \in 0..MaxFrames /\ frames \in 0..MaxFrames
      /\ ends + EndsIn(pending, Len(pending)) <= frames
  BY DEF Typed, FramingTypeOK
<1>2. EndsIn(pending, Len(pending)) \in Nat
  <2>1. Len(pending) \in Nat
    BY <1>1
  <2> QED BY <2>1, EndsType
<1>3. 0 \in 0..(ReceiveSize - 1) /\ 0 \in 0..MaxFrames /\ MaxFrames \in Nat
  BY FramingAssumption
<1>4. CASE CallReceive
  <2>1. /\ fpc' = "receive" /\ transmit' = <<>> /\ i' = 0 /\ send_tmp' = <<>> /\ wire' = <<>>
        /\ idx' = 0 /\ ends' = 0 /\ UNCHANGED <<pending, due, receive, bytes, frames, past>>
    BY <1>4 DEF CallReceive
  <2>2. <<>> \in Seq(Byte) /\ 0 \in 0..Len(<<>>)
    OBVIOUS
  <2>3. ends' + EndsIn(pending, Len(pending)) <= frames
    BY <1>1, <1>2, <1>3, <2>1
  <2>4. (ends + EndsIn(pending, Len(pending)) <= frames)'
    BY <2>1, <2>3 DEF EndsIn
  <2> QED BY <1>1, <1>3, <2>1, <2>2, <2>4 DEF Typed, FramingTypeOK
<1>5. CASE Timeout
  <2>1. fpc' = "call" /\ UNCHANGED <<transmit, i, send_tmp, wire, pending, due, receive, idx,
                                     ends, bytes, frames, past>>
    BY <1>5 DEF Timeout, inVars, outVars
  <2> QED BY <2>1 DEF Typed, FramingTypeOK, EndsIn
<1>6. CASE Handled
  <2>1. /\ fpc' = "call" /\ due' = SubSeq(due, ends + 1, Len(due))
        /\ UNCHANGED <<transmit, i, send_tmp, wire, pending, receive, idx, ends, bytes,
                       frames, past>>
    BY <1>6 DEF Handled, outVars
  <2>2. due' \in Seq(Frames)
    <3>1. ends + 1 \in Nat /\ ends + 1 >= 1 /\ Len(due) \in Nat
      BY <1>1, <1>3
    <3>2. SubSeq(due, ends + 1, Len(due)) \in Seq(Frames)
      BY <1>1, <3>1
    <3> QED BY <2>1, <3>2
  <2> QED BY <2>1, <2>2 DEF Typed, FramingTypeOK, EndsIn
<1>7. CASE Flush
  <2>1. /\ pending' = <<>> /\ due' = <<>>
        /\ UNCHANGED <<fpc, transmit, i, send_tmp, wire, receive, idx, ends, bytes, frames, past>>
    BY <1>7 DEF Flush, outVars
  <2>2. EndsIn(<<>>, Len(<<>>)) = 0
    <3>1. {q \in 1..Len(<<>>) : <<>>[q].end} = {}
      OBVIOUS
    <3> QED BY <3>1, FS_EmptySet DEF EndsIn
  <2>3. ends' + EndsIn(pending', Len(pending')) <= frames'
    BY <1>1, <1>2, <1>3, <2>1, <2>2
  <2>4. (ends + EndsIn(pending, Len(pending)) <= frames)'
    BY <2>3 DEF EndsIn
  <2>5. pending' \in Seq([b : Byte, end : BOOLEAN]) /\ due' \in Seq(Frames)
    BY <2>1
  <2> QED BY <2>1, <2>4, <2>5 DEF Typed, FramingTypeOK
<1> QED
  BY <1>4, <1>5, <1>6, <1>7

LEMMA ArrivesTyped ==
  ASSUME Typed, FrameArrives
  PROVE  Typed'
<1>1. /\ frames < MaxFrames /\ frames' = frames + 1
      /\ UNCHANGED <<fpc, transmit, i, send_tmp, wire, receive, idx, ends, bytes, past>>
  BY DEF FrameArrives, outVars
<1>2. PICK f \in Frames, lead \in {<<>>, <<Flag>>} :
         LET b == lead \o OnWire(f) \o <<Flag>> IN
         /\ pending' = pending \o [k \in 1..Len(b) |-> [b |-> b[k], end |-> k = Len(b)]]
         /\ due' = Append(due, f)
  BY DEF FrameArrives
<1> DEFINE b == lead \o OnWire(f) \o <<Flag>>
           new == Sent(b)
           R == [b : Byte, end : BOOLEAN]
<1>3. pending' = pending \o new /\ due' = Append(due, f)
  BY <1>2 DEF Sent
<1>4. /\ pending \in Seq(R) /\ due \in Seq(Frames)
      /\ ends \in 0..MaxFrames /\ frames \in 0..MaxFrames /\ MaxFrames \in Nat
      /\ ends + EndsIn(pending, Len(pending)) <= frames
  BY FramingAssumption DEF Typed, FramingTypeOK
<1>5. b \in Seq(Byte) /\ Len(b) \in Nat /\ Len(b) > 0
  <2>1. f \in Seq(Payload) /\ Payload \subseteq Byte
    BY FramingAssumption DEF Byte
  <2>2. f \in Seq(Byte)
    <3>1. Len(f) \in Nat /\ f \in [1..Len(f) -> Payload]
      BY <2>1
    <3>2. f \in [1..Len(f) -> Byte]
      BY <2>1, <3>1
    <3> QED BY <3>1, <3>2
  <2>3. OnWire(f) \in Seq(Byte)
    BY <2>2, OnWireIsBytes
  <2>4. <<>> \in Seq(Byte) /\ <<Flag>> \in Seq(Byte) /\ Len(<<Flag>>) = 1
    BY DEF Flag, Byte
  <2>5. lead \in Seq(Byte)
    BY <2>4, Zenon
  <2> DEFINE w == OnWire(f)
             e == <<Flag>>
  <2>6. w \in Seq(Byte) /\ e \in Seq(Byte) /\ Len(e) = 1
    BY <2>3, <2>4
  <2> HIDE DEF w, e
  <2> PICK v : v = lead \o w
    OBVIOUS
  <2>7. v \in Seq(Byte)
    BY <2>5, <2>6
  <2>8. v \o e \in Seq(Byte) /\ Len(v \o e) = Len(v) + 1 /\ Len(v) \in Nat
    <3>1. e \in Seq(Byte) /\ v \in Seq(Byte)
      BY <2>6, <2>7
    <3>2. v \o e \in Seq(Byte) /\ Len(v \o e) = Len(v) + Len(e) /\ Len(v) \in Nat
      BY ONLY <3>1
    <3> QED BY <2>6, <3>2
  <2>9. b = v \o e
    BY DEF w, e
  <2> HIDE DEF b
  <2> QED BY <2>8, <2>9
<1> HIDE DEF b
<1>6. /\ new \in Seq(R) /\ Len(new) = Len(b)
      /\ \A k \in 1..Len(b) : new[k].end <=> k = Len(b)
  <2>1. \A k \in 1..Len(b) : b[k] \in Byte
    BY <1>5
  <2>2. \A k \in 1..Len(b) : [b |-> b[k], end |-> k = Len(b)] \in R
    BY <2>1, Zenon
  <2>3. new \in [1..Len(b) -> R]
    BY <2>2, Zenon DEF Sent
  <2>4. \A k \in 1..Len(b) : new[k].end <=> k = Len(b)
    BY Zenon DEF Sent
  <2> HIDE DEF new, R
  <2> QED BY <1>5, <2>3, <2>4
<1> HIDE DEF new
<1>7. pending' \in Seq(R) /\ due' \in Seq(Frames)
  <2> HIDE DEF R
  <2>1. pending \o new \in Seq(R)
    BY <1>4, <1>6
  <2>2. Append(due, f) \in Seq(Frames)
    BY <1>4
  <2> QED BY <1>3, <2>1, <2>2
<1>8. EndsIn(pending', Len(pending')) = EndsIn(pending, Len(pending)) + 1
  <2> HIDE DEF R
  <2> PICK p, s : p = pending /\ s = pending'
    OBVIOUS
  <2>1. /\ Len(p) \in Nat /\ Len(new) \in Nat /\ Len(s) = Len(p) + Len(new)
        /\ \A k \in 1..Len(p) : s[k] = p[k]
        /\ \A k \in 1..Len(new) : s[Len(p) + k] = new[k]
    <3>1. p \in Seq(R) /\ new \in Seq(R) /\ s = p \o new
      BY <1>3, <1>4, <1>6
    <3> QED BY ONLY <3>1
  <2>2. EndsIn(s, Len(p) + Len(new)) = EndsIn(s, Len(p)) + EndsIn(new, Len(new))
    <3> PICK j, n : j = Len(p) /\ n = Len(new)
      OBVIOUS
    <3>1. j \in Nat /\ n \in Nat /\ \A k \in 1..n : s[j + k] = new[k]
      BY <2>1
    <3>2. EndsIn(s, j + n) = EndsIn(s, j) + EndsIn(new, n)
      BY ONLY <3>1, EndsAdd
    <3> QED BY <3>2
  <2>3. EndsIn(s, Len(p)) = EndsIn(p, Len(p))
    <3>1. {k \in 1..Len(p) : s[k].end} = {k \in 1..Len(p) : p[k].end}
      BY <2>1
    <3> QED BY <3>1 DEF EndsIn
  <2>4. EndsIn(new, Len(new)) = 1
    <3>1. {k \in 1..Len(new) : new[k].end} = {Len(b)}
      BY <1>5, <1>6
    <3>2. Cardinality({Len(b)}) = 1
      BY FS_Singleton
    <3> QED BY <3>1, <3>2 DEF EndsIn
  <2> QED BY <2>1, <2>2, <2>3, <2>4
<1>9. EndsIn(pending, Len(pending)) \in Nat
  <2>1. Len(pending) \in Nat
    BY <1>4
  <2> QED BY <2>1, EndsType
<1>10. ends' + EndsIn(pending', Len(pending')) <= frames' /\ frames' \in 0..MaxFrames
  BY <1>1, <1>4, <1>8, <1>9
<1>11. (ends + EndsIn(pending, Len(pending)) <= frames)'
  BY <1>10 DEF EndsIn
<1> QED
  BY <1>1, <1>7, <1>10, <1>11 DEF Typed, FramingTypeOK

(* A read stays within the buffer, and takes its ends from the pending.    *)
LEMMA ReadTyped ==
  ASSUME ReceiveInv, Typed, Read
  PROVE  Typed'
<1> DEFINE R == [b : Byte, end : BOOLEAN]
           N == ReceiveSize - 1
<1>1. /\ fpc = "receive" /\ UNCHANGED <<transmit, i, send_tmp, wire, due, frames>>
  BY DEF Read, outVars
<1>2. /\ receive \in [0..N -> Byte] /\ receive[N] # Flag /\ N \in Nat /\ ReceiveSize = N + 1
      /\ pending \in Seq(R) /\ idx \in 0..N /\ bytes \in 0..ReceiveSize /\ past \in BOOLEAN
      /\ ends \in 0..MaxFrames /\ frames \in 0..MaxFrames /\ MaxFrames \in Nat
      /\ ends + EndsIn(pending, Len(pending)) <= frames
  BY FramingAssumption DEF Typed, FramingTypeOK, ReceiveInv, ReceiveTypes
<1>3. PICK n \in 1..Len(pending) :
         LET b == [p \in DOMAIN receive |->
                      IF idx <= p /\ p < idx + n THEN pending[p - idx + 1].b ELSE receive[p]]
             r == RemoveEscapeHdlcFlag(b, idx + n)
         IN
         /\ idx + n < ReceiveSize
         /\ pending' = SubSeq(pending, n + 1, Len(pending))
         /\ idx' = idx + n
         /\ ends' = ends + Cardinality({k \in 1..n : pending[k].end})
         /\ IF pending[n].b = Flag
            THEN /\ receive' = r.buffer
                 /\ bytes' = r.index
                 /\ fpc' = IF r.index = 0 THEN "receive" ELSE "returned"
                 /\ past' = (past \/ FirstByte(b) > idx + n)
            ELSE /\ receive' = b
                 /\ UNCHANGED <<bytes, fpc, past>>
  BY DEF Read
<1> DEFINE b == [p \in DOMAIN receive |->
                    IF idx <= p /\ p < idx + n THEN pending[p - idx + 1].b ELSE receive[p]]
           m == idx + n
           r == RemoveEscapeHdlcFlag(b, m)
<1>4. /\ m < ReceiveSize /\ idx' = m
      /\ pending' = SubSeq(pending, n + 1, Len(pending))
      /\ ends' = ends + EndsIn(pending, n)
  BY <1>3 DEF EndsIn
<1>5. \/ /\ receive' = r.buffer /\ bytes' = r.index /\ fpc' \in {"receive", "returned"}
         /\ past' = (past \/ FirstByte(b) > m)
      \/ receive' = b /\ UNCHANGED <<bytes, fpc, past>>
  BY <1>3
<1>6. n \in Nat /\ n > 0 /\ n <= Len(pending) /\ Len(pending) \in Nat /\ m \in 0..N
  <2>1. Len(pending) \in Nat
    BY <1>2
  <2> QED BY <1>2, <1>4, <2>1
<1>7. b \in [0..N -> Byte] /\ b[N] # Flag
  <2>1. \A k \in 1..Len(pending) : pending[k].b \in Byte
    <3>1. \A k \in 1..Len(pending) : pending[k] \in R
      <4> HIDE DEF R
      <4> QED BY <1>2
    <3> QED BY <3>1
  <2>2. ASSUME NEW p \in 0..N, idx <= p, p < idx + n PROVE p - idx + 1 \in 1..Len(pending)
    BY <1>2, <1>6, <2>2
  <2>3. ~(N < idx + n) /\ N \in 0..N
    BY <1>2, <1>6
  <2> QED BY <1>2, <2>1, <2>2, <2>3
<1> HIDE DEF b
<1>8. r.buffer \in [0..N -> Byte] /\ r.index \in 0..N
  BY <1>2, <1>6, <1>7, RemovedIsBytes
<1>9. pending' \in Seq(R)
  <2> HIDE DEF R
  <2>1. SubSeq(pending, n + 1, Len(pending)) \in Seq(R)
    BY <1>2, <1>6
  <2> QED BY <1>4, <2>1
<1>10. EndsIn(pending, Len(pending)) = EndsIn(pending, n) + EndsIn(pending', Len(pending'))
  <2> HIDE DEF R
  <2> PICK p, y : p = pending /\ y = pending'
    OBVIOUS
  <2>1. /\ Len(y) \in Nat /\ n + Len(y) = Len(p)
        /\ \A k \in 1..Len(y) : p[n + k] = y[k]
    <3>1. p \in Seq(R) /\ y = SubSeq(p, n + 1, Len(p)) /\ n \in Nat /\ n <= Len(p)
      BY <1>2, <1>4, <1>6
    <3>2. Len(y) = Len(p) - n /\ \A k \in 1..(Len(p) - n) : y[k] = p[n + k]
      BY ONLY <3>1
    <3> QED BY <1>6, <3>1, <3>2
  <2>2. EndsIn(p, n + Len(y)) = EndsIn(p, n) + EndsIn(y, Len(y))
    <3> PICK j : j = Len(y)
      OBVIOUS
    <3>1. n \in Nat /\ j \in Nat /\ \A k \in 1..j : p[n + k] = y[k]
      BY <1>6, <2>1
    <3>2. EndsIn(p, n + j) = EndsIn(p, n) + EndsIn(y, j)
      BY ONLY <3>1, EndsAdd
    <3> QED BY <3>2
  <2> QED BY <2>1, <2>2
<1>11. EndsIn(pending, n) \in Nat /\ EndsIn(pending', Len(pending')) \in Nat
  <2>1. Len(pending') \in Nat
    <3> HIDE DEF R
    <3> QED BY <1>9
  <2> QED BY <1>6, <2>1, EndsType
<1>12. ends' \in 0..MaxFrames /\ ends' + EndsIn(pending', Len(pending')) <= frames'
  BY <1>1, <1>2, <1>4, <1>10, <1>11
<1>13. (ends + EndsIn(pending, Len(pending)) <= frames)'
  BY <1>12 DEF EndsIn
<1>14. /\ receive' \in [0..N -> Byte] /\ bytes' \in 0..ReceiveSize /\ past' \in BOOLEAN
       /\ fpc' \in {"compose", "escape", "call", "receive", "returned"}
       /\ idx' \in 0..N
  <2> HIDE DEF r
  <2>1. idx' \in 0..N
    BY <1>4, <1>6
  <2>2. receive' \in [0..N -> Byte]
    BY <1>5, <1>7, <1>8
  <2>3. bytes' \in 0..ReceiveSize
    BY <1>2, <1>5, <1>8
  <2>4. past' \in BOOLEAN
    BY <1>2, <1>5
  <2> QED BY <1>1, <1>5, <2>1, <2>2, <2>3, <2>4
<1> QED
  BY <1>1, <1>9, <1>12, <1>13, <1>14 DEF Typed, FramingTypeOK

(* FramingTypeOK: what is sent and received are bytes, every index lies    *)
(* within its buffer, also where remove_escape_hdlc_flag writes, and a     *)
(* call never counts more frames than were sent.                           *)
THEOREM FramesAreTyped == Spec => []FramingTypeOK
<1>1. Init => Typed
  <2> SUFFICES ASSUME FramingInit PROVE Typed
    BY DEF Init
  <2>1. /\ fpc = "compose" /\ transmit = <<>> /\ i = 0 /\ send_tmp = <<>> /\ wire = <<>>
        /\ pending = <<>> /\ due = <<>> /\ idx = 0 /\ ends = 0 /\ bytes = 0 /\ frames = 0
        /\ past = FALSE /\ receive = [p \in 0..(ReceiveSize - 1) |-> 0]
    BY DEF FramingInit
  <2>2. /\ 0 \in Byte /\ 0 \in 0..(ReceiveSize - 1) /\ 0 \in 0..MaxFrames /\ 0 \in 0..ReceiveSize
    BY FramingAssumption DEF Byte
  <2>3. receive \in [0..(ReceiveSize - 1) -> Byte]
    BY <2>1, <2>2
  <2>4. FramingTypeOK
    <3>1. /\ <<>> \in Seq(Byte) /\ 0 \in 0..Len(<<>>) /\ <<>> \in Seq(Frames)
          /\ <<>> \in Seq([b : Byte, end : BOOLEAN])
      OBVIOUS
    <3> QED BY <2>1, <2>2, <2>3, <3>1 DEF FramingTypeOK
  <2>5. EndsIn(pending, Len(pending)) = 0
    <3>1. {q \in 1..Len(pending) : pending[q].end} = {}
      BY <2>1
    <3> QED BY <3>1, FS_EmptySet DEF EndsIn
  <2> QED BY <2>1, <2>4, <2>5 DEF Typed
<1>2. ReceiveInv /\ Typed /\ [Next]_vars => Typed'
  <2> SUFFICES ASSUME ReceiveInv, Typed, [Next]_vars PROVE Typed'
    OBVIOUS
  <2>1. CASE UNCHANGED framingVars
    BY <2>1 DEF framingVars, outVars, inVars, Typed, FramingTypeOK, EndsIn
  <2>2. CASE FramingNext
    <3>1. CASE Compose \/ EscapeByte \/ WritePacket
      BY <3>1, SendTyped
    <3>2. CASE FrameArrives
      BY <3>2, ArrivesTyped
    <3>3. CASE CallReceive \/ Timeout \/ Handled \/ Flush
      BY <3>3, CallsTyped
    <3>4. CASE Read
      BY <3>4, ReadTyped
    <3> QED BY <2>2, <3>1, <3>2, <3>3, <3>4 DEF FramingNext
  <2> QED BY <2>1, <2>2 DEF Next, vars
<1>3. Typed => FramingTypeOK
  BY DEF Typed
<1> QED
  BY <1>1, <1>2, <1>3, ReceiveHolds, PTL DEF Spec

(* Of some numbers up to a bound one is the largest: what is left to the   *)
(* bound is smallest there.                                                *)
LEMMA Largest ==
  ASSUME NEW n \in Nat, NEW T \in SUBSET (1..n), T # {}
  PROVE  Max(T) \in T
<1> DEFINE U == {n - x : x \in T}
<1>1. U \in SUBSET Nat /\ U # {}
  <2>1. \A x \in T : x \in 1..n /\ n - x \in Nat
    OBVIOUS
  <2> QED BY <2>1
<1>2. PICK z \in U : \A y \in U : z <= y
  BY <1>1, Smallest
<1>3. PICK x \in T : z = n - x
  OBVIOUS
<1>4. \A y \in T : x >= y
  <2> SUFFICES ASSUME NEW y \in T PROVE x >= y
    OBVIOUS
  <2>1. n - x <= n - y
    BY <1>2, <1>3
  <2> QED BY <2>1
<1> QED
  BY <1>4 DEF Max

Records == [desc : {0, Dev}, near : {0, Near}, far : {0, Far},
            id : {"none", "edl", "quectel"}, ifaces : {0, 1, 4}]

(* A search leaves a record of a module or what was there.                 *)
LEMMA ScanIsRecord ==
  ASSUME NEW udev \in Records, NEW devices \in Seq(Devices)
  PROVE  Scan(udev, devices) \in Records
<1> DEFINE T == Noted(devices)
           k == Max(T)
<1>1. CASE udev.desc # 0 \/ T = {}
  BY <1>1 DEF Scan
<1>2. CASE udev.desc = 0 /\ T # {}
  <2>1. k \in T /\ Len(devices) \in Nat
    <3>1. T \in SUBSET (1..Len(devices)) /\ Len(devices) \in Nat
      BY DEF Noted
    <3> HIDE DEF T
    <3> QED BY <1>2, <3>1, Largest
  <2>2. k \in 1..Len(devices) /\ devices[k].id # "other"
    BY <2>1 DEF Noted
  <2> DEFINE d == devices[k]
  <2>3. Scan(udev, devices) = [udev EXCEPT !.id = d.id, !.ifaces = d.ifaces,
                                           !.desc = IF d.known THEN Dev ELSE 0]
    BY <1>2 DEF Scan
  <2> HIDE DEF k
  <2>4. d \in Devices
    <3> DEFINE D == Devices
    <3>1. devices \in Seq(D)
      OBVIOUS
    <3> HIDE DEF D
    <3>2. devices[k] \in D
      BY <2>2, <3>1
    <3> QED BY <3>2 DEF D
  <2>5. d.id \in {"none", "edl", "quectel"} /\ d.ifaces \in {0, 1, 4}
    BY <2>2, <2>4 DEF Devices
  <2>6. (IF d.known THEN Dev ELSE 0) \in {0, Dev}
    OBVIOUS
  <2> HIDE DEF d
  <2> QED BY <2>3, <2>5, <2>6 DEF Records
<1> QED
  BY <1>1, <1>2

(* The rest of the types of the bridge.                                    *)
Rests ==
    /\ bus \in Buses
    /\ {tty, replugged, onTty, full, quiet} \subseteq BOOLEAN
    /\ ec20 \in Records
    /\ Len(sock) <= Room
    /\ gone \in 0..2
    /\ stray \subseteq Chunks

LEMMA MainRests ==
  ASSUME BridgeTypes, Rests, Main
  PROVE  Rests'
<1> USE DEF worldVars, logVars
<1>1. /\ bus \in Buses /\ {tty, replugged, onTty, full, quiet} \subseteq BOOLEAN
      /\ ec20 \in Records /\ Len(sock) <= Room /\ gone \in 0..2 /\ stray \subseteq Chunks
      /\ sock \in Seq([n : Chunks, by : 1..2])
  BY DEF Rests, BridgeTypes
<1>2. UNCHANGED <<bus, tty, replugged, gone, stray, full>>
  BY DEF Main, FindEc20, OpenTty, OpenDevice, Claim, StartReader, ReadSocket, ReadTty, GiveUp,
         CloseTty, CloseRelease, CloseNear, CloseFar, CloseClear
<1>3. Zeroed \in Records /\ Find \in Records
  <2>1. Zeroed \in Records
    BY DEF Zeroed, Records
  <2>2. bus \in Seq(Devices)
    BY <1>1, BridgeAssumption
  <2>3. Find \in Records
    BY <1>1, <2>2, ScanIsRecord DEF Find
  <2> QED BY <2>1, <2>3
<1>4. ec20' \in Records
  <2>1. CASE FindEc20
    <3>1. ec20' = Zeroed \/ ec20' = Find
      BY <2>1 DEF FindEc20
    <3> QED BY <1>3, <3>1
  <2>2. CASE OpenDevice
    BY <1>3, <2>2 DEF OpenDevice
  <2>3. CASE StartReader
    <3>1. ec20' = [desc |-> ec20.desc, near |-> Near, far |-> Far,
                   id |-> ec20.id, ifaces |-> ec20.ifaces]
      BY <2>3 DEF StartReader
    <3> QED BY <1>1, <3>1 DEF Records
  <2>4. CASE CloseClear
    BY <1>3, <2>4 DEF CloseClear
  <2>5. CASE \/ OpenTty \/ Claim \/ ReadSocket \/ ReadTty \/ GiveUp \/ CloseTty
             \/ CloseRelease \/ CloseNear \/ CloseFar
    <3>1. ec20' = ec20
      BY <2>5 DEF OpenTty, Claim, ReadSocket, ReadTty, GiveUp, CloseTty, CloseRelease,
                  CloseNear, CloseFar
    <3> QED BY <1>1, <3>1
  <2> QED BY <2>1, <2>2, <2>3, <2>4, <2>5 DEF Main
<1>5. Len(sock') <= Room
  <2>1. 0 <= Room /\ Room \in Nat
    BY BridgeAssumption
  <2>2. \/ sock' = sock
        \/ sock' = <<>>
        \/ sock # <<>> /\ sock' = Tail(sock)
    <3>1. CASE StartReader \/ CloseNear \/ ReadSocket
      BY <3>1 DEF StartReader, CloseNear, ReadSocket
    <3>2. CASE ~(StartReader \/ CloseNear \/ ReadSocket)
      BY <3>2 DEF Main, FindEc20, OpenTty, OpenDevice, Claim, ReadTty, GiveUp, CloseTty,
                  CloseRelease, CloseFar, CloseClear
    <3> QED BY <3>1, <3>2
  <2>3. sock # <<>> => Len(Tail(sock)) <= Len(sock) /\ Len(sock) \in Nat /\ Len(Tail(sock)) \in Nat
    BY <1>1
  <2> QED BY <1>1, <2>1, <2>2, <2>3
<1>6. onTty' \in BOOLEAN /\ quiet' \in BOOLEAN
  <2>1. onTty' \in {onTty, TRUE, FALSE}
    BY DEF Main, FindEc20, OpenTty, OpenDevice, Claim, StartReader, ReadSocket, ReadTty, GiveUp,
           CloseTty, CloseRelease, CloseNear, CloseFar, CloseClear
  <2>2. CASE CloseRelease
    <3>1. quiet' \in BOOLEAN
      BY <2>2, Zenon DEF CloseRelease
    <3> QED BY <1>1, <2>1, <3>1
  <2>3. CASE ~CloseRelease
    <3>1. quiet' = quiet
      BY <2>3 DEF Main, FindEc20, OpenTty, OpenDevice, Claim, StartReader, ReadSocket, ReadTty,
                  GiveUp, CloseTty, CloseNear, CloseFar, CloseClear
    <3> QED BY <1>1, <2>1, <3>1
  <2> QED BY <2>2, <2>3
<1> QED
  BY <1>1, <1>2, <1>4, <1>5, <1>6 DEF Rests

LEMMA OthersRest ==
  ASSUME BridgeTypes, Rests, (\E s \in 1..2 : Reader(s)) \/ ChunkArrives \/ Replug
  PROVE  Rests'
<1> USE DEF worldVars, logVars
<1>1. ASSUME NEW s \in 1..2, TestDesc(s) \/ IssueRead(s) \/ ReadReturns(s) \/ TestAgain(s)
      PROVE  Rests'
  <2>1. UNCHANGED <<bus, tty, replugged, onTty, full, quiet, ec20, sock, gone, stray>>
    BY <1>1 DEF TestDesc, IssueRead, ReadReturns, TestAgain
  <2> QED BY <2>1 DEF Rests
<1>2. ASSUME NEW s \in 1..2, Put(s) PROVE Rests'
  <2> DEFINE c == [n |-> reader[s].buf, by |-> s]
             live == ec20.far # 0 /\ file[Far] # 0 /\ file[Near] # 0
  <2>1. /\ UNCHANGED <<bus, tty, replugged, onTty, quiet, ec20, gone>>
        /\ stray' = IF ec20.far = 0 THEN stray \cup {c.n} ELSE stray
        /\ sock' = IF live /\ Len(sock) < Room THEN Append(sock, c) ELSE sock
        /\ full' = (full \/ (live /\ Len(sock) >= Room))
        /\ reader[s].pc = "put"
    BY <1>2 DEF Put, At
  <2>2. c.n \in Chunks
    BY <2>1 DEF BridgeTypes
  <2>3. sock \in Seq([n : Chunks, by : 1..2]) /\ Len(sock) <= Room /\ Room \in Nat
    BY BridgeAssumption DEF BridgeTypes, Rests
  <2>4. Len(sock') <= Room
    <3> HIDE DEF live
    <3>1. c \in [n : Chunks, by : 1..2]
      BY <2>2
    <3> HIDE DEF c
    <3>2. Len(Append(sock, c)) = Len(sock) + 1 /\ Len(sock) \in Nat
      BY <2>3, <3>1
    <3> QED BY <2>1, <2>3, <3>2
  <2>5. full' \in BOOLEAN /\ stray' \subseteq Chunks
    BY <2>1, <2>2 DEF Rests
  <2> QED BY <2>1, <2>4, <2>5 DEF Rests
<1>3. CASE ChunkArrives
  BY <1>3 DEF ChunkArrives, Rests
<1>4. CASE Replug
  <2>1. sessions \in 0..2
    BY DEF BridgeTypes
  <2> QED BY <1>4, <2>1 DEF Replug, Rests
<1> QED
  BY <1>1, <1>2, <1>3, <1>4 DEF Reader

(* TypeOK of Transport, whose framing part says what FramesAreTyped does;  *)
(* on the bridge, the record always describes a module or nothing, and the *)
(* socket never holds more than it has room for.                           *)
THEOREM TypeCorrect == Spec => []TypeOK
<1>1. Init => Rests
  <2> SUFFICES ASSUME BridgeInit PROVE Rests
    BY DEF Init
  <2>1. /\ bus \in Buses /\ tty \in BOOLEAN /\ replugged = FALSE /\ gone = 0 /\ ec20 = Zeroed
        /\ onTty = FALSE /\ sock = <<>> /\ stray = {} /\ full = FALSE /\ quiet = TRUE
    BY DEF BridgeInit
  <2>2. Zeroed \in Records
    BY DEF Zeroed, Records
  <2>3. Len(sock) <= Room
    <3>1. Len(sock) = 0
      BY <2>1
    <3> QED BY <3>1, BridgeAssumption
  <2>4. {tty, replugged, onTty, full, quiet} \subseteq BOOLEAN /\ ec20 \in Records
    BY <2>1, <2>2
  <2>5. bus \in Buses /\ gone \in 0..2 /\ stray \subseteq Chunks
    BY <2>1
  <2> QED BY <2>3, <2>4, <2>5 DEF Rests
<1>2. BridgeTypes /\ Rests /\ [Next]_vars => Rests'
  <2> SUFFICES ASSUME BridgeTypes, Rests, [Next]_vars PROVE Rests'
    OBVIOUS
  <2>1. CASE UNCHANGED bridgeVars
    BY <2>1 DEF bridgeVars, Rests
  <2>2. CASE BridgeNext
    BY <2>2, MainRests, OthersRest DEF BridgeNext
  <2> QED BY <2>1, <2>2 DEF Next, vars
<1>3. BridgeTypes /\ Rests => BridgeTypeOK
  BY DEF BridgeTypes, Rests, Records, BridgeTypeOK
<1> QED
  BY <1>1, <1>2, <1>3, BridgeHolds, FramesAreTyped, PTL DEF Spec, TypeOK
================================================================================
