--------------------------------- MODULE Framing ---------------------------------
(***************************************************************************)
(* The HDLC framing of the serial methods (serialif.cpp): compose_packet,  *)
(* compute_reply_crc and send_packet on the way out, receive_packet and    *)
(* remove_escape_hdlc_flag on the way in. The buffers are static and of    *)
(* fixed size, and the receive buffer is never cleared: clean_buffer has   *)
(* no caller. One packet goes out, then answers come in; a read returns    *)
(* any part of what has arrived. Bytes are numbers; a payload is a short   *)
(* sequence of the bytes the code tells apart, and its crc any two of them.*)
(* The module is external: it ends a frame with a flag and may start it    *)
(* with one, escapes flags and escapes inside, and sends a frame at once.  *)
(***************************************************************************)
EXTENDS Naturals, Sequences, SequencesExt, FiniteSets

CONSTANTS
    Payload,     \* the bytes of commands, data and crc
    Header,      \* the bytes before the data, 5 in a write
    Cache,       \* the most data of a packet, see -s
    TransmitSize, SendTmpSize,  \* of g_Transmit_Buffer and send_tmp
    ReceiveSize, \* bound: of the part of g_Receive_Buffer that is used
    Frames,      \* the frames the module may send, without escapes and flags
    MaxFrames    \* bound: frames sent

Flag == 126      \* ASYNC_HDLC_FLAG
Esc  == 125      \* ASYNC_HDLC_ESC

ASSUME FramingAssumption ==
    /\ Payload \subseteq 0..255
    /\ Header \in Nat \ {0}
    /\ Cache \in Nat
    /\ ReceiveSize \in Nat \ {0}
    /\ Frames \subseteq Seq(Payload) \ {<<>>}
    /\ MaxFrames \in Nat

(* What the sizes of the buffers have to satisfy: 2048 and 2500, with a    *)
(* header of 5 bytes, do for every cache that -s accepts.                  *)
ASSUME BuffersAssumption ==
    /\ TransmitSize \in Nat /\ SendTmpSize \in Nat
    /\ Header + Cache + 2 <= TransmitSize
    /\ 2 * (Header + Cache + 2) + 2 <= SendTmpSize

VARIABLES
    fpc,         \* "compose", "escape", "call", "receive" or "returned"
    transmit,    \* g_Transmit_Buffer, up to g_Transmit_Length
    i,           \* send_packet's loop index
    send_tmp,    \* send_tmp, up to send_tmp_length
    wire,        \* what was written to the module
    pending,     \* bytes to be read; end marks the last byte of a frame
    due,         \* the frames of which bytes are pending or in the buffer
    receive,     \* g_Receive_Buffer
    idx,         \* bytes this call has read
    ends,        \* frames that end among them
    bytes,       \* g_Receive_Bytes
    frames,      \* frames sent by the module
    past         \* the search for the first byte went past the bytes read

outVars     == <<transmit, i, send_tmp, wire>>
inVars      == <<pending, due, receive, idx, ends, bytes, frames, past>>
framingVars == <<fpc, outVars, inVars>>

FramingInit ==
    /\ fpc = "compose"
    /\ transmit = <<>>
    /\ i = 0
    /\ send_tmp = <<>>
    /\ wire = <<>>
    /\ pending = <<>>
    /\ due = <<>>
    /\ receive = [p \in 0..(ReceiveSize - 1) |-> 0]
    /\ idx = 0
    /\ ends = 0
    /\ bytes = 0
    /\ frames = 0
    /\ past = FALSE

(* ^ 0x20 on a byte.                                                       *)
Masked(b) == IF (b \div 32) % 2 = 1 THEN b - 32 ELSE b + 32

-----------------------------------------------------------------------------
(* Sending. *)

ComposeMutant ==         \* the loop of handle_write takes one byte too many
    /\ fpc = "compose"
    /\ \E n \in Header..(Header + Cache + 1), c \in [1..2 -> Payload] :
          \E p \in [1..n -> Payload] :
             transmit' = [k \in 1..(n + 2) |-> IF k <= n THEN p[k] ELSE c[k - n]]
    /\ fpc' = "escape"
    /\ i' = 0
    /\ send_tmp' \in {<<>>, <<Flag>>}
    /\ UNCHANGED <<wire, inVars>>

(* compose_packet and compute_reply_crc; send_packet starts with or        *)
(* without a flag.                                                         *)
Compose ==
    /\ fpc = "compose"
    /\ \E n \in Header..(Header + Cache), c \in [1..2 -> Payload] :
          \E p \in [1..n -> Payload] :
             transmit' = [k \in 1..(n + 2) |-> IF k <= n THEN p[k] ELSE c[k - n]]
    /\ fpc' = "escape"
    /\ i' = 0
    /\ send_tmp' \in {<<>>, <<Flag>>}
    /\ UNCHANGED <<wire, inVars>>

EscapedMutant(ch) ==     \* the escape itself is not escaped
    IF ch = Flag THEN <<Esc, Masked(ch)>> ELSE <<ch>>

Escaped(ch) == IF ch \in {Flag, Esc} THEN <<Esc, Masked(ch)>> ELSE <<ch>>

(* The loop of send_packet, one byte of the packet at a time.              *)
EscapeByte ==
    /\ fpc = "escape"
    /\ i < Len(transmit)
    /\ send_tmp' = send_tmp \o Escaped(transmit[i + 1])
    /\ i' = i + 1
    /\ UNCHANGED <<fpc, transmit, wire, inVars>>

(* The closing flag, and the write. A write that fails is the callers'.    *)
WritePacket ==
    /\ fpc = "escape"
    /\ i >= Len(transmit)
    /\ send_tmp' = Append(send_tmp, Flag)
    /\ wire' = Append(send_tmp, Flag)
    /\ fpc' = "call"
    /\ UNCHANGED <<transmit, i, inVars>>

-----------------------------------------------------------------------------
(* The module (external). *)

(* The place where byte k of a frame ends, and the frame as it is sent.    *)
EndOf(f, k) == k + Cardinality({j \in 1..k : Len(Escaped(f[j])) > 1})

OnWire(f) ==
    [p \in 1..EndOf(f, Len(f)) |->
        IF \E k \in 1..Len(f) : EndOf(f, k) = p
        THEN Last(Escaped(f[CHOOSE k \in 1..Len(f) : EndOf(f, k) = p]))
        ELSE Esc]

FrameArrives ==
    /\ fpc = "receive"
    /\ frames < MaxFrames
    /\ frames' = frames + 1
    /\ \E f \in Frames, lead \in {<<>>, <<Flag>>} :
          LET b == lead \o OnWire(f) \o <<Flag>> IN
          /\ pending' = pending \o [k \in 1..Len(b) |-> [b |-> b[k], end |-> k = Len(b)]]
          /\ due' = Append(due, f)
    /\ UNCHANGED <<fpc, outVars, receive, idx, ends, bytes, past>>

-----------------------------------------------------------------------------
(* Receiving. *)

(* The first byte that is no flag. The search does not stop at len: what   *)
(* follows is what an earlier packet left behind.                          *)
FirstByte(buffer) ==
    CHOOSE p \in DOMAIN buffer :
        buffer[p] # Flag /\ \A q \in 0..(p - 1) : buffer[q] = Flag

(* remove_escape_hdlc_flag works in place, and leaves behind what it has   *)
(* unmasked. The closing flags are kept.                                   *)
Unmasked(buffer, first, len) ==
    [p \in DOMAIN buffer |->
        IF p > first /\ p < len /\ buffer[p] # Esc /\ buffer[p - 1] = Esc
        THEN Masked(buffer[p]) ELSE buffer[p]]

(* The index to which the loop moves the byte at p.                        *)
Index(buffer, first, p) == Cardinality({q \in first..(p - 1) : buffer[q] # Esc})

Moved(buffer, first, len) ==
    LET n == Index(buffer, first, len)
        u == Unmasked(buffer, first, len)
        Source(p) == CHOOSE q \in first..(len - 1) :
                        buffer[q] # Esc /\ Index(buffer, first, q) = p
    IN [index  |-> n,
        buffer |-> [p \in DOMAIN buffer |->
                       IF p < n THEN u[Source(p)] ELSE IF p = n THEN 0 ELSE u[p]]]

RemoveEscapeHdlcFlagMutant(buffer, len) == Moved(buffer, 0, len)  \* keeps leading flags

RemoveEscapeHdlcFlag(buffer, len) ==
    IF FirstByte(buffer) = len THEN [index |-> 0, buffer |-> buffer]
    ELSE Moved(buffer, FirstByte(buffer), len)

(* The packet that was sent is not read again, and forgotten here.         *)
CallReceive ==
    /\ fpc = "call"
    /\ fpc' = "receive"
    /\ transmit' = <<>> /\ i' = 0 /\ send_tmp' = <<>> /\ wire' = <<>>
    /\ idx' = 0
    /\ ends' = 0
    /\ UNCHANGED <<pending, due, receive, bytes, frames, past>>

(* One read, behind what this call has read. If it ends with a flag, the   *)
(* packet is complete unless it is empty.                                  *)
Read ==
    /\ fpc = "receive"
    /\ \E n \in 1..Len(pending) :
          LET b == [p \in DOMAIN receive |->
                       IF idx <= p /\ p < idx + n THEN pending[p - idx + 1].b ELSE receive[p]]
              r == RemoveEscapeHdlcFlag(b, idx + n)
          IN
          /\ idx + n < ReceiveSize
          /\ pending' = SubSeq(pending, n + 1, Len(pending))
          /\ idx' = idx + n
          /\ ends' = ends + Cardinality({k \in 1..n : pending[k].end})
          /\ IF pending[n].b = Flag
             THEN /\ receive' = r.buffer
                  /\ bytes' = r.index
                  /\ fpc' = IF r.index = 0 THEN "receive" ELSE "returned"
                  /\ past' = (past \/ FirstByte(b) > idx + n)
             ELSE /\ receive' = b
                  /\ UNCHANGED <<bytes, fpc, past>>
    /\ UNCHANGED <<outVars, due, frames>>

(* Five seconds without a byte: a frame that is begun arrives in full.     *)
Timeout ==
    /\ fpc = "receive"
    /\ pending = <<>>
    /\ fpc' = "call"
    /\ UNCHANGED <<outVars, inVars>>

(* The caller looks at the front of the buffer only: frames behind the     *)
(* first are gone.                                                         *)
Handled ==
    /\ fpc = "returned"
    /\ fpc' = "call"
    /\ due' = SubSeq(due, ends + 1, Len(due))
    /\ UNCHANGED <<outVars, pending, receive, idx, ends, bytes, frames, past>>

(* qdl_flush_fifo before a request or a retry.                             *)
Flush ==
    /\ fpc = "call"
    /\ pending # <<>>
    /\ pending' = <<>>
    /\ due' = <<>>
    /\ UNCHANGED <<fpc, outVars, receive, idx, ends, bytes, frames, past>>

FramingNext ==
    \/ Compose \/ EscapeByte \/ WritePacket
    \/ FrameArrives
    \/ CallReceive \/ Read \/ Timeout \/ Handled \/ Flush

FramingSpec == FramingInit /\ [][FramingNext]_framingVars

-----------------------------------------------------------------------------
Byte == 0..255

FramingTypeOK ==
    /\ fpc \in {"compose", "escape", "call", "receive", "returned"}
    /\ transmit \in Seq(Byte)
    /\ i \in 0..Len(transmit)
    /\ {send_tmp, wire} \subseteq Seq(Byte)
    /\ pending \in Seq([b : Byte, end : BOOLEAN])
    /\ due \in Seq(Frames)
    /\ receive \in [0..(ReceiveSize - 1) -> Byte]
    /\ idx \in 0..(ReceiveSize - 1)
    /\ ends \in 0..MaxFrames
    /\ bytes \in 0..ReceiveSize
    /\ frames \in 0..MaxFrames
    /\ past \in BOOLEAN

(* Neither buffer is ever written past its end, although send_packet does  *)
(* not look at their sizes and escapes may double a packet.                *)
BuffersHold ==
    /\ Len(transmit) <= TransmitSize
    /\ Len(send_tmp) <= SendTmpSize

(* HDLC's rule for the receiver of a frame: what is neither flag nor       *)
(* escape is a byte of the packet, and masked if it follows an escape.     *)
Data(f) == {k \in 1..Len(f) : f[k] \notin {Flag, Esc}}

Place(f, k) == Cardinality({j \in Data(f) : j <= k})

Meant(f, k) == IF k > 1 /\ f[k - 1] = Esc THEN Masked(f[k]) ELSE f[k]

(* The module finds in a frame just the packet that was composed, with the *)
(* only flags at its ends, whatever the bytes of packet and crc are.       *)
WireCarriesPacket ==
    wire # <<>> =>
        /\ Cardinality(Data(wire)) = Len(transmit)
        /\ \A k \in Data(wire) : Meant(wire, k) = transmit[Place(wire, k)]
        /\ \A k \in 2..(Len(wire) - 1) : wire[k] # Flag

(* When receive_packet reports a packet, the buffer starts with the oldest *)
(* frame that was not yet handled, wherever the reads were cut and however *)
(* many flags stand before it; unless a flag left by an earlier packet was *)
(* taken for one of them.                                                  *)
FrontIsOldest ==
    fpc = "returned" /\ ~past =>
        LET f == Head(due) IN
        due # <<>> /\ \A k \in 1..Len(f) : receive[k - 1] = f[k]
=============================================================================
