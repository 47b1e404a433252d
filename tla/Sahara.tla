---------------------------------- MODULE Sahara ----------------------------------
(***************************************************************************)
(* sahara_main of the firehose child (sahara_protocol.c): the host answers *)
(* the hello of a module in emergency download, serves the pieces of the   *)
(* firehose programmer the module asks for until the module says the image *)
(* is done; or takes the memory dump a crashed module offers and resets    *)
(* it. Firehose.tla has all of this as one step.                           *)
(*                                                                         *)
(* What the module sends arrives as a stream: one read takes what is there *)
(* and is only good if that is exactly one packet. Packets carry the two   *)
(* numbers the code looks at: the piece asked for, the image's id, or the  *)
(* region and chunk of the dump. The module is external; an earlier run    *)
(* may have left it anywhere in the protocol.                              *)
(***************************************************************************)
EXTENDS Naturals, Sequences

CONSTANTS
    ImageIds,    \* the images the module may ask for
    Pieces,      \* the requests that make up an image
    Regions,     \* the entries of the memory table
    Chunks       \* the reads that make up a region

ProgrammerId == 13   \* prog_nand_firehose_9x07.mbn

ASSUME SaharaAssumption ==
    /\ ImageIds \subseteq Nat \ {0, 1}
    /\ ProgrammerId \in ImageIds
    /\ Pieces \in Nat \ {0}
    /\ Regions \in Nat
    /\ Chunks \in Nat \ {0}

VARIABLES
    state,       \* the host; "kicked": waits for the hello a second time
    retval,      \* of sahara_start; "exit": the process is gone
    image_id,    \* of the last END_IMAGE_TX
    entries,     \* num_debug_entries
    i, cur,      \* the region and the chunks of it that were read
    asked,       \* the MEMORY_READ of the next chunk was sent
    file,        \* the chunks written to the files, in order
    full,        \* the disk took only part of the last one
    toDev,       \* what the module has not taken
    toHost,      \* what the host has not read
    mode,        \* the module
    image,       \* the image it asks for
    got,         \* the pieces of it that it has; 0 for a spoilt one
    broken,      \* the piece it receives is spoilt already
    table        \* its memory table, if it has crashed

hostVars == <<state, retval, image_id, entries, i, cur, asked, file, full>>
devVars  == <<mode, image, got, broken, table>>
vars     == <<hostVars, toDev, toHost, devVars>>

Pkt(t, a, b) == [type |-> t, a |-> a, b |-> b]
Plain(t) == Pkt(t, 0, 0)

(* READ_DATA; END_IMAGE_TX, good and bad; DONE_RESP with the two statuses, *)
(* and with another; MEMORY_DEBUG. "log": the greeting of the programmer.  *)
Packets == {"hello", "read", "end", "error", "pending", "complete", "failed", "debug", "resetresp"}
Data    == {"table", "chunk", "log"}
ToHost  == [type : Packets \cup Data, a : Nat, b : Nat]
Sent    == {"helloresp", "kick", "data", "part", "done", "reset", "readtable", "readchunk"}
ToDev   == [type : Sent, a : Nat, b : Nat]

(* A memory table that is whole, empty, of a size that fits no entries, or *)
(* larger than the buffer.                                                 *)
Tables == {"none", "whole", "empty", "invalid", "huge"}

Init ==
    /\ state = "hello" /\ retval = "none"
    /\ image_id = 0 /\ entries = 0
    /\ i = 1 /\ cur = 0 /\ asked = FALSE
    /\ file = <<>> /\ full = FALSE
    /\ toDev = <<>>
    /\ image \in ImageIds
    /\ broken = FALSE
    /\ table \in Tables
    /\ \/ /\ mode = "hello" /\ got = <<>>
          /\ toHost \in {<<>>, <<Plain("hello")>>}
       \/ /\ mode = "load" /\ table = "none"
          /\ got \in {[k \in 1..n |-> k] : n \in 0..(Pieces - 1)}
          /\ toHost \in {<<>>, <<Pkt("read", Len(got) + 1, 0)>>}
       \/ /\ mode = "sent" /\ table = "none"
          /\ got = [k \in 1..Pieces |-> k]
          /\ toHost \in {<<>>, <<Pkt("end", image, 0)>>}
       \/ /\ mode = "dump" /\ table # "none" /\ got = <<>>
          /\ toHost \in {<<>>, <<Plain("debug")>>}

-----------------------------------------------------------------------------
(* The host. A read or a write begins when the last write has returned.    *)

Goto(s) == state' = s /\ UNCHANGED retval
Return(r) == state' = "done" /\ retval' = r
Quiet == UNCHANGED <<image_id, entries, i, cur, asked, file, full>>

(* A write whose failure the caller looks at, or does not look at.         *)
SendOr(p, fails) ==
    \/ toDev' = Append(toDev, p)
    \/ fails /\ UNCHANGED toDev

Batches == {SubSeq(toHost, 1, k) : k \in 1..Len(toHost)}
Drop(q) == toHost' = SubSeq(toHost, Len(q) + 1, Len(toHost))

(* sahara_rx_data(0) returned true, with p in rx_buffer.                   *)
Rx(t) ==
    /\ toDev = <<>>
    /\ toHost # <<>>
    /\ t \in Packets
    /\ Head(toHost).type = t
    /\ toHost' = Tail(toHost)

RxAny(s) == \E t \in s : Rx(t)

(* It returned false: a timeout, though an answer may be on its way;       *)
(* several packets at once; or what is no packet.                          *)
RxFails ==
    /\ toDev = <<>>
    /\ \/ UNCHANGED toHost
       \/ \E q \in Batches :
             /\ Len(q) > 1 \/ Head(q).type \in Data
             /\ Drop(q)

HelloMissed ==
    /\ state = "hello"
    /\ RxFails
    /\ Goto("kicked")
    /\ SendOr(Plain("kick"), TRUE)
    /\ Quiet
    /\ UNCHANGED devVars

(* send_reset_command.                                                     *)
SendReset ==
    \/ Goto("reset_resp") /\ toDev' = Append(toDev, Plain("reset"))
    \/ Return("false") /\ UNCHANGED toDev

Greeted ==
    /\ state \in {"hello", "kicked"}
    /\ Rx("hello")
    /\ \/ Goto("command") /\ toDev' = Append(toDev, Plain("helloresp"))
       \/ Return("false") /\ UNCHANGED toDev
    /\ Quiet
    /\ UNCHANGED devVars

NotHello ==
    /\ state \in {"hello", "kicked"}
    /\ RxAny(Packets \ {"hello"})
    /\ SendReset
    /\ Quiet
    /\ UNCHANGED devVars

RxFailedMutant ==        \* what cannot be read is waited for again
    /\ state \in {"kicked", "command", "done_resp", "reset_resp"}
    /\ RxFails
    /\ UNCHANGED <<hostVars, toDev, devVars>>

RxFailed ==
    /\ state \in {"kicked", "command", "done_resp", "reset_resp"}
    /\ RxFails
    /\ Return("false")
    /\ Quiet
    /\ UNCHANGED <<toDev, devVars>>

ReadDataMutant ==        \* a transfer that failed half-way is tried again
    /\ state = "command"
    /\ Rx("read")
    /\ LET p == Head(toHost).a
       IN toDev' \in {<<>>, <<Pkt("data", p, 0)>>, <<Pkt("part", p, 0), Pkt("data", p, 0)>>}
    /\ Quiet
    /\ UNCHANGED <<state, retval, devVars>>

(* start_image_transfer: whatever the image, the programmer's file from    *)
(* the offset asked for; all, a part or nothing of it is written, and the  *)
(* result is ignored.                                                      *)
ReadData ==
    /\ state = "command"
    /\ Rx("read")
    /\ LET p == Head(toHost).a
       IN toDev' \in {<<>>, <<Pkt("data", p, 0)>>, <<Pkt("part", p, 0)>>}
    /\ Quiet
    /\ UNCHANGED <<state, retval, devVars>>

EndImage ==
    /\ state = "command"
    /\ Rx("end")
    /\ image_id' = Head(toHost).a
    /\ Goto("done_resp")
    /\ SendOr(Plain("done"), TRUE)
    /\ UNCHANGED <<entries, i, cur, asked, file, full, devVars>>

EndError ==
    /\ state = "command"
    /\ Rx("error")
    /\ Return("false")
    /\ Quiet
    /\ UNCHANGED <<toDev, devVars>>

UnknownCommand ==
    /\ state = "command"
    /\ RxAny(Packets \ {"read", "end", "error", "debug"})
    /\ SendReset
    /\ Quiet
    /\ UNCHANGED devVars

(* MEMORY_DEBUG. A table larger than the buffer is asked for all the same. *)
MemoryDebug ==
    /\ state = "command"
    /\ Rx("debug")
    /\ \/ /\ table = "invalid"
          /\ SendReset
          /\ UNCHANGED entries
       \/ /\ table = "empty"
          /\ Goto("region")
          /\ entries' = 0
          /\ UNCHANGED toDev
       \/ /\ table \in {"whole", "huge"}
          /\ \/ /\ toDev' = Append(toDev, Plain("readtable"))
                /\ IF table = "huge" THEN Return("false") ELSE Goto("table")
             \/ Return("false") /\ UNCHANGED toDev
          /\ UNCHANGED entries
    /\ UNCHANGED <<image_id, i, cur, asked, file, full, devVars>>

(* sahara_rx_data(n) for the n bytes of a table or a chunk.                *)
RxData(t) ==
    /\ toDev = <<>>
    /\ toHost # <<>>
    /\ Head(toHost).type = t
    /\ toHost' = Tail(toHost)

(* It returned false: a timeout, after a packet or before what was asked.  *)
RxDataFails(t) ==
    /\ toDev = <<>>
    /\ \/ UNCHANGED toHost
       \/ toHost # <<>> /\ Head(toHost).type # t /\ toHost' = <<>>

TableReceived ==
    /\ state = "table"
    /\ RxData("table")
    /\ entries' = Regions
    /\ Goto("region")
    /\ UNCHANGED <<image_id, i, cur, asked, file, full, toDev, devVars>>

TableFails ==
    /\ state = "table"
    /\ RxDataFails("table")
    /\ Return("false")
    /\ Quiet
    /\ UNCHANGED <<toDev, devVars>>

AskRegion ==
    /\ state = "region" /\ ~asked
    /\ toDev = <<>>
    /\ i <= entries
    /\ \/ asked' = TRUE /\ toDev' = <<Pkt("readchunk", i, cur)>> /\ Goto("region")
       \/ Return("false") /\ UNCHANGED <<toDev, asked>>
    /\ UNCHANGED <<image_id, entries, i, cur, file, full, toHost, devVars>>

(* The region's file cannot be created: exit(0).                           *)
NoFile ==
    /\ state = "region" /\ ~asked
    /\ toDev = <<>>
    /\ i <= entries /\ cur = 0
    /\ Return("exit")
    /\ Quiet
    /\ UNCHANGED <<toDev, toHost, devVars>>

(* The chunk is written, or all the disk has room for: a warning. The next *)
(* write fails then.                                                       *)
RegionReceived ==
    /\ state = "region" /\ asked
    /\ RxData("chunk")
    /\ asked' = FALSE
    /\ IF cur + 1 < Chunks THEN cur' = cur + 1 /\ UNCHANGED i
                           ELSE cur' = 0 /\ i' = i + 1
    /\ \/ /\ ~full
          /\ file' = Append(file, <<Head(toHost).a, Head(toHost).b>>)
          /\ full' \in BOOLEAN
          /\ Goto("region")
       \/ /\ Return("false")
          /\ UNCHANGED <<file, full>>
    /\ UNCHANGED <<image_id, entries, toDev, devVars>>

RegionFailsMutant ==     \* asked for again, as max_ram_dump_read is halved
    /\ state = "region" /\ asked
    /\ RxDataFails("chunk")
    /\ asked' = FALSE
    /\ UNCHANGED <<state, retval, image_id, entries, i, cur, file, full, toDev, devVars>>

(* max_ram_dump_read is 8 K, so it is never halved and tried again.        *)
RegionFails ==
    /\ state = "region" /\ asked
    /\ RxDataFails("chunk")
    /\ Return("false")
    /\ Quiet
    /\ UNCHANGED <<toDev, devVars>>

RegionsDone ==
    /\ state = "region" /\ ~asked
    /\ toDev = <<>>
    /\ i > entries
    /\ SendReset
    /\ Quiet
    /\ UNCHANGED <<toHost, devVars>>

(* WAIT_DONE_RESP looks at the word where the status is, in any packet. In *)
(* the other packets it is a version, an image's id or an address: neither *)
(* 0 nor 1.                                                                *)
DonePending ==
    /\ state = "done_resp"
    /\ Rx("pending")
    /\ IF image_id = ProgrammerId THEN Return("true") ELSE Goto("hello")
    /\ Quiet
    /\ UNCHANGED <<toDev, devVars>>

DoneComplete ==
    /\ state = "done_resp"
    /\ Rx("complete")
    /\ Return("true")
    /\ Quiet
    /\ UNCHANGED <<toDev, devVars>>

DoneOther ==
    /\ state = "done_resp"
    /\ RxAny(Packets \ {"pending", "complete"})
    /\ Return("false")
    /\ Quiet
    /\ UNCHANGED <<toDev, devVars>>

ResetAnsweredMutant ==   \* whatever comes is the answer to the reset
    /\ state = "reset_resp"
    /\ RxAny(Packets)
    /\ Return("true")
    /\ Quiet
    /\ UNCHANGED <<toDev, devVars>>

ResetAnswered ==
    /\ state = "reset_resp"
    /\ Rx("resetresp")
    /\ Return("true")
    /\ Quiet
    /\ UNCHANGED <<toDev, devVars>>

OtherThanReset ==
    /\ state = "reset_resp"
    /\ RxAny(Packets \ {"resetresp"})
    /\ Quiet
    /\ UNCHANGED <<state, retval, toDev, devVars>>

Host ==
    \/ HelloMissed \/ Greeted \/ NotHello \/ RxFailed
    \/ ReadData \/ EndImage \/ EndError \/ UnknownCommand \/ MemoryDebug
    \/ TableReceived \/ TableFails
    \/ AskRegion \/ NoFile \/ RegionReceived \/ RegionFails \/ RegionsDone
    \/ DonePending \/ DoneComplete \/ DoneOther
    \/ ResetAnswered \/ OtherThanReset

-----------------------------------------------------------------------------
(* The module (external). It may say nothing, or only the first part of    *)
(* what it should; in "load" everything it takes is data of its image.     *)

Take(t) ==
    /\ toDev # <<>>
    /\ Head(toDev).type = t
    /\ toDev' = Tail(toDev)
    /\ UNCHANGED hostVars

Say(p) == toHost' \in {toHost, Append(toHost, p)}
SayBoth(p, r) == toHost' \in {toHost, Append(toHost, p), Append(Append(toHost, p), r)}

Arg == Head(toDev)

DevGreeted ==
    /\ mode = "hello"
    /\ Take("helloresp")
    /\ IF table = "none"
       THEN mode' = "load" /\ Say(Pkt("read", Len(got) + 1, 0))
       ELSE mode' = "dump" /\ Say(Plain("debug"))
    /\ UNCHANGED <<image, got, broken, table>>

DevKicked ==
    /\ mode = "hello"
    /\ Take("kick")
    /\ Say(Plain("hello"))
    /\ UNCHANGED devVars

(* The piece is there; the whole image is accepted, or refused.            *)
DevData ==
    /\ mode = "load"
    /\ Take("data")
    /\ got' = Append(got, IF broken THEN 0 ELSE Arg.a)
    /\ broken' = FALSE
    /\ \/ /\ Len(got') < Pieces
          /\ Say(Pkt("read", Len(got') + 1, 0))
          /\ UNCHANGED mode
       \/ /\ Len(got') = Pieces
          /\ \/ mode' = "sent" /\ Say(Pkt("end", image, 0))
             \/ mode' = "refused" /\ Say(Plain("error"))
    /\ UNCHANGED <<image, table>>

(* Part of a piece, or another packet taken for part of one.               *)
DevSpoilt ==
    /\ mode = "load"
    /\ \E t \in Sent \ {"data"} : Take(t)
    /\ \/ broken' = TRUE /\ UNCHANGED <<mode, toHost>>
       \/ mode' = "refused" /\ Say(Plain("error")) /\ UNCHANGED broken
    /\ UNCHANGED <<image, got, table>>

(* The programmer starts, and greets; or it was a first stage, after which *)
(* the module asks for the programmer; or the image does not start.        *)
DevDone ==
    /\ mode = "sent"
    /\ Take("done")
    /\ \/ /\ image = ProgrammerId
          /\ mode' = "programmer"
          /\ \E s \in {"pending", "complete"} : SayBoth(Plain(s), Plain("log"))
          /\ UNCHANGED <<image, got>>
       \/ /\ image # ProgrammerId
          /\ mode' = "hello"
          /\ image' = ProgrammerId
          /\ got' = <<>>
          /\ SayBoth(Plain("pending"), Plain("hello"))
       \/ /\ mode' = "refused"
          /\ Say(Plain("failed"))
          /\ UNCHANGED <<image, got>>
    /\ UNCHANGED <<broken, table>>

DevTable ==
    /\ mode = "dump"
    /\ Take("readtable")
    /\ Say(Plain("table"))
    /\ UNCHANGED devVars

DevChunk ==
    /\ mode = "dump"
    /\ Take("readchunk")
    /\ Say(Pkt("chunk", Arg.a, Arg.b))
    /\ UNCHANGED devVars

DevReset ==
    /\ mode \in {"hello", "sent", "refused", "dump"}
    /\ Take("reset")
    /\ mode' = "restarted"
    /\ Say(Plain("resetresp"))
    /\ UNCHANGED <<image, got, broken, table>>

(* What makes no sense to it, it drops.                                    *)
DevIgnore ==
    /\ \E t \in Sent :
          /\ Take(t)
          /\ \/ mode \in {"programmer", "restarted"}
             \/ mode \in {"hello", "sent", "refused", "dump"} /\ t # "reset"
    /\ UNCHANGED <<toHost, devVars>>

Module ==
    \/ DevGreeted \/ DevKicked \/ DevData \/ DevSpoilt \/ DevDone
    \/ DevTable \/ DevChunk \/ DevReset \/ DevIgnore

Next == Host \/ Module

(* The child runs; a write over usbfs has no timeout, so the module has to *)
(* take what it is sent. It need not answer.                               *)
Spec == Init /\ [][Next]_vars /\ WF_vars(Host) /\ WF_vars(Module)

-----------------------------------------------------------------------------
TypeOK ==
    /\ state \in {"hello", "kicked", "command", "table", "region", "done_resp", "reset_resp", "done"}
    /\ retval \in {"none", "true", "false", "exit"}
    /\ retval = "none" <=> state # "done"
    /\ image_id \in ImageIds \cup {0}
    /\ entries \in {0, Regions}
    /\ i \in 1..(Regions + 1) /\ cur \in 0..(Chunks - 1)
    /\ asked \in BOOLEAN /\ full \in BOOLEAN
    /\ file \in Seq((1..Regions) \X (0..(Chunks - 1)))
    /\ toDev \in Seq(ToDev) /\ Len(toDev) <= 1
    /\ toHost \in Seq(ToHost)
    /\ mode \in {"hello", "load", "sent", "refused", "dump", "programmer", "restarted"}
    /\ image \in ImageIds
    /\ got \in Seq(0..Pieces) /\ Len(got) <= Pieces
    /\ broken \in BOOLEAN
    /\ table \in Tables

(* sahara_main's success, after which the child speaks firehose, is never  *)
(* that of a module that still waits in sahara: the programmer runs, or    *)
(* the module took the reset. WAIT_DONE_RESP does not look at the command  *)
(* of the packet it reads, and packets may come together or be late.       *)
TrueIsLoadedOrReset == retval = "true" => mode \in {"programmer", "restarted"}

(* A module that accepted an image accepted the file, every piece at its   *)
(* place, although what sends a piece is never checked and resets, kicks   *)
(* and responses may be taken for data.                                    *)
AcceptedIsWhole ==
    mode \in {"sent", "programmer"} => got = [k \in 1..Pieces |-> k]

(* When the dump's reset is sent, every chunk of every region was written, *)
(* once and in its place (the last write may still have been a short one). *)
DumpIsWhole ==
    state = "reset_resp" /\ entries > 0 /\ i > entries =>
        file = [k \in 1..(Regions * Chunks) |-> <<((k - 1) \div Chunks) + 1, (k - 1) % Chunks>>]

(* The child ends if the module takes what it is sent, answers or not.     *)
Ends == <>(state = "done")
=============================================================================
