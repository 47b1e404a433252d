------------------------------ MODULE SaharaProofs ------------------------------
(***************************************************************************)
(* Theorems about Sahara for every set of images and every size of an      *)
(* image and of a memory dump, proved with TLAPS: success is never that of *)
(* a module left in sahara, an image that was accepted is the file, and a  *)
(* dump that ends with a reset is all there.                               *)
(***************************************************************************)
EXTENDS Sahara, TLAPS

Types(q) == {q[k].type : k \in 1..Len(q)}

(* What the module has of its image, and how it got where it is.           *)
ModeInv ==
    /\ \A k \in 1..Len(got) : got[k] = k
    /\ mode \in {"hello", "sent"} => ~broken
    /\ mode = "hello" => got = <<>>
    /\ mode = "load" => Len(got) < Pieces
    /\ mode \in {"sent", "programmer"} => Len(got) = Pieces
    /\ "resetresp" \in Types(toHost) => mode = "restarted"
    /\ TrueIsLoadedOrReset

(* What the host may have sent, where it waits for the answer.             *)
Asking(p) ==
    \/ state = "kicked" /\ p.type = "kick"
    \/ state = "command" /\ p.type = "helloresp" /\ mode = "hello"
    \/ /\ state = "command" /\ p.type \in {"data", "part"} /\ toHost = <<>>
       /\ mode = "load" /\ ~broken /\ p.a = Len(got) + 1
    \/ /\ state = "done_resp" /\ p.type = "done" /\ toHost = <<>>
       /\ mode = "sent" /\ image_id = image
    \/ state = "reset_resp" /\ p.type = "reset"
    \/ state \in {"table", "done"} /\ p.type = "readtable" /\ mode = "dump"
    \/ /\ state = "region" /\ p.type = "readchunk" /\ p.a = i /\ p.b = cur
       /\ asked /\ toHost = <<>> /\ mode = "dump"

AskInv == toDev # <<>> => Asking(Head(toDev))

(* What may have arrived while the host waits: of what it acts on, only    *)
(* the packet it waits for, from a module that is where the packet says.   *)
HelloHeard ==
    /\ state \in {"hello", "kicked"} /\ "hello" \in Types(toHost) => mode = "hello"
    /\ state \in {"hello", "kicked", "command"} /\ mode = "hello" => Types(toHost) \subseteq {"hello"}

CommandHeard ==
    state = "command" =>
        /\ \A k \in 1..(Len(toHost) - 1) : toHost[k].type = "hello"
        /\ \A k \in 1..Len(toHost) :
              /\ toHost[k].type = "read" => mode = "load" /\ ~broken /\ toHost[k].a = Len(got) + 1
              /\ toHost[k].type = "end" => mode = "sent" /\ toHost[k].a = image
              /\ toHost[k].type = "debug" => mode = "dump"

DoneHeard ==
    state = "done_resp" /\ toDev = <<>> =>
        \/ mode = "programmer" /\ image_id = ProgrammerId
        \/ /\ mode = "hello" /\ image_id # ProgrammerId
           /\ toHost \in {<<>>, <<Plain("pending")>>, <<Plain("pending"), Plain("hello")>>}
        \/ mode \notin {"programmer", "hello"} /\ Types(toHost) \cap {"pending", "complete"} = {}

DumpHeard ==
    /\ state \in {"table", "region"} => mode = "dump"
    /\ state = "table" => toHost = <<>> \/ (toDev = <<>> /\ toHost = <<Plain("table")>>)
    /\ state = "region" =>
          \/ toHost = <<>>
          \/ asked /\ toDev = <<>> /\ toHost = <<Pkt("chunk", i, cur)>>

(* The k-th chunk of the files, and what has been written.                 *)
Place(k) == <<((k - 1) \div Chunks) + 1, (k - 1) % Chunks>>

DumpInv ==
    /\ asked => i <= entries /\ state \in {"region", "done"}
    /\ i = Regions + 1 => cur = 0
    /\ state # "done" =>
          /\ Len(file) = (i - 1) * Chunks + cur
          /\ \A k \in 1..Len(file) : file[k] = Place(k)

(* The inductive invariant. *)
IInv == TypeOK /\ ModeInv /\ AskInv /\ HelloHeard /\ CommandHeard /\ DoneHeard /\ DumpHeard /\ DumpInv
-----------------------------------------------------------------------------
(* What queues are made of.                                                *)
LEMMA AppendTypes ==
    ASSUME NEW q \in Seq(ToHost), NEW p \in ToHost
    PROVE  /\ Append(q, p) \in Seq(ToHost) /\ Append(q, p) # <<>>
           /\ Len(q) \in Nat /\ Len(Append(q, p)) = Len(q) + 1
           /\ \A k \in 1..Len(q) : Append(q, p)[k] = q[k]
           /\ Append(q, p)[Len(q) + 1] = p
           /\ Types(Append(q, p)) = Types(q) \cup {p.type}
<1>1. /\ Append(q, p) \in Seq(ToHost) /\ Append(q, p) # <<>>
      /\ Len(q) \in Nat /\ Len(Append(q, p)) = Len(q) + 1
      /\ \A k \in 1..Len(q) : Append(q, p)[k] = q[k]
      /\ Append(q, p)[Len(q) + 1] = p
  OBVIOUS
<1>2. Types(Append(q, p)) = Types(q) \cup {p.type}
  BY <1>1 DEF Types
<1> QED BY <1>1, <1>2

(* What is left when the first packet is read.                             *)
LEMMA TailTypes ==
    ASSUME NEW q \in Seq(ToHost), q # <<>>
    PROVE  /\ Tail(q) \in Seq(ToHost)
           /\ Len(q) \in Nat \ {0} /\ Len(Tail(q)) = Len(q) - 1
           /\ \A k \in 1..Len(Tail(q)) : Tail(q)[k] = q[k + 1]
           /\ Head(q) = q[1] /\ Head(q) \in ToHost
           /\ Head(q).type \in Types(q)
           /\ Types(Tail(q)) \subseteq Types(q)
<1>1. /\ Tail(q) \in Seq(ToHost)
      /\ Len(q) \in Nat \ {0} /\ Len(Tail(q)) = Len(q) - 1
      /\ \A k \in 1..Len(Tail(q)) : Tail(q)[k] = q[k + 1]
      /\ Head(q) = q[1] /\ Head(q) \in ToHost
  OBVIOUS
<1>2. Head(q).type \in Types(q) /\ Types(Tail(q)) \subseteq Types(q)
  BY <1>1 DEF Types
<1> QED BY <1>1, <1>2

(* A queue is its length and its packets.                                  *)
LEMMA SameSeq ==
    ASSUME NEW S, NEW q \in Seq(S), NEW r \in Seq(S), Len(q) = Len(r),
           \A k \in 1..Len(q) : q[k] = r[k]
    PROVE  q = r
OBVIOUS

(* Lines of at most two packets.                                           *)
LEMMA ShortQueues ==
    /\ <<>> \in Seq(ToHost) /\ Types(<<>>) = {} /\ Len(<<>>) = 0
    /\ <<>> \in Seq(ToDev)
    /\ \A p : /\ <<p>> # <<>> /\ Head(<<p>>) = p /\ Tail(<<p>>) = <<>> /\ Len(<<p>>) = 1
              /\ Append(<<>>, p) = <<p>> /\ <<p>>[1] = p
              /\ Types(<<p>>) = {p.type}
              /\ p \in ToDev => <<p>> \in Seq(ToDev)
              /\ p \in ToHost => <<p>> \in Seq(ToHost)
    /\ \A p \in ToHost, r \in ToHost :
          Tail(<<p, r>>) = <<r>> /\ Head(<<p, r>>) = p /\ Append(<<p>>, r) = <<p, r>>
<1>1. /\ <<>> \in Seq(ToHost) /\ Types(<<>>) = {} /\ Len(<<>>) = 0
      /\ <<>> \in Seq(ToDev)
  BY DEF Types
<1>2. ASSUME NEW p
      PROVE  /\ <<p>> # <<>> /\ Head(<<p>>) = p /\ Tail(<<p>>) = <<>> /\ Len(<<p>>) = 1
             /\ Append(<<>>, p) = <<p>> /\ <<p>>[1] = p
             /\ p \in ToDev => <<p>> \in Seq(ToDev)
             /\ p \in ToHost => <<p>> \in Seq(ToHost)
  OBVIOUS
<1>3. ASSUME NEW p PROVE Types(<<p>>) = {p.type}
  BY <1>2 DEF Types
<1>4. ASSUME NEW p \in ToHost, NEW r \in ToHost
      PROVE  Tail(<<p, r>>) = <<r>> /\ Head(<<p, r>>) = p /\ Append(<<p>>, r) = <<p, r>>
  <2>1. /\ <<p, r>> \in Seq(ToHost) /\ Len(<<p, r>>) = 2
        /\ <<p, r>>[1] = p /\ <<p, r>>[2] = r
    OBVIOUS
  <2>2. /\ Tail(<<p, r>>) \in Seq(ToHost) /\ Len(Tail(<<p, r>>)) = 1
        /\ Tail(<<p, r>>)[1] = r
    BY <2>1
  <2>3. /\ Append(<<p>>, r) \in Seq(ToHost) /\ Len(Append(<<p>>, r)) = 2
        /\ Append(<<p>>, r)[1] = p /\ Append(<<p>>, r)[2] = r
    OBVIOUS
  <2>4. Append(<<p>>, r) = <<p, r>>
    <3>1. \A k \in 1..Len(Append(<<p>>, r)) : k = 1 \/ k = 2
      BY <2>3
    <3>2. \A k \in 1..Len(Append(<<p>>, r)) : Append(<<p>>, r)[k] = <<p, r>>[k]
      BY <3>1, <2>1, <2>3
    <3>3. Len(Append(<<p>>, r)) = Len(<<p, r>>)
      BY <2>1, <2>3
    <3> QED BY <3>2, <3>3, <2>1, <2>3, SameSeq, Zenon
  <2>5. Tail(<<p, r>>) = <<r>>
    <3>1. <<r>> \in Seq(ToHost) /\ Len(<<r>>) = 1 /\ <<r>>[1] = r
      OBVIOUS
    <3>2. \A k \in 1..Len(Tail(<<p, r>>)) : Tail(<<p, r>>)[k] = <<r>>[k]
      BY <2>2, <3>1
    <3> QED BY <2>2, <3>1, <3>2, SameSeq
  <2>6. Head(<<p, r>>) = p
    BY <2>1
  <2> QED BY <2>4, <2>5, <2>6
<1> QED BY <1>1, <1>2, <1>3, <1>4

(* Packets are what they are made of.                                      *)
LEMMA Made ==
    ASSUME NEW t, NEW a \in Nat, NEW b \in Nat
    PROVE  /\ Pkt(t, a, b).type = t /\ Pkt(t, a, b).a = a /\ Pkt(t, a, b).b = b
           /\ Plain(t).type = t
           /\ t \in Packets \cup Data => Pkt(t, a, b) \in ToHost /\ Plain(t) \in ToHost
           /\ t \in Sent => Pkt(t, a, b) \in ToDev /\ Plain(t) \in ToDev
BY DEF Pkt, Plain, ToHost, ToDev

(* What is left after a read that failed was there before.                 *)
LEMMA RxFailsLeaves ==
    ASSUME toHost \in Seq(ToHost), RxFails
    PROVE  /\ toDev = <<>>
           /\ toHost' \in Seq(ToHost) /\ Types(toHost') \subseteq Types(toHost)
<1>1. CASE toHost' = toHost
  BY <1>1 DEF RxFails
<1>2. CASE \E q \in Batches : Drop(q)
  <2>1. PICK n \in 1..Len(toHost) : Drop(SubSeq(toHost, 1, n))
    BY <1>2 DEF Batches
  <2>2. Len(SubSeq(toHost, 1, n)) = n /\ Len(toHost) \in Nat
    BY <2>1
  <2>3. toHost' = SubSeq(toHost, n + 1, Len(toHost))
    BY <2>1, <2>2 DEF Drop
  <2>4. /\ toHost' \in Seq(ToHost)
        /\ Len(toHost') = Len(toHost) - n
        /\ \A k \in 1..Len(toHost') : toHost'[k] = toHost[n + k]
    BY <2>2, <2>3
  <2>5. Types(toHost') \subseteq Types(toHost)
    <3>1. \A k \in 1..Len(toHost') : n + k \in 1..Len(toHost)
      BY <2>2, <2>4
    <3> QED BY <2>4, <3>1 DEF Types
  <2>6. toDev = <<>>
    BY DEF RxFails
  <2> QED BY <2>4, <2>5, <2>6
<1> QED BY <1>1, <1>2 DEF RxFails

(* A read that succeeds takes one packet, with nothing on its way to the   *)
(* module.                                                                 *)
LEMMA RxReads ==
    ASSUME toHost \in Seq(ToHost), NEW t, Rx(t)
    PROVE  /\ toDev = <<>> /\ toHost # <<>> /\ t \in Packets
           /\ toHost[1].type = t /\ Head(toHost) = toHost[1] /\ toHost[1] \in ToHost
           /\ t \in Types(toHost) /\ toHost' = Tail(toHost)
           /\ toHost' \in Seq(ToHost) /\ Types(toHost') \subseteq Types(toHost)
BY TailTypes DEF Rx
(* The place of the chunk after the first i - 1 regions and cur chunks.    *)
LEMMA PlaceOf ==
    ASSUME NEW r \in Nat \ {0}, NEW c \in 0..(Chunks - 1)
    PROVE  Place((r - 1) * Chunks + c + 1) = <<r, c>>
<1> USE SaharaAssumption
<1>1. PICK x \in Nat : x = (r - 1) * Chunks + c
  OBVIOUS
<1>2. x \div Chunks = r - 1 /\ x % Chunks = c
  BY <1>1
<1>3. (r - 1) * Chunks + c + 1 - 1 = x
  BY <1>1
<1> QED BY <1>2, <1>3 DEF Place

(* At most one packet.                                                     *)
LEMMA OneOrNone ==
    ASSUME NEW p \in ToHost, NEW q \in {<<>>, <<p>>}
    PROVE  q \in Seq(ToHost) /\ Types(q) \subseteq {p.type}
<1>1. CASE q = <<>>
  BY <1>1, ShortQueues
<1>2. CASE q = <<p>>
  BY <1>2, ShortQueues
<1> QED BY <1>1, <1>2

-----------------------------------------------------------------------------
(* The points an earlier run may have left the module at.                  *)
LEMMA InitHolds == Init => IInv
<1> SUFFICES ASSUME Init PROVE IInv
  OBVIOUS
<1> USE SaharaAssumption
<1>1. /\ toHost \in Seq(ToHost)
      /\ Len(got) \in Nat /\ got \in Seq(0..Pieces) /\ Len(got) <= Pieces
      /\ \A k \in 1..Len(got) : got[k] = k
      /\ mode \in {"hello", "load", "sent", "dump"}
      /\ mode = "hello" => got = <<>> /\ Types(toHost) \subseteq {"hello"}
      /\ mode = "load" => Len(got) < Pieces /\ Types(toHost) \subseteq {"read"}
      /\ mode = "sent" => Len(got) = Pieces /\ Types(toHost) \subseteq {"end"}
      /\ mode = "dump" => Types(toHost) \subseteq {"debug"}
  <2>1. CASE mode = "hello" /\ got = <<>> /\ toHost \in {<<>>, <<Plain("hello")>>}
    <3>1. got \in Seq(0..Pieces) /\ Len(got) = 0
      BY <2>1
    <3>2. Plain("hello") \in ToHost /\ Plain("hello").type = "hello"
      BY Made DEF Packets
    <3>3. toHost \in Seq(ToHost) /\ Types(toHost) \subseteq {"hello"}
      BY <2>1, <3>2, OneOrNone
    <3> QED BY <2>1, <3>1, <3>3
  <2>2. CASE /\ mode = "load"
             /\ got \in {[k \in 1..n |-> k] : n \in 0..(Pieces - 1)}
             /\ toHost \in {<<>>, <<Pkt("read", Len(got) + 1, 0)>>}
    <3>1. PICK n \in 0..(Pieces - 1) : got = [k \in 1..n |-> k]
      BY <2>2
    <3>2. Len(got) = n /\ got \in Seq(0..Pieces) /\ \A k \in 1..n : got[k] = k
      BY <3>1
    <3>3. /\ Pkt("read", Len(got) + 1, 0) \in ToHost
          /\ Pkt("read", Len(got) + 1, 0).type = "read"
      <4>1. PICK m \in Nat : m = Len(got) + 1
        BY <3>2
      <4>2. Pkt("read", m, 0) \in ToHost /\ Pkt("read", m, 0).type = "read"
        BY DEF Pkt, ToHost, Packets
      <4> QED BY <4>1, <4>2
    <3>4. toHost \in Seq(ToHost) /\ Types(toHost) \subseteq {"read"}
      BY <2>2, <3>3, OneOrNone
    <3> QED BY <2>2, <3>2, <3>4
  <2>3. CASE /\ mode = "sent" /\ got = [k \in 1..Pieces |-> k]
             /\ toHost \in {<<>>, <<Pkt("end", image, 0)>>}
    <3>1. Len(got) = Pieces /\ got \in Seq(0..Pieces) /\ \A k \in 1..Pieces : got[k] = k
      BY <2>3
    <3>2. /\ Pkt("end", image, 0) \in ToHost
          /\ Pkt("end", image, 0).type = "end"
      <4>1. image \in Nat /\ "end" \in Packets
        BY DEF Init, Packets
      <4> QED BY <4>1, Made
    <3>3. toHost \in Seq(ToHost) /\ Types(toHost) \subseteq {"end"}
      BY <2>3, <3>2, OneOrNone
    <3> QED BY <2>3, <3>1, <3>3
  <2>4. CASE mode = "dump" /\ got = <<>> /\ toHost \in {<<>>, <<Plain("debug")>>}
    <3>1. got \in Seq(0..Pieces) /\ Len(got) = 0
      BY <2>4
    <3>2. Plain("debug") \in ToHost /\ Plain("debug").type = "debug"
      BY Made DEF Packets
    <3>3. toHost \in Seq(ToHost) /\ Types(toHost) \subseteq {"debug"}
      BY <2>4, <3>2, OneOrNone
    <3> QED BY <2>4, <3>1, <3>3
  <2> QED BY <2>1, <2>2, <2>3, <2>4 DEF Init
<1>2. TypeOK
  <2>1. /\ i \in 1..(Regions + 1) /\ cur \in 0..(Chunks - 1) /\ Len(toDev) <= 1
        /\ file \in Seq((1..Regions) \X (0..(Chunks - 1)))
    BY DEF Init
  <2> QED BY <1>1, <2>1, ShortQueues DEF Init, TypeOK
<1>3. ModeInv
  BY <1>1 DEF Init, ModeInv, TrueIsLoadedOrReset
<1>4. AskInv /\ HelloHeard /\ CommandHeard /\ DoneHeard /\ DumpHeard
  BY <1>1 DEF Init, AskInv, HelloHeard, CommandHeard, DoneHeard, DumpHeard
<1>5. DumpInv
  BY DEF Init, DumpInv
<1> QED BY <1>2, <1>3, <1>4, <1>5 DEF IInv
-----------------------------------------------------------------------------
(* The steps of the host: each begins with nothing on its way to the       *)
(* module.                                                                 *)
LEMMA SentOne ==
    ASSUME toDev = <<>>, NEW p \in ToDev, toDev' = toDev \/ toDev' = Append(toDev, p) \/ toDev' = <<p>>
    PROVE  /\ toDev' \in Seq(ToDev) /\ Len(toDev') <= 1
           /\ toDev' # <<>> => Head(toDev') = p
<1>1. toDev' = <<>> \/ toDev' = <<p>>
  BY ShortQueues
<1>2. CASE toDev' = <<>>
  BY <1>2, ShortQueues
<1>3. CASE toDev' = <<p>>
  <2>1. <<p>> \in Seq(ToDev) /\ Len(<<p>>) = 1 /\ Head(<<p>>) = p
    BY ShortQueues
  <2> QED BY <1>3, <2>1
<1> QED BY <1>1, <1>2, <1>3

(* sahara_start returns, whatever is left to read.                         *)
LEMMA ReturnKeeps ==
    ASSUME IInv, state # "done", state' = "done", retval' \in {"true", "false", "exit"},
           retval' = "true" => mode \in {"programmer", "restarted"},
           toDev = <<>>,
           toDev' = <<>> \/ (toDev' = <<Plain("readtable")>> /\ mode = "dump"),
           toHost' \in Seq(ToHost), Types(toHost') \subseteq Types(toHost),
           asked' \in BOOLEAN, asked' => i' <= entries,
           i' \in 1..(Regions + 1), cur' \in 0..(Chunks - 1), i' = Regions + 1 => cur' = 0,
           UNCHANGED <<image_id, entries, file, full, mode, image, got, broken, table>>
    PROVE  IInv'
<1> USE DEF IInv
<1>1. /\ toDev' \in Seq(ToDev) /\ Len(toDev') <= 1
      /\ toDev' # <<>> => Head(toDev').type = "readtable" /\ mode = "dump"
  <2>1. Plain("readtable") \in ToDev /\ Plain("readtable").type = "readtable"
    BY DEF Plain, Pkt, ToDev, Sent
  <2> QED BY <2>1, SentOne
<1>2. TypeOK'
  BY <1>1 DEF TypeOK
<1>3. ModeInv'
  BY DEF ModeInv, TrueIsLoadedOrReset
<1>4. AskInv'
  BY <1>1 DEF AskInv, Asking
<1>5. HelloHeard' /\ CommandHeard' /\ DoneHeard' /\ DumpHeard'
  BY DEF HelloHeard, CommandHeard, DoneHeard, DumpHeard
<1>6. DumpInv'
  BY DEF DumpInv
<1> QED BY <1>2, <1>3, <1>4, <1>5, <1>6

(* send_reset_command, after which only the answer to it counts.           *)
LEMMA ResetKeeps ==
    ASSUME IInv, state \in {"hello", "kicked", "command", "region"}, ~asked,
           SendReset, toDev = <<>>,
           toHost' \in Seq(ToHost), Types(toHost') \subseteq Types(toHost),
           Quiet, UNCHANGED devVars
    PROVE  IInv'
<1> USE DEF IInv, Quiet, devVars
<1>1. CASE Return("false") /\ toDev' = toDev
  <2>1. /\ asked \in BOOLEAN /\ (asked => i <= entries)
        /\ i \in 1..(Regions + 1) /\ cur \in 0..(Chunks - 1)
        /\ i = Regions + 1 => cur = 0
    BY DEF TypeOK, DumpInv
  <2> QED BY <1>1, <2>1, ReturnKeeps DEF Return
<1>2. CASE Goto("reset_resp") /\ toDev' = Append(toDev, Plain("reset"))
  <2>1. Plain("reset") \in ToDev /\ Plain("reset").type = "reset"
    BY DEF Plain, Pkt, ToDev, Sent
  <2>2. /\ toDev' \in Seq(ToDev) /\ Len(toDev') <= 1
        /\ toDev' # <<>> => Head(toDev').type = "reset"
    BY <1>2, <2>1, SentOne
  <2>3. TypeOK'
    BY <1>2, <2>2 DEF TypeOK, Goto
  <2>4. ModeInv'
    BY <1>2 DEF ModeInv, TrueIsLoadedOrReset, Goto
  <2>5. AskInv'
    BY <1>2, <2>2 DEF AskInv, Asking, Goto
  <2>6. HelloHeard' /\ CommandHeard' /\ DoneHeard' /\ DumpHeard' /\ DumpInv'
    BY <1>2 DEF HelloHeard, CommandHeard, DoneHeard, DumpHeard, DumpInv, Goto
  <2> QED BY <2>3, <2>4, <2>5, <2>6
<1> QED BY <1>1, <1>2 DEF SendReset

(* The unchanged counters of a step that returns.                          *)
LEMMA QuietCounters ==
    ASSUME IInv, Quiet
    PROVE  /\ asked' \in BOOLEAN /\ (asked' => i' <= entries)
           /\ i' \in 1..(Regions + 1) /\ cur' \in 0..(Chunks - 1)
           /\ i' = Regions + 1 => cur' = 0
           /\ UNCHANGED <<image_id, entries, file, full>>
BY DEF IInv, TypeOK, DumpInv, Quiet

(* Every step that gives up, or ends well.                                 *)
LEMMA ReturnsKeep ==
    IInv /\ (RxFailed \/ EndError \/ TableFails \/ NoFile \/ RegionFails
             \/ DoneComplete \/ DoneOther \/ ResetAnswered) => IInv'
<1> SUFFICES ASSUME IInv,
                    RxFailed \/ EndError \/ TableFails \/ NoFile \/ RegionFails
                    \/ DoneComplete \/ DoneOther \/ ResetAnswered
             PROVE  IInv'
  OBVIOUS
<1>1. toHost \in Seq(ToHost) /\ <<>> \in Seq(ToHost) /\ Types(<<>>) = {}
  BY ShortQueues DEF IInv, TypeOK
<1>2. CASE RxFailed
  <2>1. RxFails /\ Return("false") /\ Quiet /\ UNCHANGED toDev /\ UNCHANGED devVars /\ state # "done"
    BY <1>2 DEF RxFailed
  <2> QED BY <1>1, <2>1, RxFailsLeaves, QuietCounters, ReturnKeeps DEF Return, devVars
<1>3. CASE EndError \/ DoneOther
  <2>1. PICK t : Rx(t) /\ Return("false") /\ Quiet /\ UNCHANGED toDev /\ UNCHANGED devVars /\ state # "done"
    BY <1>3 DEF EndError, DoneOther, RxAny
  <2> QED BY <1>1, <2>1, RxReads, QuietCounters, ReturnKeeps DEF Return, devVars
<1>4. CASE TableFails \/ RegionFails
  <2>1. PICK t : RxDataFails(t) /\ Return("false") /\ Quiet /\ UNCHANGED toDev /\ UNCHANGED devVars /\ state # "done"
    BY <1>4 DEF TableFails, RegionFails
  <2>2. toDev = <<>> /\ (toHost' = toHost \/ toHost' = <<>>)
    BY <2>1 DEF RxDataFails
  <2> QED BY <1>1, <2>1, <2>2, QuietCounters, ReturnKeeps DEF Return, devVars
<1>5. CASE NoFile
  <2>1. /\ Return("exit") /\ Quiet /\ toDev = <<>> /\ state # "done"
        /\ UNCHANGED toDev /\ UNCHANGED toHost /\ UNCHANGED devVars
    BY <1>5 DEF NoFile
  <2> QED BY <1>1, <2>1, QuietCounters, ReturnKeeps DEF Return, devVars
<1>6. CASE DoneComplete
  <2>1. Rx("complete") /\ Return("true") /\ Quiet /\ UNCHANGED toDev /\ UNCHANGED devVars /\ state = "done_resp"
    BY <1>6 DEF DoneComplete
  <2>2. toDev = <<>> /\ "complete" \in Types(toHost)
    BY <1>1, <2>1, RxReads
  <2>3. mode = "programmer"
    <3>1. CASE /\ mode = "hello"
               /\ toHost \in {<<>>, <<Plain("pending")>>, <<Plain("pending"), Plain("hello")>>}
      <4>1. toHost # <<>> /\ Head(toHost).type = "complete"
        BY <2>1 DEF Rx
      <4>2. /\ Plain("pending") \in ToHost /\ Plain("hello") \in ToHost
            /\ Plain("pending").type = "pending"
        BY DEF Plain, Pkt, ToHost, Packets
      <4>3. Head(toHost) = Plain("pending")
        BY <3>1, <4>1, <4>2, ShortQueues
      <4> QED BY <4>1, <4>2, <4>3
    <3> QED BY <2>1, <2>2, <3>1 DEF IInv, DoneHeard
  <2> QED BY <1>1, <2>1, <2>3, RxReads, QuietCounters, ReturnKeeps DEF Return, devVars
<1>7. CASE ResetAnswered
  <2>1. Rx("resetresp") /\ Return("true") /\ Quiet /\ UNCHANGED toDev /\ UNCHANGED devVars /\ state = "reset_resp"
    BY <1>7 DEF ResetAnswered
  <2>2. mode = "restarted"
    BY <1>1, <2>1, RxReads DEF IInv, ModeInv
  <2> QED BY <1>1, <2>1, <2>2, RxReads, QuietCounters, ReturnKeeps DEF Return, devVars
<1> QED BY <1>2, <1>3, <1>4, <1>5, <1>6, <1>7
(* Waiting for the hello, and what the host makes of it.                   *)
LEMMA GreetingKeeps == IInv /\ (HelloMissed \/ Greeted \/ NotHello \/ UnknownCommand) => IInv'
<1> SUFFICES ASSUME IInv, HelloMissed \/ Greeted \/ NotHello \/ UnknownCommand PROVE IInv'
  OBVIOUS
<1> USE DEF IInv
<1>1. toHost \in Seq(ToHost)
  BY DEF TypeOK
<1>2. CASE HelloMissed
  <2>1. /\ state = "hello" /\ RxFails /\ Goto("kicked") /\ SendOr(Plain("kick"), TRUE)
        /\ Quiet /\ UNCHANGED devVars
    BY <1>2 DEF HelloMissed
  <2>2. /\ toDev = <<>>
        /\ toHost' \in Seq(ToHost) /\ Types(toHost') \subseteq Types(toHost)
    BY <1>1, <2>1, RxFailsLeaves
  <2>3. Plain("kick") \in ToDev /\ Plain("kick").type = "kick"
    BY DEF Plain, Pkt, ToDev, Sent
  <2>4. /\ toDev' \in Seq(ToDev) /\ Len(toDev') <= 1
        /\ toDev' # <<>> => Head(toDev').type = "kick"
    BY <2>1, <2>2, <2>3, SentOne DEF SendOr
  <2>5. TypeOK'
    BY <2>1, <2>2, <2>4 DEF TypeOK, Goto, Quiet, devVars
  <2>6. ModeInv'
    BY <2>1, <2>2 DEF ModeInv, TrueIsLoadedOrReset, Goto, devVars
  <2>7. AskInv'
    BY <2>1, <2>4 DEF AskInv, Asking, Goto
  <2>8. HelloHeard' /\ CommandHeard' /\ DoneHeard' /\ DumpHeard' /\ DumpInv'
    BY <2>1, <2>2 DEF HelloHeard, CommandHeard, DoneHeard, DumpHeard, DumpInv, Goto, Quiet, devVars
  <2> QED BY <2>5, <2>6, <2>7, <2>8
<1>3. CASE Greeted
  <2>1. /\ state \in {"hello", "kicked"} /\ Rx("hello") /\ Quiet /\ UNCHANGED devVars
        /\ \/ Goto("command") /\ toDev' = Append(toDev, Plain("helloresp"))
           \/ Return("false") /\ UNCHANGED toDev
    BY <1>3 DEF Greeted
  <2>2. /\ toDev = <<>> /\ "hello" \in Types(toHost)
        /\ toHost' \in Seq(ToHost) /\ Types(toHost') \subseteq Types(toHost)
    BY <1>1, <2>1, RxReads
  <2>3. CASE Return("false") /\ UNCHANGED toDev
    BY <2>1, <2>2, <2>3, QuietCounters, ReturnKeeps DEF Return, devVars
  <2>4. CASE Goto("command") /\ toDev' = Append(toDev, Plain("helloresp"))
    <3>1. Plain("helloresp") \in ToDev /\ Plain("helloresp").type = "helloresp"
      BY DEF Plain, Pkt, ToDev, Sent
    <3>2. /\ toDev' \in Seq(ToDev) /\ Len(toDev') <= 1
          /\ toDev' # <<>> => Head(toDev').type = "helloresp"
      BY <2>2, <2>4, <3>1, SentOne
    <3>3. mode = "hello" /\ Types(toHost') \subseteq {"hello"}
      BY <2>1, <2>2 DEF HelloHeard
    <3>4. \A k \in 1..Len(toHost') : toHost'[k].type = "hello"
      BY <3>3 DEF Types
    <3>5. TypeOK'
      BY <2>1, <2>2, <2>4, <3>2 DEF TypeOK, Goto, Quiet, devVars
    <3>6. ModeInv'
      BY <2>1, <2>2, <2>4 DEF ModeInv, TrueIsLoadedOrReset, Goto, devVars
    <3>7. AskInv'
      BY <2>1, <2>4, <3>2, <3>3 DEF AskInv, Asking, Goto, devVars
    <3>8. CommandHeard'
      BY <2>2, <3>4 DEF CommandHeard
    <3>9. HelloHeard' /\ DoneHeard' /\ DumpHeard' /\ DumpInv'
      BY <2>1, <2>4, <3>3 DEF HelloHeard, DoneHeard, DumpHeard, DumpInv, Goto, Quiet, devVars
    <3> QED BY <3>5, <3>6, <3>7, <3>8, <3>9
  <2> QED BY <2>1, <2>3, <2>4
<1>4. CASE NotHello \/ UnknownCommand
  <2>1. PICK t : /\ state \in {"hello", "kicked", "command"} /\ Rx(t) /\ SendReset
                 /\ Quiet /\ UNCHANGED devVars
    BY <1>4 DEF NotHello, UnknownCommand, RxAny
  <2>2. ~asked
    BY <2>1 DEF DumpInv, TypeOK
  <2> QED BY <1>1, <2>1, <2>2, RxReads, ResetKeeps
<1> QED BY <1>2, <1>3, <1>4

(* What is heard in command state is the last packet, and in its place.    *)
LEMMA CommandReads ==
    ASSUME IInv, state = "command", NEW t, t # "hello", Rx(t)
    PROVE  /\ toDev = <<>> /\ toHost' = <<>> /\ Head(toHost) \in ToHost
           /\ toHost' \in Seq(ToHost) /\ Types(toHost') \subseteq Types(toHost)
           /\ t = "read" => mode = "load" /\ ~broken /\ Head(toHost).a = Len(got) + 1
           /\ t = "end" => mode = "sent" /\ Head(toHost).a = image
           /\ t = "debug" => mode = "dump"
<1>1. toHost \in Seq(ToHost)
  BY DEF IInv, TypeOK
<1>2. /\ toDev = <<>> /\ toHost # <<>> /\ toHost' = Tail(toHost)
      /\ toHost[1].type = t /\ Head(toHost) = toHost[1] /\ toHost[1] \in ToHost
      /\ toHost' \in Seq(ToHost) /\ Types(toHost') \subseteq Types(toHost)
  BY <1>1, RxReads
<1>3. Len(toHost) \in Nat \ {0}
  BY <1>1, <1>2
<1>4. Len(toHost) = 1
  <2>1. ASSUME Len(toHost) # 1 PROVE 1 \in 1..(Len(toHost) - 1)
    <3>1. PICK n \in Nat \ {0} : n = Len(toHost)
      BY <1>3
    <3> QED BY <2>1, <3>1
  <2>2. 1 \notin 1..(Len(toHost) - 1)
    BY <1>2 DEF IInv, CommandHeard
  <2> QED BY <2>1, <2>2
<1>5. toHost' = <<>>
  BY <1>1, <1>2, <1>4
<1>6. 1 \in 1..Len(toHost)
  BY <1>4
<1>7. /\ t = "read" => mode = "load" /\ ~broken /\ toHost[1].a = Len(got) + 1
      /\ t = "end" => mode = "sent" /\ toHost[1].a = image
      /\ t = "debug" => mode = "dump"
  BY <1>2, <1>6 DEF IInv, CommandHeard
<1> QED BY <1>2, <1>5, <1>7

(* Serving the image, and the end of it.                                   *)
LEMMA ServingKeeps == IInv /\ (ReadData \/ EndImage) => IInv'
<1> SUFFICES ASSUME IInv, ReadData \/ EndImage PROVE IInv'
  OBVIOUS
<1> USE DEF IInv
<1>1. CASE ReadData
  <2> DEFINE n == Head(toHost).a
  <2>1. /\ state = "command" /\ Rx("read")
        /\ toDev' \in {<<>>, <<Pkt("data", n, 0)>>, <<Pkt("part", n, 0)>>}
        /\ Quiet /\ UNCHANGED <<state, retval>> /\ UNCHANGED devVars
    BY <1>1 DEF ReadData
  <2>2. /\ toDev = <<>> /\ toHost' = <<>> /\ n \in Nat
        /\ mode = "load" /\ ~broken /\ n = Len(got) + 1
    BY <2>1, CommandReads DEF ToHost
  <2>3. PICK p \in ToDev : p.type \in {"data", "part"} /\ p.a = n /\ toDev' \in {<<>>, <<p>>}
    <3>1. /\ Pkt("data", n, 0) \in ToDev /\ Pkt("part", n, 0) \in ToDev
          /\ Pkt("data", n, 0).type = "data" /\ Pkt("part", n, 0).type = "part"
          /\ Pkt("data", n, 0).a = n /\ Pkt("part", n, 0).a = n
      BY <2>2 DEF Pkt, ToDev, Sent
    <3> QED BY <2>1, <3>1
  <2> HIDE DEF n
  <2>4. /\ toDev' \in Seq(ToDev) /\ Len(toDev') <= 1
        /\ toDev' # <<>> => Head(toDev') = p
    BY <2>2, <2>3, SentOne
  <2>5. TypeOK'
    BY <2>1, <2>2, <2>4, ShortQueues DEF TypeOK, Quiet, devVars
  <2>6. ModeInv'
    BY <2>1, <2>2, ShortQueues DEF ModeInv, TrueIsLoadedOrReset, devVars
  <2>7. AskInv'
    BY <2>1, <2>2, <2>3, <2>4 DEF AskInv, Asking, devVars
  <2>8. CommandHeard' /\ HelloHeard'
    BY <2>1, <2>2, ShortQueues DEF CommandHeard, HelloHeard
  <2>9. DoneHeard' /\ DumpHeard' /\ DumpInv'
    BY <2>1 DEF DoneHeard, DumpHeard, DumpInv, Quiet, devVars
  <2> QED BY <2>5, <2>6, <2>7, <2>8, <2>9
<1>2. CASE EndImage
  <2>1. /\ state = "command" /\ Rx("end")
        /\ image_id' = Head(toHost).a
        /\ Goto("done_resp")
        /\ SendOr(Plain("done"), TRUE)
        /\ UNCHANGED <<entries, i, cur, asked, file, full>> /\ UNCHANGED devVars
    BY <1>2 DEF EndImage
  <2>2. /\ toDev = <<>> /\ toHost' = <<>>
        /\ mode = "sent" /\ image_id' = image
    BY <2>1, CommandReads
  <2>3. Plain("done") \in ToDev /\ Plain("done").type = "done"
    BY DEF Plain, Pkt, ToDev, Sent
  <2>4. /\ toDev' \in Seq(ToDev) /\ Len(toDev') <= 1
        /\ toDev' # <<>> => Head(toDev').type = "done"
    BY <2>1, <2>2, <2>3, SentOne DEF SendOr
  <2>5. TypeOK'
    BY <2>1, <2>2, <2>4, ShortQueues DEF TypeOK, Goto, devVars
  <2>6. ModeInv'
    BY <2>1, <2>2, ShortQueues DEF ModeInv, TrueIsLoadedOrReset, Goto, devVars
  <2>7. AskInv'
    BY <2>1, <2>2, <2>4 DEF AskInv, Asking, Goto, devVars
  <2>8. DoneHeard'
    BY <2>1, <2>2, ShortQueues DEF DoneHeard, devVars
  <2>9. CommandHeard' /\ HelloHeard' /\ DumpHeard' /\ DumpInv'
    BY <2>1 DEF CommandHeard, HelloHeard, DumpHeard, DumpInv, Goto
  <2> QED BY <2>5, <2>6, <2>7, <2>8, <2>9
<1> QED BY <1>1, <1>2
(* The memory dump: one question, one answer, each chunk in its place.     *)
LEMMA DumpKeeps ==
    IInv /\ (MemoryDebug \/ TableReceived \/ AskRegion \/ RegionReceived \/ RegionsDone) => IInv'
<1> SUFFICES ASSUME IInv,
                    MemoryDebug \/ TableReceived \/ AskRegion \/ RegionReceived \/ RegionsDone
             PROVE  IInv'
  OBVIOUS
<1> USE DEF IInv
<1>1. CASE MemoryDebug
  <2>1. /\ state = "command" /\ Rx("debug")
        /\ UNCHANGED <<image_id, i, cur, asked, file, full>> /\ UNCHANGED devVars
    BY <1>1 DEF MemoryDebug
  <2>2. /\ toDev = <<>> /\ toHost' = <<>> /\ mode = "dump"
        /\ toHost' \in Seq(ToHost) /\ Types(toHost') \subseteq Types(toHost)
    BY <2>1, CommandReads
  <2>idle. ~asked
    BY <2>1 DEF DumpInv, TypeOK
  <2>3. CASE SendReset /\ UNCHANGED entries
    BY <2>1, <2>2, <2>3, <2>idle, ResetKeeps DEF Quiet
  <2>4. CASE Return("false") /\ UNCHANGED entries
             /\ (toDev' = toDev \/ toDev' = Append(toDev, Plain("readtable")))
    <3>1. toDev' = <<>> \/ toDev' = <<Plain("readtable")>>
      BY <2>2, <2>4, ShortQueues
    <3>2. Quiet
      BY <2>1, <2>4 DEF Quiet
    <3> QED BY <2>1, <2>2, <2>4, <3>1, <3>2, QuietCounters, ReturnKeeps DEF Return, devVars
  <2>6. CASE /\ Goto("region") /\ entries' = 0 /\ UNCHANGED toDev
    <3>1. TypeOK'
      BY <2>1, <2>2, <2>6, ShortQueues DEF TypeOK, Goto, devVars
    <3>2. ModeInv'
      BY <2>1, <2>2, <2>6, ShortQueues DEF ModeInv, TrueIsLoadedOrReset, Goto, devVars
    <3>3. AskInv'
      BY <2>2, <2>6 DEF AskInv
    <3>4. DumpInv'
      BY <2>1, <2>idle, <2>6 DEF DumpInv, Goto
    <3>5. HelloHeard' /\ CommandHeard' /\ DoneHeard' /\ DumpHeard'
      BY <2>1, <2>2, <2>6 DEF HelloHeard, CommandHeard, DoneHeard, DumpHeard, Goto, devVars
    <3> QED BY <3>1, <3>2, <3>3, <3>4, <3>5
  <2>7. CASE Goto("table") /\ UNCHANGED entries /\ toDev' = Append(toDev, Plain("readtable"))
    <3>1. Plain("readtable") \in ToDev /\ Plain("readtable").type = "readtable"
      BY DEF Plain, Pkt, ToDev, Sent
    <3>2. /\ toDev' \in Seq(ToDev) /\ Len(toDev') <= 1
          /\ toDev' # <<>> => Head(toDev').type = "readtable"
      BY <2>2, <2>7, <3>1, SentOne
    <3>3. TypeOK'
      BY <2>1, <2>2, <2>7, <3>2, ShortQueues DEF TypeOK, Goto, devVars
    <3>4. ModeInv'
      BY <2>1, <2>2, <2>7, ShortQueues DEF ModeInv, TrueIsLoadedOrReset, Goto, devVars
    <3>5. AskInv'
      BY <2>1, <2>2, <2>7, <3>2 DEF AskInv, Asking, Goto, devVars
    <3>6. HelloHeard' /\ CommandHeard' /\ DoneHeard' /\ DumpHeard' /\ DumpInv'
      BY <2>1, <2>2, <2>7 DEF HelloHeard, CommandHeard, DoneHeard, DumpHeard, DumpInv, Goto, devVars
    <3> QED BY <3>3, <3>4, <3>5, <3>6
  <2> QED BY <1>1, <2>3, <2>4, <2>6, <2>7 DEF MemoryDebug
<1>2. CASE TableReceived
  <2>1. /\ state = "table" /\ RxData("table") /\ entries' = Regions /\ Goto("region")
        /\ UNCHANGED <<image_id, i, cur, asked, file, full, toDev>> /\ UNCHANGED devVars
    BY <1>2 DEF TableReceived
  <2>2. /\ toDev = <<>> /\ toHost' = <<>> /\ mode = "dump"
    <3>1. toHost = <<Plain("table")>> /\ toHost' = Tail(toHost) /\ toDev = <<>>
      BY <2>1 DEF RxData, DumpHeard
    <3> QED BY <2>1, <3>1, ShortQueues DEF DumpHeard
  <2>3. TypeOK'
    BY <2>1, <2>2, ShortQueues DEF TypeOK, Goto, devVars
  <2>4. ModeInv'
    BY <2>1, <2>2, ShortQueues DEF ModeInv, TrueIsLoadedOrReset, Goto, devVars
  <2>5. AskInv'
    BY <2>1, <2>2 DEF AskInv
  <2>6. DumpInv'
    <3>1. ~asked
      BY <2>1 DEF DumpInv, TypeOK
    <3> QED BY <2>1, <3>1 DEF DumpInv, Goto
  <2>7. HelloHeard' /\ CommandHeard' /\ DoneHeard' /\ DumpHeard'
    BY <2>1, <2>2 DEF HelloHeard, CommandHeard, DoneHeard, DumpHeard, Goto, devVars
  <2> QED BY <2>3, <2>4, <2>5, <2>6, <2>7
<1>3. CASE AskRegion
  <2>1. /\ state = "region" /\ ~asked /\ toDev = <<>> /\ i <= entries
        /\ UNCHANGED <<image_id, entries, i, cur, file, full, toHost>> /\ UNCHANGED devVars
    BY <1>3 DEF AskRegion
  <2>2. CASE Return("false") /\ UNCHANGED <<toDev, asked>>
    <3>1. Quiet
      BY <2>1, <2>2 DEF Quiet
    <3> QED BY <2>1, <2>2, <3>1, QuietCounters, ReturnKeeps DEF Return, devVars, TypeOK
  <2>3. CASE asked' = TRUE /\ toDev' = <<Pkt("readchunk", i, cur)>> /\ Goto("region")
    <3> DEFINE p == Pkt("readchunk", i, cur)
    <3>1. i \in Nat /\ cur \in Nat
      BY SaharaAssumption DEF TypeOK
    <3>2. p \in ToDev /\ p.type = "readchunk" /\ p.a = i /\ p.b = cur
      BY <3>1 DEF Pkt, ToDev, Sent
    <3> HIDE DEF p
    <3>3. toDev' = <<p>>
      BY <2>3 DEF p
    <3>4. /\ toDev' \in Seq(ToDev) /\ Len(toDev') <= 1
          /\ toDev' # <<>> => Head(toDev') = p
      BY <2>1, <3>2, <3>3, SentOne
    <3>5. toHost = <<>> /\ mode = "dump"
      BY <2>1 DEF DumpHeard
    <3>6. TypeOK'
      BY <2>1, <2>3, <3>4 DEF TypeOK, Goto, devVars
    <3>7. ModeInv'
      BY <2>1, <2>3 DEF ModeInv, TrueIsLoadedOrReset, Goto, devVars
    <3>8. AskInv'
      BY <2>1, <2>3, <3>2, <3>4, <3>5 DEF AskInv, Asking, Goto, devVars
    <3>9. HelloHeard' /\ CommandHeard' /\ DoneHeard' /\ DumpHeard' /\ DumpInv'
      BY <2>1, <2>3, <3>5 DEF HelloHeard, CommandHeard, DoneHeard, DumpHeard, DumpInv, Goto, devVars
    <3> QED BY <3>6, <3>7, <3>8, <3>9
  <2> QED BY <1>3, <2>2, <2>3 DEF AskRegion
<1>4. CASE RegionsDone
  <2>1. /\ state = "region" /\ ~asked /\ toDev = <<>> /\ SendReset /\ Quiet /\ toHost' = toHost
        /\ UNCHANGED devVars
    BY <1>4 DEF RegionsDone
  <2> QED BY <2>1, ResetKeeps DEF TypeOK
<1>5. CASE RegionReceived
  <2> DEFINE c == <<Head(toHost).a, Head(toHost).b>>
  <2>1. /\ state = "region" /\ asked /\ RxData("chunk") /\ asked' = FALSE
        /\ IF cur + 1 < Chunks THEN cur' = cur + 1 /\ UNCHANGED i
                               ELSE cur' = 0 /\ i' = i + 1
        /\ \/ ~full /\ file' = Append(file, c) /\ full' \in BOOLEAN /\ Goto("region")
           \/ Return("false") /\ UNCHANGED <<file, full>>
        /\ UNCHANGED <<image_id, entries, toDev>> /\ UNCHANGED devVars
    BY <1>5 DEF RegionReceived
  <2>2. /\ toDev = <<>> /\ toHost' = <<>> /\ c = <<i, cur>> /\ mode = "dump"
    <3>1. /\ toHost = <<Pkt("chunk", i, cur)>> /\ toHost' = Tail(toHost) /\ toDev = <<>>
          /\ mode = "dump"
      BY <2>1 DEF RxData, DumpHeard
    <3>2. Head(toHost) = Pkt("chunk", i, cur) /\ toHost' = <<>>
      BY <3>1, ShortQueues
    <3> QED BY <3>1, <3>2 DEF Pkt
  <2> HIDE DEF c
  <2>3. /\ i \in 1..Regions /\ cur \in 0..(Chunks - 1) /\ entries \in {0, Regions}
        /\ i <= entries
    BY <2>1, SaharaAssumption DEF TypeOK, DumpInv
  <2>4. /\ i' \in 1..(Regions + 1) /\ cur' \in 0..(Chunks - 1)
        /\ i' = Regions + 1 => cur' = 0
        /\ (i' - 1) * Chunks + cur' = (i - 1) * Chunks + cur + 1
    <3>1. CASE cur + 1 < Chunks
      BY <2>1, <2>3, <3>1, SaharaAssumption
    <3>2. CASE ~(cur + 1 < Chunks)
      <4>1. cur + 1 = Chunks /\ cur' = 0 /\ i' = i + 1
        BY <2>1, <2>3, <3>2, SaharaAssumption
      <4>2. i' - 1 = (i - 1) + 1
        BY <2>3, <4>1, SaharaAssumption
      <4>3. ((i - 1) + 1) * Chunks = (i - 1) * Chunks + Chunks
        BY <2>3, SaharaAssumption
      <4> QED BY <2>3, <4>1, <4>2, <4>3, SaharaAssumption
    <3> QED BY <3>1, <3>2
  <2>5. CASE Return("false") /\ UNCHANGED <<file, full>>
    BY <2>1, <2>2, <2>4, <2>5, ShortQueues, ReturnKeeps DEF Return, devVars
  <2>6. CASE ~full /\ file' = Append(file, c) /\ full' \in BOOLEAN /\ Goto("region")
    <3>1. /\ file \in Seq((1..Regions) \X (0..(Chunks - 1)))
          /\ Len(file) = (i - 1) * Chunks + cur
          /\ \A k \in 1..Len(file) : file[k] = Place(k)
      BY <2>1 DEF TypeOK, DumpInv
    <3>2. c \in (1..Regions) \X (0..(Chunks - 1))
      BY <2>2, <2>3
    <3>3. /\ file' \in Seq((1..Regions) \X (0..(Chunks - 1)))
          /\ Len(file') = Len(file) + 1 /\ Len(file) \in Nat
          /\ \A k \in 1..Len(file) : file'[k] = file[k]
          /\ file'[Len(file) + 1] = c
      BY <2>6, <3>1, <3>2
    <3>4. Place(Len(file) + 1) = c
      <4>1. Place((i - 1) * Chunks + cur + 1) = <<i, cur>>
        <5>1. i \in Nat \ {0}
          BY <2>3, SaharaAssumption
        <5> QED BY <2>3, <5>1, PlaceOf
      <4> QED BY <2>2, <3>1, <4>1
    <3>5. \A k \in 1..Len(file') : file'[k] = Place(k)
      <4> TAKE k \in 1..Len(file')
      <4>1. CASE k \in 1..Len(file)
        BY <3>1, <3>3, <4>1
      <4>2. CASE k = Len(file) + 1
        BY <3>3, <3>4, <4>2
      <4> QED BY <3>3, <4>1, <4>2
    <3>6. Len(file') = (i' - 1) * Chunks + cur'
      BY <2>4, <3>1, <3>3
    <3>7. TypeOK'
      BY <2>1, <2>2, <2>4, <2>6, <3>3, ShortQueues DEF TypeOK, Goto, devVars
    <3>8. ModeInv'
      BY <2>1, <2>2, <2>6, ShortQueues DEF ModeInv, TrueIsLoadedOrReset, Goto, devVars
    <3>9. DumpInv'
      BY <2>1, <2>4, <3>5, <3>6 DEF DumpInv
    <3>10. AskInv' /\ HelloHeard' /\ CommandHeard' /\ DoneHeard' /\ DumpHeard'
      BY <2>1, <2>2, <2>6 DEF AskInv, HelloHeard, CommandHeard, DoneHeard, DumpHeard, Goto, devVars
    <3> QED BY <3>7, <3>8, <3>9, <3>10
  <2> QED BY <2>1, <2>5, <2>6
<1> QED BY <1>1, <1>2, <1>3, <1>4, <1>5
(* The status of the image, and what is not the answer to a reset.         *)
LEMMA AnswersKeep == IInv /\ (DonePending \/ OtherThanReset) => IInv'
<1> SUFFICES ASSUME IInv, DonePending \/ OtherThanReset PROVE IInv'
  OBVIOUS
<1> USE DEF IInv
<1>1. toHost \in Seq(ToHost)
  BY DEF TypeOK
<1>2. CASE OtherThanReset
  <2>1. PICK t : /\ state = "reset_resp" /\ Rx(t) /\ Quiet /\ UNCHANGED <<state, retval, toDev>>
                 /\ UNCHANGED devVars
    BY <1>2 DEF OtherThanReset, RxAny
  <2>2. toDev = <<>> /\ toHost' \in Seq(ToHost) /\ Types(toHost') \subseteq Types(toHost)
    BY <1>1, <2>1, RxReads
  <2>3. TypeOK'
    BY <2>1, <2>2 DEF TypeOK, Quiet, devVars
  <2>4. ModeInv'
    BY <2>1, <2>2 DEF ModeInv, TrueIsLoadedOrReset, devVars
  <2>5. AskInv' /\ HelloHeard' /\ CommandHeard' /\ DoneHeard' /\ DumpHeard' /\ DumpInv'
    BY <2>1, <2>2 DEF AskInv, HelloHeard, CommandHeard, DoneHeard, DumpHeard, DumpInv, Quiet, devVars
  <2> QED BY <2>3, <2>4, <2>5
<1>3. CASE DonePending
  <2>1. /\ state = "done_resp" /\ Rx("pending") /\ Quiet /\ toDev' = toDev /\ UNCHANGED devVars
        /\ IF image_id = ProgrammerId THEN Return("true") ELSE Goto("hello")
    BY <1>3 DEF DonePending
  <2>2. /\ toDev = <<>> /\ "pending" \in Types(toHost) /\ toHost' = Tail(toHost) /\ toHost # <<>>
        /\ toHost' \in Seq(ToHost) /\ Types(toHost') \subseteq Types(toHost)
    BY <1>1, <2>1, RxReads
  <2>3. CASE mode = "programmer" /\ image_id = ProgrammerId
    <3>1. Return("true")
      BY <2>1, <2>3
    <3> QED BY <2>1, <2>2, <2>3, <3>1, QuietCounters, ReturnKeeps DEF Return, devVars
  <2>4. CASE /\ mode = "hello" /\ image_id # ProgrammerId
             /\ toHost \in {<<>>, <<Plain("pending")>>, <<Plain("pending"), Plain("hello")>>}
    <3>1. Goto("hello")
      BY <2>1, <2>4
    <3>2. Plain("pending") \in ToHost /\ Plain("hello") \in ToHost /\ Plain("hello").type = "hello"
      BY DEF Plain, Pkt, ToHost, Packets
    <3>3. toHost' = <<>> \/ toHost' = <<Plain("hello")>>
      BY <2>2, <2>4, <3>2, ShortQueues
    <3>4. Types(toHost') \subseteq {"hello"}
      BY <3>2, <3>3, ShortQueues
    <3>5. ~asked
      BY <2>1 DEF DumpInv, TypeOK
    <3>6. TypeOK'
      BY <2>1, <2>2, <3>1 DEF TypeOK, Goto, Quiet, devVars
    <3>7. ModeInv'
      BY <2>1, <2>2, <3>1 DEF ModeInv, TrueIsLoadedOrReset, Goto, devVars
    <3>8. AskInv'
      BY <2>1, <2>2 DEF AskInv
    <3>9. HelloHeard' /\ CommandHeard' /\ DoneHeard' /\ DumpHeard' /\ DumpInv'
      BY <2>1, <2>4, <3>1, <3>4, <3>5
         DEF HelloHeard, CommandHeard, DoneHeard, DumpHeard, DumpInv, Goto, Quiet, devVars
    <3> QED BY <3>6, <3>7, <3>8, <3>9
  <2> QED BY <2>1, <2>2, <2>3, <2>4 DEF DoneHeard
<1> QED BY <1>2, <1>3

-----------------------------------------------------------------------------
(* The steps of the module: it takes the one packet there is.              *)
LEMMA TakeReads ==
    ASSUME IInv, NEW t, Take(t)
    PROVE  /\ Head(toDev) \in ToDev /\ Head(toDev).type = t /\ Asking(Head(toDev))
           /\ toDev' = <<>> /\ toDev' \in Seq(ToDev) /\ Len(toDev') <= 1
           /\ UNCHANGED <<state, retval, image_id, entries, i, cur, asked, file, full>>
<1>1. /\ toDev \in Seq(ToDev) /\ Len(toDev) <= 1 /\ toDev # <<>> /\ toDev' = Tail(toDev)
      /\ Head(toDev).type = t
      /\ UNCHANGED <<state, retval, image_id, entries, i, cur, asked, file, full>>
  BY DEF IInv, TypeOK, Take, hostVars
<1>2. Head(toDev) \in ToDev /\ Len(toDev) = 1
  <2>1. Len(toDev) \in Nat \ {0} /\ Head(toDev) \in ToDev
    BY <1>1
  <2>2. \A n \in Nat \ {0} : n <= 1 => n = 1
    OBVIOUS
  <2> QED BY <1>1, <2>1, <2>2
<1>3. toDev' = <<>> /\ Len(toDev') <= 1
  BY <1>1, <1>2
<1>4. Asking(Head(toDev))
  BY <1>1 DEF IInv, AskInv
<1> QED BY <1>1, <1>2, <1>3, <1>4, ShortQueues

(* A packet said when nothing was on the line, and one said after others.  *)
LEMMA SayAdds ==
    ASSUME toHost \in Seq(ToHost), NEW p \in ToHost, Say(p)
    PROVE  /\ toHost' \in Seq(ToHost) /\ Types(toHost') \subseteq Types(toHost) \cup {p.type}
           /\ Types(toHost) \subseteq Types(toHost')
           /\ toHost = <<>> => toHost' \in {<<>>, <<p>>}
           /\ \A k \in 1..Len(toHost') :
                 \/ k \in 1..Len(toHost) /\ toHost'[k] = toHost[k]
                 \/ k = Len(toHost') /\ toHost'[k] = p
<1>1. CASE toHost' = toHost
  BY <1>1
<1>2. CASE toHost' = Append(toHost, p)
  <2>1. /\ toHost' \in Seq(ToHost)
        /\ Len(toHost) \in Nat /\ Len(toHost') = Len(toHost) + 1
        /\ \A k \in 1..Len(toHost) : toHost'[k] = toHost[k]
        /\ toHost'[Len(toHost) + 1] = p
        /\ Types(toHost') = Types(toHost) \cup {p.type}
    BY <1>2, AppendTypes
  <2>2. toHost = <<>> => toHost' = <<p>>
    BY <1>2, ShortQueues
  <2>3. ASSUME NEW k \in 1..Len(toHost')
        PROVE  \/ k \in 1..Len(toHost) /\ toHost'[k] = toHost[k]
               \/ k = Len(toHost') /\ toHost'[k] = p
    BY <2>1
  <2> QED BY <2>1, <2>2, <2>3
<1> QED BY <1>1, <1>2 DEF Say
(* The module hears the hello, or is asked for one.                        *)
LEMMA HelloStepsKeep == IInv /\ (DevGreeted \/ DevKicked) => IInv'
<1> SUFFICES ASSUME IInv, DevGreeted \/ DevKicked PROVE IInv'
  OBVIOUS
<1> USE DEF IInv
<1>1. CASE DevGreeted
  <2>1. /\ Take("helloresp") /\ mode = "hello"
        /\ UNCHANGED <<image, got, broken, table>>
        /\ \/ mode' = "load" /\ Say(Pkt("read", Len(got) + 1, 0))
           \/ mode' = "dump" /\ Say(Plain("debug"))
    BY <1>1 DEF DevGreeted
  <2>2. /\ toDev' = <<>> /\ toDev' \in Seq(ToDev) /\ Len(toDev') <= 1
        /\ UNCHANGED <<state, retval, image_id, entries, i, cur, asked, file, full>>
        /\ Asking(Head(toDev)) /\ Head(toDev).type = "helloresp"
    BY <2>1, TakeReads
  <2>3. state = "command" /\ Types(toHost) \subseteq {"hello"} /\ got = <<>> /\ ~broken
    BY <2>1, <2>2 DEF Asking, HelloHeard, ModeInv
  <2>4. PICK p \in ToHost : /\ Say(p)
                            /\ \/ mode' = "load" /\ p.type = "read" /\ p.a = Len(got) + 1
                               \/ mode' = "dump" /\ p.type = "debug"
    <3>1. Len(got) + 1 = 1
      BY <2>3
    <3>2. /\ Pkt("read", 1, 0) \in ToHost /\ Pkt("read", 1, 0).type = "read"
          /\ Pkt("read", 1, 0).a = 1
          /\ Plain("debug") \in ToHost /\ Plain("debug").type = "debug"
      BY DEF Plain, Pkt, ToHost, Packets
    <3> QED BY <2>1, <3>1, <3>2
  <2>5. /\ toHost \in Seq(ToHost)
        /\ toHost' \in Seq(ToHost) /\ Types(toHost') \subseteq {"hello", p.type}
    BY <2>3, <2>4, SayAdds DEF TypeOK
  <2>6. \A k \in 1..Len(toHost') :
           \/ toHost'[k].type = "hello"
           \/ k = Len(toHost') /\ toHost'[k] = p
    <3>1. \A k \in 1..Len(toHost) : toHost[k].type = "hello"
      BY <2>3 DEF Types
    <3>2. \A k \in 1..Len(toHost') :
             \/ k \in 1..Len(toHost) /\ toHost'[k] = toHost[k]
             \/ k = Len(toHost') /\ toHost'[k] = p
      BY <2>4, <2>5, SayAdds
    <3> QED BY <3>1, <3>2
  <2>7. TypeOK'
    BY <2>1, <2>2, <2>4, <2>5 DEF TypeOK
  <2>8. ModeInv'
    <3>1. Len(got) < Pieces
      BY <2>3, SaharaAssumption
    <3> QED BY <2>1, <2>2, <2>4, <2>5, <3>1 DEF ModeInv, TrueIsLoadedOrReset, TypeOK
  <2>9. AskInv' /\ DoneHeard' /\ DumpHeard' /\ DumpInv'
    BY <2>1, <2>2, <2>3 DEF AskInv, DoneHeard, DumpHeard, DumpInv
  <2>10. HelloHeard'
    BY <2>2, <2>3, <2>4 DEF HelloHeard
  <2>11. CommandHeard'
    <3>1. Len(toHost') \in Nat
      BY <2>5
    <3>2. \A k \in 1..(Len(toHost') - 1) : k \in 1..Len(toHost') /\ k # Len(toHost')
      BY <3>1
    <3> QED BY <2>1, <2>2, <2>3, <2>4, <2>6, <3>2 DEF CommandHeard
  <2> QED BY <2>7, <2>8, <2>9, <2>10, <2>11
<1>2. CASE DevKicked
  <2>1. Take("kick") /\ mode = "hello" /\ Say(Plain("hello")) /\ UNCHANGED devVars
    BY <1>2 DEF DevKicked
  <2>2. /\ toDev' = <<>> /\ toDev' \in Seq(ToDev) /\ Len(toDev') <= 1
        /\ UNCHANGED <<state, retval, image_id, entries, i, cur, asked, file, full>>
        /\ Asking(Head(toDev)) /\ Head(toDev).type = "kick"
    BY <2>1, TakeReads
  <2>3. state = "kicked" /\ Types(toHost) \subseteq {"hello"}
    BY <2>1, <2>2 DEF Asking, HelloHeard
  <2>4. Plain("hello") \in ToHost /\ Plain("hello").type = "hello"
    BY DEF Plain, Pkt, ToHost, Packets
  <2>5. toHost' \in Seq(ToHost) /\ Types(toHost') \subseteq {"hello"}
    BY <2>1, <2>3, <2>4, SayAdds DEF TypeOK
  <2>6. TypeOK'
    BY <2>1, <2>2, <2>5 DEF TypeOK, devVars
  <2>7. ModeInv'
    BY <2>1, <2>2, <2>5 DEF ModeInv, TrueIsLoadedOrReset, devVars
  <2>8. AskInv' /\ HelloHeard' /\ CommandHeard' /\ DoneHeard' /\ DumpHeard' /\ DumpInv'
    BY <2>1, <2>2, <2>3, <2>5 DEF AskInv, HelloHeard, CommandHeard, DoneHeard, DumpHeard, DumpInv, devVars
  <2> QED BY <2>6, <2>7, <2>8
<1> QED BY <1>1, <1>2

(* A piece arrives: it is the next one, and nothing has spoilt it.         *)
LEMMA PiecesKeep == IInv /\ DevData => IInv'
<1> SUFFICES ASSUME IInv, DevData PROVE IInv'
  OBVIOUS
<1> USE DEF IInv
<1> DEFINE n == Len(got)
<1>1. /\ Take("data") /\ mode = "load"
      /\ got' = Append(got, IF broken THEN 0 ELSE Head(toDev).a)
      /\ broken' = FALSE /\ UNCHANGED <<image, table>>
      /\ \/ Len(got') < Pieces /\ Say(Pkt("read", Len(got') + 1, 0)) /\ UNCHANGED mode
         \/ Len(got') = Pieces /\ mode' = "sent" /\ Say(Pkt("end", image, 0))
         \/ Len(got') = Pieces /\ mode' = "refused" /\ Say(Plain("error"))
  BY DEF DevData, Arg
<1>2. /\ toDev' = <<>> /\ toDev' \in Seq(ToDev) /\ Len(toDev') <= 1
      /\ UNCHANGED <<state, retval, image_id, entries, i, cur, asked, file, full>>
      /\ Asking(Head(toDev)) /\ Head(toDev).type = "data"
  BY <1>1, TakeReads
<1>3. state = "command" /\ toHost = <<>> /\ ~broken /\ Head(toDev).a = Len(got) + 1
  BY <1>2 DEF Asking
<1>4. /\ got \in Seq(0..Pieces) /\ n \in Nat /\ n < Pieces /\ \A k \in 1..n : got[k] = k
  BY <1>1 DEF TypeOK, ModeInv
<1>5. /\ got' \in Seq(0..Pieces) /\ Len(got') = n + 1 /\ Len(got') <= Pieces
      /\ \A k \in 1..Len(got') : got'[k] = k
  <2>1. got' = Append(got, n + 1)
    BY <1>1, <1>3
  <2>2. n + 1 \in 0..Pieces /\ n + 1 <= Pieces
    BY <1>4, SaharaAssumption
  <2>3. /\ got' \in Seq(0..Pieces) /\ Len(got') = n + 1
        /\ \A k \in 1..n : got'[k] = got[k]
        /\ got'[n + 1] = n + 1
    BY <1>4, <2>1, <2>2
  <2>4. \A k \in 1..(n + 1) : k \in 1..n \/ k = n + 1
    BY <1>4
  <2> QED BY <1>4, <2>2, <2>3, <2>4
<1>6. PICK p \in ToHost :
         /\ Say(p)
         /\ \/ /\ mode' = "load" /\ p.type = "read" /\ p.a = Len(got') + 1
               /\ Len(got') < Pieces
            \/ mode' = "sent" /\ p.type = "end" /\ p.a = image /\ Len(got') = Pieces
            \/ mode' = "refused" /\ p.type = "error"
  <2>1. PICK m \in Nat : m = Len(got') + 1
    BY <1>4, <1>5
  <2>2. image \in Nat
    BY SaharaAssumption DEF TypeOK
  <2>3. /\ Pkt("read", m, 0) \in ToHost /\ Pkt("read", m, 0).type = "read" /\ Pkt("read", m, 0).a = m
        /\ Pkt("end", image, 0) \in ToHost /\ Pkt("end", image, 0).type = "end"
        /\ Pkt("end", image, 0).a = image
        /\ Plain("error") \in ToHost /\ Plain("error").type = "error"
    BY <2>2 DEF Plain, Pkt, ToHost, Packets
  <2> QED BY <1>1, <2>1, <2>3
<1> HIDE DEF n
<1>7. /\ toHost' \in Seq(ToHost) /\ Types(toHost') \subseteq {p.type}
      /\ \A k \in 1..Len(toHost') : k = Len(toHost') /\ toHost'[k] = p
  <2>1. toHost' \in {<<>>, <<p>>}
    BY <1>3, <1>6, SayAdds, ShortQueues
  <2>2. CASE toHost' = <<>>
    BY <2>2, ShortQueues
  <2>3. CASE toHost' = <<p>>
    <3>1. Len(toHost') = 1 /\ toHost'[1] = p
      BY <2>3
    <3> QED BY <2>3, <3>1, ShortQueues
  <2> QED BY <2>1, <2>2, <2>3
<1>8. TypeOK'
  BY <1>1, <1>2, <1>5, <1>6, <1>7 DEF TypeOK
<1>9. ModeInv'
  BY <1>1, <1>2, <1>5, <1>6, <1>7 DEF ModeInv, TrueIsLoadedOrReset, TypeOK
<1>10. AskInv' /\ DoneHeard' /\ DumpHeard' /\ DumpInv'
  BY <1>2, <1>3 DEF AskInv, DoneHeard, DumpHeard, DumpInv
<1>11. HelloHeard'
  BY <1>2, <1>3, <1>6 DEF HelloHeard
<1>12. CommandHeard'
  <2>1. Len(toHost') \in Nat
    BY <1>7
  <2>2. \A k \in 1..(Len(toHost') - 1) : k \in 1..Len(toHost') /\ k # Len(toHost')
    BY <2>1
  <2> QED BY <1>1, <1>6, <1>7, <2>2 DEF CommandHeard
<1> QED BY <1>8, <1>9, <1>10, <1>11, <1>12

(* The part of a piece, or what else the module takes for one.             *)
LEMMA SpoilingKeeps == IInv /\ DevSpoilt => IInv'
<1> SUFFICES ASSUME IInv, DevSpoilt PROVE IInv'
  OBVIOUS
<1> USE DEF IInv
<1>1. PICK t \in Sent \ {"data"} : Take(t)
  BY DEF DevSpoilt
<1>2. /\ mode = "load" /\ UNCHANGED <<image, got, table>>
      /\ \/ broken' = TRUE /\ mode' = mode /\ toHost' = toHost
         \/ mode' = "refused" /\ Say(Plain("error")) /\ UNCHANGED broken
  BY DEF DevSpoilt
<1>3. /\ toDev' = <<>> /\ toDev' \in Seq(ToDev) /\ Len(toDev') <= 1
      /\ UNCHANGED <<state, retval, image_id, entries, i, cur, asked, file, full>>
      /\ Asking(Head(toDev)) /\ Head(toDev).type = t
  BY <1>1, TakeReads
<1>4. \/ state \in {"kicked", "reset_resp"}
      \/ state = "command" /\ toHost = <<>>
  BY <1>1, <1>2, <1>3 DEF Asking
<1>5. Plain("error") \in ToHost /\ Plain("error").type = "error"
  BY DEF Plain, Pkt, ToHost, Packets
<1>6. /\ toHost \in Seq(ToHost) /\ toHost' \in Seq(ToHost)
      /\ Types(toHost') \subseteq Types(toHost) \cup {"error"}
      /\ toHost = <<>> => toHost' \in {<<>>, <<Plain("error")>>}
  BY <1>2, <1>5, SayAdds DEF TypeOK
<1>7. TypeOK'
  BY <1>2, <1>3, <1>6 DEF TypeOK
<1>8. ModeInv'
  BY <1>2, <1>3, <1>6 DEF ModeInv, TrueIsLoadedOrReset, TypeOK
<1>9. AskInv' /\ DoneHeard' /\ DumpHeard' /\ DumpInv'
  BY <1>3, <1>4 DEF AskInv, DoneHeard, DumpHeard, DumpInv
<1>10. HelloHeard'
  BY <1>2, <1>3, <1>6 DEF HelloHeard
<1>11. CommandHeard'
  <2>1. ASSUME state = "command" PROVE Len(toHost') <= 1 /\ Types(toHost') \subseteq {"error"}
    <3>1. toHost' \in {<<>>, <<Plain("error")>>}
      BY <1>4, <1>6, <2>1
    <3>2. CASE toHost' = <<>>
      BY <3>2, ShortQueues
    <3>3. CASE toHost' = <<Plain("error")>>
      <4>1. Len(toHost') = 1
        BY <3>3
      <4> QED BY <1>5, <3>3, <4>1, ShortQueues
    <3> QED BY <3>1, <3>2, <3>3
  <2>2. \A k \in 1..Len(toHost') : toHost'[k].type \in Types(toHost')
    BY DEF Types
  <2>3. Len(toHost') \in Nat
    BY <1>6
  <2>4. ASSUME state = "command", NEW k \in 1..(Len(toHost') - 1) PROVE FALSE
    BY <2>1, <2>3, <2>4
  <2> QED BY <1>3, <2>1, <2>2, <2>4 DEF CommandHeard
<1> QED BY <1>7, <1>8, <1>9, <1>10, <1>11
(* At most two packets.                                                    *)
LEMMA TwoOrLess ==
    ASSUME NEW p \in ToHost, NEW r \in ToHost, <<p, r>> \in Seq(ToHost),
           Types(<<p, r>>) = {p.type, r.type}, NEW q \in {<<>>, <<p>>, <<p, r>>}
    PROVE  q \in Seq(ToHost) /\ Types(q) \subseteq {p.type, r.type}
<1>1. CASE q \in {<<>>, <<p>>}
  BY <1>1, OneOrNone
<1>2. CASE q = <<p, r>>
  BY <1>2
<1> QED BY <1>1, <1>2

(* The image is started.                                                   *)
LEMMA DoneKeeps == IInv /\ DevDone => IInv'
<1> SUFFICES ASSUME IInv, DevDone PROVE IInv'
  OBVIOUS
<1> USE DEF IInv
<1>1. /\ Take("done") /\ mode = "sent" /\ UNCHANGED <<broken, table>>
  BY DEF DevDone
<1>2. /\ toDev' = <<>> /\ toDev' \in Seq(ToDev) /\ Len(toDev') <= 1
      /\ UNCHANGED <<state, retval, image_id, entries, i, cur, asked, file, full>>
      /\ Asking(Head(toDev)) /\ Head(toDev).type = "done"
  BY <1>1, TakeReads
<1>3. /\ state = "done_resp" /\ toHost = <<>> /\ image_id = image /\ ~broken /\ Len(got) = Pieces
      /\ toHost \in Seq(ToHost)
  BY <1>1, <1>2 DEF Asking, ModeInv, TypeOK
<1>4. /\ \A s \in {"pending", "complete", "log", "hello", "failed"} :
            Plain(s) \in ToHost /\ Plain(s).type = s
      /\ \A p \in ToHost, r \in ToHost :
            /\ Append(toHost, p) = <<p>> /\ Append(Append(toHost, p), r) = <<p, r>>
            /\ <<p, r>> \in Seq(ToHost) /\ Types(<<p, r>>) = {p.type, r.type}
  <2>1. \A s \in {"pending", "complete", "log", "hello", "failed"} :
            Plain(s) \in ToHost /\ Plain(s).type = s
    BY DEF Plain, Pkt, ToHost, Packets, Data
  <2>2. ASSUME NEW p \in ToHost, NEW r \in ToHost
        PROVE  /\ Append(toHost, p) = <<p>> /\ Append(Append(toHost, p), r) = <<p, r>>
               /\ <<p, r>> \in Seq(ToHost) /\ Types(<<p, r>>) = {p.type, r.type}
    <3>1. Append(toHost, p) = <<p>> /\ Append(<<p>>, r) = <<p, r>> /\ <<p>> \in Seq(ToHost)
          /\ Types(<<p>>) = {p.type}
      BY <1>3, ShortQueues
    <3>2. Append(<<p>>, r) \in Seq(ToHost) /\ Types(Append(<<p>>, r)) = {p.type} \cup {r.type}
      <4>1. PICK q \in Seq(ToHost) : q = <<p>>
        BY <3>1
      <4>2. Append(q, r) \in Seq(ToHost) /\ Types(Append(q, r)) = Types(q) \cup {r.type}
        BY AppendTypes
      <4> QED BY <3>1, <4>1, <4>2
    <3> QED BY <3>1, <3>2
  <2> QED BY <2>1, <2>2
<1>5. CASE /\ image = ProgrammerId /\ mode' = "programmer" /\ UNCHANGED <<image, got>>
           /\ \E s \in {"pending", "complete"} : SayBoth(Plain(s), Plain("log"))
  <2>1. PICK s \in {"pending", "complete"} :
           toHost' \in {<<>>, <<Plain(s)>>, <<Plain(s), Plain("log")>>}
    BY <1>3, <1>4, <1>5 DEF SayBoth
  <2>2. toHost' \in Seq(ToHost) /\ Types(toHost') \subseteq {s, "log"}
    <3>1. PICK p \in ToHost : p = Plain(s) /\ p.type = s
      BY <1>4
    <3>2. PICK r \in ToHost : r = Plain("log") /\ r.type = "log"
      BY <1>4
    <3>3. <<p, r>> \in Seq(ToHost) /\ Types(<<p, r>>) = {p.type, r.type}
      BY <1>4
    <3>4. toHost' \in {<<>>, <<p>>, <<p, r>>}
      BY <2>1, <3>1, <3>2
    <3>5. toHost' \in Seq(ToHost) /\ Types(toHost') \subseteq {p.type, r.type}
      BY <3>3, <3>4, TwoOrLess
    <3> QED BY <3>1, <3>2, <3>5
  <2>3. TypeOK'
    BY <1>1, <1>2, <1>5, <2>2 DEF TypeOK
  <2>4. ModeInv'
    BY <1>1, <1>2, <1>3, <1>5, <2>2 DEF ModeInv, TrueIsLoadedOrReset, TypeOK
  <2>5. AskInv' /\ HelloHeard' /\ CommandHeard' /\ DoneHeard' /\ DumpHeard' /\ DumpInv'
    BY <1>2, <1>3, <1>5 DEF AskInv, HelloHeard, CommandHeard, DoneHeard, DumpHeard, DumpInv
  <2> QED BY <2>3, <2>4, <2>5
<1>6. CASE /\ image # ProgrammerId /\ mode' = "hello" /\ image' = ProgrammerId /\ got' = <<>>
           /\ SayBoth(Plain("pending"), Plain("hello"))
  <2>1. toHost' \in {<<>>, <<Plain("pending")>>, <<Plain("pending"), Plain("hello")>>}
    BY <1>3, <1>4, <1>6 DEF SayBoth
  <2>2. toHost' \in Seq(ToHost) /\ Types(toHost') \subseteq {"pending", "hello"}
    <3>1. PICK p \in ToHost : p = Plain("pending") /\ p.type = "pending"
      BY <1>4
    <3>2. PICK r \in ToHost : r = Plain("hello") /\ r.type = "hello"
      BY <1>4
    <3>3. <<p, r>> \in Seq(ToHost) /\ Types(<<p, r>>) = {p.type, r.type}
      BY <1>4
    <3>4. toHost' \in {<<>>, <<p>>, <<p, r>>}
      BY <2>1, <3>1, <3>2
    <3>5. toHost' \in Seq(ToHost) /\ Types(toHost') \subseteq {p.type, r.type}
      BY <3>3, <3>4, TwoOrLess
    <3> QED BY <3>1, <3>2, <3>5
  <2>3. got' \in Seq(0..Pieces) /\ Len(got') = 0 /\ Len(got') <= Pieces
    BY <1>6, SaharaAssumption
  <2>4. TypeOK'
    BY <1>1, <1>2, <1>6, <2>2, <2>3, SaharaAssumption DEF TypeOK
  <2>5. ModeInv'
    BY <1>1, <1>2, <1>3, <1>6, <2>2, <2>3 DEF ModeInv, TrueIsLoadedOrReset, TypeOK
  <2>6. AskInv' /\ HelloHeard' /\ CommandHeard' /\ DoneHeard' /\ DumpHeard' /\ DumpInv'
    BY <1>2, <1>3, <1>6, <2>1 DEF AskInv, HelloHeard, CommandHeard, DoneHeard, DumpHeard, DumpInv
  <2> QED BY <2>4, <2>5, <2>6
<1>7. CASE mode' = "refused" /\ UNCHANGED <<image, got>> /\ Say(Plain("failed"))
  <2>1. toHost' \in Seq(ToHost) /\ Types(toHost') \subseteq {"failed"}
    BY <1>3, <1>4, <1>7, SayAdds, ShortQueues
  <2>2. TypeOK'
    BY <1>1, <1>2, <1>7, <2>1 DEF TypeOK
  <2>3. ModeInv'
    BY <1>1, <1>2, <1>3, <1>7, <2>1 DEF ModeInv, TrueIsLoadedOrReset, TypeOK
  <2>4. AskInv' /\ HelloHeard' /\ CommandHeard' /\ DoneHeard' /\ DumpHeard' /\ DumpInv'
    BY <1>2, <1>3, <1>7, <2>1 DEF AskInv, HelloHeard, CommandHeard, DoneHeard, DumpHeard, DumpInv
  <2> QED BY <2>2, <2>3, <2>4
<1> QED BY <1>5, <1>6, <1>7 DEF DevDone

(* The memory dump, the reset, and what the module drops.                  *)
LEMMA RestKeeps == IInv /\ (DevTable \/ DevChunk \/ DevReset \/ DevIgnore) => IInv'
<1> SUFFICES ASSUME IInv, DevTable \/ DevChunk \/ DevReset \/ DevIgnore PROVE IInv'
  OBVIOUS
<1> USE DEF IInv
<1>1. toHost \in Seq(ToHost)
  BY DEF TypeOK
<1>2. CASE DevTable
  <2>1. Take("readtable") /\ mode = "dump" /\ Say(Plain("table")) /\ UNCHANGED devVars
    BY <1>2 DEF DevTable
  <2>2. /\ toDev' = <<>> /\ toDev' \in Seq(ToDev) /\ Len(toDev') <= 1
        /\ UNCHANGED <<state, retval, image_id, entries, i, cur, asked, file, full>>
        /\ Asking(Head(toDev)) /\ Head(toDev).type = "readtable" /\ toDev # <<>>
    BY <2>1, TakeReads DEF Take
  <2>3. Plain("table") \in ToHost /\ Plain("table").type = "table"
    BY DEF Plain, Pkt, ToHost, Data
  <2>4. /\ toHost' \in Seq(ToHost) /\ Types(toHost') \subseteq Types(toHost) \cup {"table"}
        /\ toHost = <<>> => toHost' \in {<<>>, <<Plain("table")>>}
    BY <1>1, <2>1, <2>3, SayAdds
  <2>5. state = "done" \/ (state = "table" /\ toHost = <<>>)
    BY <2>2 DEF Asking, DumpHeard
  <2>6. TypeOK'
    BY <2>1, <2>2, <2>4 DEF TypeOK, devVars
  <2>7. ModeInv'
    BY <2>1, <2>2, <2>4 DEF ModeInv, TrueIsLoadedOrReset, devVars
  <2>8. AskInv' /\ HelloHeard' /\ CommandHeard' /\ DoneHeard' /\ DumpHeard' /\ DumpInv'
    BY <2>1, <2>2, <2>4, <2>5
       DEF AskInv, HelloHeard, CommandHeard, DoneHeard, DumpHeard, DumpInv, devVars
  <2> QED BY <2>6, <2>7, <2>8
<1>3. CASE DevChunk
  <2> DEFINE a == Head(toDev)
  <2> DEFINE p == Pkt("chunk", a.a, a.b)
  <2>1. Take("readchunk") /\ mode = "dump" /\ Say(p) /\ UNCHANGED devVars
    BY <1>3 DEF DevChunk, Arg
  <2>2. /\ toDev' = <<>> /\ toDev' \in Seq(ToDev) /\ Len(toDev') <= 1
        /\ UNCHANGED <<state, retval, image_id, entries, i, cur, asked, file, full>>
        /\ Asking(a) /\ a.type = "readchunk" /\ a \in ToDev
    BY <2>1, TakeReads
  <2>3. /\ state = "region" /\ toHost = <<>> /\ asked
        /\ p = Pkt("chunk", i, cur) /\ p \in ToHost /\ p.type = "chunk"
    BY <2>2 DEF Asking, Pkt, ToHost, ToDev, Data
  <2> HIDE DEF p
  <2>4. /\ toHost' \in Seq(ToHost) /\ Types(toHost') \subseteq Types(toHost) \cup {"chunk"}
        /\ toHost' \in {<<>>, <<p>>}
    BY <1>1, <2>1, <2>3, SayAdds
  <2>5. TypeOK'
    BY <2>1, <2>2, <2>4 DEF TypeOK, devVars
  <2>6. ModeInv'
    BY <2>1, <2>2, <2>4 DEF ModeInv, TrueIsLoadedOrReset, devVars
  <2>7. AskInv' /\ HelloHeard' /\ CommandHeard' /\ DoneHeard' /\ DumpHeard' /\ DumpInv'
    BY <2>1, <2>2, <2>3, <2>4
       DEF AskInv, HelloHeard, CommandHeard, DoneHeard, DumpHeard, DumpInv, devVars
  <2> QED BY <2>5, <2>6, <2>7
<1>4. CASE DevReset
  <2>1. /\ Take("reset") /\ mode \in {"hello", "sent", "refused", "dump"} /\ mode' = "restarted"
        /\ Say(Plain("resetresp")) /\ UNCHANGED <<image, got, broken, table>>
    BY <1>4 DEF DevReset
  <2>2. /\ toDev' = <<>> /\ toDev' \in Seq(ToDev) /\ Len(toDev') <= 1
        /\ UNCHANGED <<state, retval, image_id, entries, i, cur, asked, file, full>>
        /\ Asking(Head(toDev)) /\ Head(toDev).type = "reset"
    BY <2>1, TakeReads
  <2>3. Plain("resetresp") \in ToHost
    BY DEF Plain, Pkt, ToHost, Packets
  <2>4. toHost' \in Seq(ToHost)
    BY <1>1, <2>1, <2>3, SayAdds
  <2>5. state = "reset_resp"
    BY <2>2 DEF Asking
  <2>6. TypeOK'
    BY <2>1, <2>2, <2>4 DEF TypeOK
  <2>7. ModeInv'
    BY <2>1, <2>2 DEF ModeInv, TrueIsLoadedOrReset
  <2>8. AskInv' /\ HelloHeard' /\ CommandHeard' /\ DoneHeard' /\ DumpHeard' /\ DumpInv'
    BY <2>2, <2>5 DEF AskInv, HelloHeard, CommandHeard, DoneHeard, DumpHeard, DumpInv
  <2> QED BY <2>6, <2>7, <2>8
<1>5. CASE DevIgnore
  <2>1. PICK t : Take(t) /\ mode \notin {"load"} /\ UNCHANGED toHost /\ UNCHANGED devVars
    BY <1>5 DEF DevIgnore
  <2>2. /\ toDev' = <<>> /\ toDev' \in Seq(ToDev) /\ Len(toDev') <= 1
        /\ UNCHANGED <<state, retval, image_id, entries, i, cur, asked, file, full>>
        /\ Asking(Head(toDev))
    BY <2>1, TakeReads
  <2>3. TypeOK'
    BY <2>1, <2>2 DEF TypeOK, devVars
  <2>4. ModeInv'
    BY <2>1, <2>2 DEF ModeInv, TrueIsLoadedOrReset, devVars
  <2>5. AskInv' /\ HelloHeard' /\ CommandHeard'
    BY <2>1, <2>2 DEF AskInv, HelloHeard, CommandHeard, devVars
  <2>6. DumpHeard' /\ DumpInv'
    BY <2>1, <2>2 DEF DumpHeard, DumpInv, devVars
  <2>7. DoneHeard'
    BY <2>1, <2>2, ShortQueues DEF DoneHeard, Asking, devVars
  <2> QED BY <2>3, <2>4, <2>5, <2>6, <2>7
<1> QED BY <1>2, <1>3, <1>4, <1>5

(* Nothing changes.                                                        *)
LEMMA StutterKeeps == IInv /\ UNCHANGED vars => IInv'
BY DEF vars, hostVars, devVars, IInv, TypeOK, ModeInv, TrueIsLoadedOrReset, AskInv, Asking,
       HelloHeard, CommandHeard, DoneHeard, DumpHeard, DumpInv

-----------------------------------------------------------------------------
(* The invariant holds in every reachable state, for every image and dump. *)
THEOREM Invariant == Spec => []IInv
<1>1. IInv /\ [Next]_vars => IInv'
  BY ReturnsKeep, GreetingKeeps, ServingKeeps, DumpKeeps, AnswersKeep, HelloStepsKeep,
     PiecesKeep, SpoilingKeeps, DoneKeeps, RestKeeps, StutterKeeps DEF Next, Host, Module
<1> QED BY InitHolds, <1>1, PTL DEF Spec

(* The types; one packet at most is on its way to the module, and the host *)
(* has returned exactly when it is done.                                   *)
THEOREM TypeCorrect == Spec => []TypeOK
<1>1. IInv => TypeOK
  BY DEF IInv
<1> QED BY <1>1, Invariant, PTL

(* Success of sahara_main is never that of a module left in sahara.        *)
THEOREM SuccessIsLoadedOrReset == Spec => []TrueIsLoadedOrReset
<1>1. IInv => TrueIsLoadedOrReset
  BY DEF IInv, ModeInv
<1> QED BY <1>1, Invariant, PTL

(* An image the module accepted is the file, whatever else was taken for   *)
(* its data on the way.                                                    *)
THEOREM AcceptedImageIsFile == Spec => []AcceptedIsWhole
<1>1. ASSUME IInv PROVE AcceptedIsWhole
  <2>1. SUFFICES ASSUME mode \in {"sent", "programmer"} PROVE got = [k \in 1..Pieces |-> k]
    BY DEF AcceptedIsWhole
  <2>2. /\ got \in Seq(0..Pieces) /\ Len(got) = Pieces
        /\ \A k \in 1..Len(got) : got[k] = k
    BY <1>1, <2>1 DEF IInv, TypeOK, ModeInv
  <2> QED BY <2>2
<1> QED BY <1>1, Invariant, PTL

(* Every chunk of every region was written, in its place, before the reset *)
(* that ends a dump: for regions and chunks of any number.                 *)
THEOREM DumpIsComplete == Spec => []DumpIsWhole
<1>1. ASSUME IInv PROVE DumpIsWhole
  <2>1. SUFFICES ASSUME state = "reset_resp", entries > 0, i > entries
                 PROVE  file = [k \in 1..(Regions * Chunks) |-> Place(k)]
    BY DEF DumpIsWhole, Place
  <2>2. i = Regions + 1 /\ cur = 0
    <3>1. i \in 1..(Regions + 1) /\ entries \in {0, Regions}
      BY <1>1 DEF IInv, TypeOK
    <3>2. i = Regions + 1
      BY <2>1, <3>1, SaharaAssumption
    <3> QED BY <1>1, <3>2 DEF IInv, DumpInv
  <2>3. /\ file \in Seq((1..Regions) \X (0..(Chunks - 1)))
        /\ Len(file) = (i - 1) * Chunks + cur
        /\ \A k \in 1..Len(file) : file[k] = Place(k)
    BY <1>1, <2>1 DEF IInv, TypeOK, DumpInv
  <2>4. Len(file) = Regions * Chunks
    <3>1. i - 1 = Regions
      BY <2>2, SaharaAssumption
    <3>2. Regions * Chunks + 0 = Regions * Chunks
      BY SaharaAssumption
    <3> QED BY <2>2, <2>3, <3>1, <3>2
  <2> QED BY <2>3, <2>4
<1> QED BY <1>1, Invariant, PTL
=============================================================================
