----------------------------- MODULE FirehoseProofs -----------------------------
(***************************************************************************)
(* What is proved of Firehose, for every rawprogram file, every image      *)
(* size, every payload size the programmer may ask for and any number of   *)
(* logs: the images arrive whole and alone, success is only reported when  *)
(* everything was carried out, and Firehose implements PackageFlash.       *)
(***************************************************************************)
EXTENDS Firehose, SequenceTheorems, TLAPS

(* The first m sectors of the image of line n.                             *)
Pre(n, m) == [k \in 1..m |-> <<n, k>>]

(* What has been carried out when the program of line n is sent, and when  *)
(* the reset is.                                                           *)
Before(n) == Erases \subseteq erased /\ \A k \in Programs : k < n => k \in Programmed

AllDone == erased = Erases /\ Programmed = Programs

(* The responses among the messages that the child has not read: none, at  *)
(* most one, one of type t.                                                *)
Quiet   == \A j \in 1..Len(toHost) : ~IsResponse(j)
Once    == \A i, j \in 1..Len(toHost) : IsResponse(i) /\ IsResponse(j) => i = j
Says(t) == \E j \in 1..Len(toHost) : toHost[j].type = t

(* The programmer's raw mode: what it has is a proper prefix of the image. *)
RawInv ==
    raw # 0 =>
        /\ raw \in Programs
        /\ mode = "programmer"
        /\ num = Sectors(raw)
        /\ Len(got) < num
        /\ got = Pre(raw, Len(got))
        /\ Before(raw)

(* At most one command or piece is on its way, and it fits the programmer. *)
LineInv ==
    toDev # <<>> =>
        LET a == toDev[1] IN
        /\ Len(toDev) = 1
        /\ a.type # "piece" => raw = 0
        /\ a.type = "erase" => a.line \in Erases
        /\ a.type = "program" =>
              a.line \in Programs /\ a.from = Sectors(a.line) /\ a.from # 0 /\ Before(a.line)
        /\ a.type = "reset" => AllDone
        /\ a.type = "piece" =>
              /\ raw # 0 /\ a.line = raw
              /\ a.from = Len(got)
              /\ a.many # 0
              /\ Len(got) + a.many <= num

Fresh == toDev = <<>> /\ raw = 0 /\ Quiet

CmdInv ==
    pc \in {"configure", "erase", "program", "reset"} =>
        /\ ~waiting => Fresh
        /\ toDev # <<>> =>
              Quiet /\ toDev[1].type = pc /\ (pc \in {"erase", "program"} => toDev[1].line = x)
        /\ Once

(* Where the child is, against what it has been told.                      *)
ChildInv ==
    /\ ppc \in {"start", "reopen"} \/ pc \in {"sahara", "open"} => Fresh
    /\ waiting => pc \notin {"sahara", "open", "exit"}
    /\ pc \in {"configure", "erase", "program", "raw", "reset"} =>
          \A n \in Programs : Sectors(n) # 0
    /\ pc \in {"configure", "erase", "reset"} => raw = 0
    /\ pc = "erase" =>
          /\ x \in Erases
          /\ \A k \in Erases : k < x => k \in erased
          /\ Says("ACK") \/ Says("rawACK") => x \in erased
    /\ pc = "program" =>
          /\ x \in Programs
          /\ Before(x)
          /\ raw # 0 => raw = x /\ got = <<>>
          /\ Says("rawACK") => raw = x
    /\ pc = "reset" => AllDone

(* In raw mode: the host and the programmer agree on how far the image is. *)
SendInv ==
    pc = "raw" =>
        /\ x \in Programs
        /\ Before(x)
        /\ Once
        /\ toDev # <<>> => toDev[1].type = "piece"
        /\ raw # 0 =>
              /\ raw = x
              /\ Quiet
              /\ filesend = Len(got) + (IF toDev = <<>> THEN 0 ELSE toDev[1].many)
        /\ raw = 0 =>
              /\ filesend = Sectors(x)
              /\ Says("ACK") => x \in Programmed

(* The log of the reset, on its way or seen, is proof of all the rest.     *)
OkInv ==
    /\ ok \/ mode = "off" \/ Says("resetlog") => AllDone
    /\ result = "ok" /\ SelfPath => ok

IInv ==
    /\ TypeOK /\ RawIsOwnImage
    /\ RawInv /\ LineInv /\ CmdInv /\ ChildInv /\ SendInv /\ OkInv

-----------------------------------------------------------------------------
(* Arithmetic of the images. *)

(* Images and their sectors are within their bounds.                       *)
LEMMA SectorsType ==
  ASSUME files \in [Files -> Image], NEW n \in Programs
  PROVE  ImageOf(n) \in Image /\ Sectors(n) \in 0..(MaxSectors + 1)
<1>1. ImageOf(n) \in Image
  BY DEF ImageOf, Files
<1>2. ImageOf(n).full \in 0..MaxSectors /\ MaxSectors \in Nat
  BY <1>1, RawProgramAssumption DEF Image
<1> QED
  BY <1>1, <1>2 DEF Sectors, FixupProgramCmd

(* Something is sent as long as fewer sectors were sent than announced,    *)
(* and never more than that.                                               *)
LEMMA ReadsFit ==
  ASSUME NEW image \in Image, NEW n \in Nat, NEW most \in Nat \ {0}
  PROVE  /\ MoreToSend(image, n) => n < FixupProgramCmd(image)
         /\ n <= FixupProgramCmd(image) /\ ~MoreToSend(image, n) => n = FixupProgramCmd(image)
         /\ MoreToSend(image, n) =>
               /\ Reads(image, n, most) \in Nat \ {0}
               /\ n + Reads(image, n, most) <= FixupProgramCmd(image)
<1>1. image.full \in Nat /\ image.rest \in BOOLEAN
  BY RawProgramAssumption DEF Image
<1> QED
  BY <1>1 DEF MoreToSend, Reads, FixupProgramCmd

(* A write of something takes a part of it that is not empty.              *)
LEMMA WritesFit ==
  ASSUME NEW r \in Nat \ {0}
  PROVE  UsbfsBulkWrite(r) \in Nat \ {0} /\ UsbfsBulkWrite(r) <= r
  BY RawProgramAssumption DEF UsbfsBulkWrite

(* The next piece behind a prefix makes a longer prefix.                   *)
LEMMA PreGrows ==
  ASSUME NEW n \in Nat, NEW a \in Nat, NEW b \in Nat
  PROVE  /\ Pre(n, a) \in Seq(Nat \X Nat) /\ Len(Pre(n, a)) = a
         /\ Pre(n, a) \o [k \in 1..b |-> <<n, a + k>>] = Pre(n, a + b)
<1> DEFINE q == [k \in 1..b |-> <<n, a + k>>]
<1>1. Pre(n, a) \in Seq(Nat \X Nat) /\ Len(Pre(n, a)) = a
  BY DEF Pre
<1>2. q \in Seq(Nat \X Nat) /\ Len(q) = b
  OBVIOUS
<1>3. Pre(n, a + b) \in Seq(Nat \X Nat) /\ Len(Pre(n, a + b)) = a + b
  BY DEF Pre
<1>4. \A k \in 1..a : Pre(n, a)[k] = <<n, k>>
  BY DEF Pre
<1>5. \A k \in 1..b : q[k] = <<n, a + k>>
  OBVIOUS
<1>6. \A k \in 1..(a + b) : Pre(n, a + b)[k] = <<n, k>>
  BY DEF Pre
<1> HIDE DEF q
<1>7. /\ Pre(n, a) \o q \in Seq(Nat \X Nat)
      /\ Len(Pre(n, a) \o q) = a + b
      /\ \A k \in 1..(a + b) :
            (Pre(n, a) \o q)[k] = IF k <= a THEN Pre(n, a)[k] ELSE q[k - a]
  <2>1. PICK S : S = Nat \X Nat
    OBVIOUS
  <2>2. PICK p : p = Pre(n, a)
    OBVIOUS
  <2>3. p \in Seq(S) /\ q \in Seq(S) /\ Len(p) = a /\ Len(q) = b
    BY <2>1, <2>2, <1>1, <1>2
  <2>4. /\ p \o q \in Seq(S)
        /\ Len(p \o q) = a + b
        /\ \A k \in 1..(a + b) : (p \o q)[k] = IF k <= a THEN p[k] ELSE q[k - a]
    BY <2>3, ConcatProperties
  <2> QED
    BY <2>1, <2>2, <2>4
<1>8. ASSUME NEW k \in 1..(a + b) PROVE (Pre(n, a) \o q)[k] = Pre(n, a + b)[k]
  <2>1. CASE k <= a
    <3>1. k \in 1..a
      BY <2>1
    <3>2. Pre(n, a)[k] = <<n, k>> /\ Pre(n, a + b)[k] = <<n, k>>
      BY <1>4, <1>6, <3>1
    <3> QED
      BY <1>7, <2>1, <3>2
  <2>2. CASE ~(k <= a)
    <3>1. k - a \in 1..b /\ a + (k - a) = k
      BY <2>2
    <3>2. q[k - a] = <<n, k>>
      BY <1>5, <3>1
    <3> QED
      BY <1>6, <1>7, <2>2, <3>2
  <2> QED
    BY <2>1, <2>2
<1>9. Pre(n, a) \o q = Pre(n, a + b)
  <2>1. PICK S : S = Nat \X Nat
    OBVIOUS
  <2>2. PICK s, t : s = Pre(n, a) \o q /\ t = Pre(n, a + b)
    OBVIOUS
  <2>3. s \in Seq(S) /\ t \in Seq(S) /\ Len(s) = a + b /\ Len(t) = a + b
    BY <2>1, <2>2, <1>3, <1>7
  <2>4. \A k \in 1..(a + b) : s[k] = t[k]
    BY <2>2, <1>8
  <2>5. s = t
    BY <2>3, <2>4, SeqEqual
  <2> QED
    BY <2>2, <2>5
<1> QED
  BY <1>1, <1>9 DEF q

-----------------------------------------------------------------------------
(* What is heard. *)

(* After a read of the k oldest messages the child has heard no more than  *)
(* there was, and not more than one response of one.                       *)
LEMMA ReadKeeps ==
  ASSUME toHost \in Seq(Messages), ok \in BOOLEAN, NEW k \in Batches, Read(k)
  PROVE  /\ toHost' \in Seq(Messages)
         /\ ok' \in BOOLEAN
         /\ ok => ok'
         /\ ok' => ok \/ Says("resetlog")
         /\ \A t : Says(t)' => Says(t)
         /\ Once => Once'
         /\ Quiet => Quiet'
         /\ \A j \in 1..k : Once /\ IsResponse(j) => Quiet'
<1>1. k \in 1..Len(toHost) /\ Len(toHost) \in Nat
  BY DEF Batches
<1>2. /\ toHost' \in Seq(Messages)
      /\ Len(toHost') = Len(toHost) - k
  BY <1>1 DEF Read
<1>3. \A j \in 1..Len(toHost') : toHost'[j] = toHost[j + k] /\ j + k \in 1..Len(toHost)
                                 /\ j + k > k
  BY <1>1, <1>2 DEF Read
<1>4. \A t : Says(t)' => Says(t)
  BY <1>3 DEF Says
<1>5. Quiet => Quiet'
  BY <1>3 DEF Quiet, IsResponse
<1>6. Once => Once'
  <2> SUFFICES ASSUME Once, NEW i \in 1..Len(toHost'), NEW j \in 1..Len(toHost'),
                      IsResponse(i)', IsResponse(j)'
               PROVE  i = j
    BY DEF Once
  <2>1. i + k = j + k
    BY <1>3 DEF Once, IsResponse
  <2> QED
    BY <2>1, <1>1, <1>2
<1>7. \A j \in 1..k : Once /\ IsResponse(j) => Quiet'
  <2> SUFFICES ASSUME NEW j \in 1..k, Once, IsResponse(j), NEW i \in 1..Len(toHost'),
                      IsResponse(i)'
               PROVE  FALSE
    BY DEF Quiet
  <2>1. IsResponse(i + k) /\ i + k \in 1..Len(toHost) /\ i + k > k
    BY <1>3 DEF IsResponse
  <2>2. j \in 1..Len(toHost) /\ j <= k
    BY <1>1
  <2>3. j = i + k
    BY <2>1, <2>2 DEF Once
  <2> QED
    BY <1>1, <1>2, <2>1, <2>2, <2>3
<1>8. /\ ok' \in BOOLEAN
      /\ ok => ok'
      /\ ok' => ok \/ Says("resetlog")
  <2>1. CASE \E j \in 1..k : toHost[j].type = "resetlog"
    <3>1. Says("resetlog")
      BY <1>1, <2>1 DEF Says
    <3>2. ok' = TRUE
      BY <2>1 DEF Read
    <3> QED
      BY <3>1, <3>2
  <2>2. CASE ~ \E j \in 1..k : toHost[j].type = "resetlog"
    <3>1. ok' = ok
      BY <2>2 DEF Read
    <3> QED
      BY <3>1
  <2> QED
    BY <2>1, <2>2
<1> QED
  BY <1>2, <1>4, <1>5, <1>6, <1>7, <1>8

(* A response that was read was the only one, and was there.               *)
LEMMA AnsweredKeeps ==
  ASSUME toHost \in Seq(Messages), ok \in BOOLEAN, Once, NEW r, Answered(r)
  PROVE  /\ toHost' \in Seq(Messages)
         /\ ok' \in BOOLEAN
         /\ ok => ok'
         /\ ok' => ok \/ Says("resetlog")
         /\ \A t : Says(t)' => Says(t)
         /\ Quiet'
         /\ Says(r.type)
         /\ r.type \in Responses
         /\ waiting /\ toDev = <<>>
         /\ UNCHANGED <<ppc, result>>
<1>1. PICK k \in Batches : \E j \in 1..k : Read(k) /\ IsResponse(j) /\ toHost[j] = r
  BY DEF Answered
<1> PICK j \in 1..k : Read(k) /\ IsResponse(j) /\ toHost[j] = r
  BY <1>1
<1>2. k \in 1..Len(toHost) /\ j \in 1..Len(toHost)
  BY <1>1 DEF Batches
<1>3. Says(r.type) /\ r.type \in Responses
  BY <1>1, <1>2 DEF Says, IsResponse
<1>4. UNCHANGED <<ppc, result>> /\ waiting /\ toDev = <<>>
  BY <1>1 DEF Read, Answered, Listening
<1> QED
  BY <1>1, <1>3, <1>4, ReadKeeps

(* What the programmer says is heard from then on.                         *)
LEMMA SayKeeps ==
  ASSUME toHost \in Seq(Messages), NEW q \in Seq(Messages), Say(q),
         \A i, j \in 1..Len(q) : q[i].type \in Responses /\ q[j].type \in Responses => i = j
  PROVE  /\ toHost' \in Seq(Messages)
         /\ \A t : Says(t)' => Says(t) \/ \E i \in 1..Len(q) : q[i].type = t
         /\ Quiet => Once'
         /\ Len(q) = 0 => toHost' = toHost
<1>1. PICK k \in 0..Len(q) : toHost' = toHost \o SubSeq(q, 1, k)
  BY DEF Say
<1>2. PICK s : s = SubSeq(q, 1, k)
  OBVIOUS
<1>3. /\ s \in Seq(Messages) /\ Len(s) = k /\ k \in Nat /\ k <= Len(q)
      /\ \A i \in 1..k : s[i] = q[i] /\ i \in 1..Len(q)
  BY <1>2
<1>4. toHost' \in Seq(Messages) /\ Len(toHost') = Len(toHost) + k
  BY <1>1, <1>2, <1>3
<1>5. /\ \A i \in 1..Len(toHost) : toHost'[i] = toHost[i]
      /\ \A i \in 1..Len(toHost') : i > Len(toHost) =>
            toHost'[i] = q[i - Len(toHost)] /\ i - Len(toHost) \in 1..k
  <2>1. \A i \in 1..Len(toHost) : toHost'[i] = toHost[i]
    BY <1>1, <1>2, <1>3
  <2>2. ASSUME NEW i \in 1..Len(toHost'), i > Len(toHost)
        PROVE  toHost'[i] = q[i - Len(toHost)] /\ i - Len(toHost) \in 1..k
    <3>1. i - Len(toHost) \in 1..k
      BY <1>3, <1>4, <2>2
    <3>2. toHost'[i] = s[i - Len(toHost)]
      BY <1>1, <1>2, <1>3, <1>4, <2>2
    <3> QED
      BY <1>3, <3>1, <3>2
  <2> QED
    BY <2>1, <2>2
<1>6. \A t : Says(t)' => Says(t) \/ \E i \in 1..Len(q) : q[i].type = t
  <2> SUFFICES ASSUME NEW t, NEW i \in 1..Len(toHost'), toHost'[i].type = t
               PROVE  Says(t) \/ \E j \in 1..Len(q) : q[j].type = t
    BY DEF Says
  <2>1. CASE i <= Len(toHost)
    <3>1. i \in 1..Len(toHost)
      BY <2>1, <1>4
    <3> QED
      BY <3>1, <1>5 DEF Says
  <2>2. CASE i > Len(toHost)
    BY <2>2, <1>3, <1>5
  <2>3. Len(toHost) \in Nat /\ i \in Nat
    BY <1>4
  <2> QED
    BY <2>1, <2>2, <2>3
<1>7. Quiet => Once'
  <2> SUFFICES ASSUME Quiet, NEW i \in 1..Len(toHost'), NEW j \in 1..Len(toHost'),
                      IsResponse(i)', IsResponse(j)'
               PROVE  i = j
    BY DEF Once
  <2>1. i > Len(toHost) /\ j > Len(toHost)
    <3>1. ASSUME NEW m \in 1..Len(toHost'), IsResponse(m)', ~(m > Len(toHost)) PROVE FALSE
      <4>1. m \in 1..Len(toHost)
        BY <3>1, <1>4
      <4> QED
        BY <3>1, <4>1, <1>5 DEF Quiet, IsResponse
    <3> QED
      BY <3>1
  <2>2. /\ i - Len(toHost) \in 1..Len(q) /\ q[i - Len(toHost)].type \in Responses
        /\ j - Len(toHost) \in 1..Len(q) /\ q[j - Len(toHost)].type \in Responses
    BY <2>1, <1>3, <1>5 DEF IsResponse
  <2>3. i - Len(toHost) = j - Len(toHost)
    BY <2>2
  <2> QED
    BY <2>3, <1>4
<1>8. Len(q) = 0 => toHost' = toHost
  <2> SUFFICES ASSUME Len(q) = 0 PROVE toHost' = toHost
    OBVIOUS
  <2>1. k = 0 /\ s = <<>>
    BY <1>2, <1>3
  <2> QED
    BY <1>1, <1>2, <2>1
<1> QED
  BY <1>4, <1>6, <1>7, <1>8

-----------------------------------------------------------------------------
(* The steps of the host. *)

(* What the host does leaves what the programmer has done alone.           *)
LEMMA HostFrame ==
  ASSUME UNCHANGED <<files, raw, num, got, erased, stored>>
  PROVE  /\ Programmed' = Programmed
         /\ \A n : Sectors(n)' = Sectors(n)
         /\ \A n : Before(n)' <=> Before(n)
         /\ AllDone' <=> AllDone
         /\ RawIsOwnImage => RawIsOwnImage'
<1>1. \A n : Sectors(n)' = Sectors(n) /\ Whole(n)' = Whole(n)
  BY DEF Sectors, ImageOf, Whole
<1>2. Programmed' = Programmed
  BY <1>1 DEF Programmed
<1>3. RawIsOwnImage => RawIsOwnImage'
  BY <1>1 DEF RawIsOwnImage
<1> QED
  BY <1>1, <1>2, <1>3 DEF Before, AllDone

(* The steps of the parent: they only look at what the child printed.      *)
LEMMA ParentKeeps ==
  ASSUME IInv, Parent
  PROVE  IInv'
<1> USE DEF IInv, parentVars, childVars, devVars
<1>1. CASE FoundEmergency \/ Reopen
  <2>1. UNCHANGED <<ok, waiting, x, filesend, payload, files, toDev, toHost, devVars>>
    BY <1>1 DEF FoundEmergency, Reopen
  <2>2. TypeOK'
    BY <1>1 DEF FoundEmergency, Reopen, StartChild, NoChild, TypeOK
  <2>3. /\ pc' \in {"sahara", "exit"} /\ pc = "exit"
        /\ Fresh
        /\ result' # "failed" => result' = result \/ ~SelfPath
    BY <1>1 DEF FoundEmergency, Reopen, StartChild, NoChild, TypeOK, ChildInv
  <2>4. RawInv' /\ LineInv' /\ CmdInv' /\ SendInv' /\ RawIsOwnImage'
    BY <2>1, <2>3, HostFrame DEF RawInv, LineInv, CmdInv, SendInv, Fresh
  <2>5. ChildInv'
    BY <2>1, <2>3 DEF ChildInv, Fresh, Quiet, IsResponse
  <2>6. OkInv'
    BY <2>1, <2>3, HostFrame DEF OkInv, Says
  <2> QED
    BY <2>2, <2>4, <2>5, <2>6
<1>2. CASE SwitchEmergency
  <2>1. UNCHANGED <<ok, childVars, files, toDev, toHost, raw, num, got, erased, stored, logs>>
    BY <1>2 DEF SwitchEmergency
  <2>2. TypeOK'
    BY <1>2 DEF SwitchEmergency, TypeOK
  <2>3. pc = "exit" /\ Fresh /\ mode' # "off" /\ raw = 0 /\ result' # "ok"
    BY <1>2 DEF SwitchEmergency, TypeOK, ChildInv, Fresh
  <2>4. RawInv' /\ LineInv' /\ CmdInv' /\ SendInv' /\ RawIsOwnImage'
    BY <2>1, <2>3, HostFrame DEF RawInv, LineInv, CmdInv, SendInv, Fresh
  <2>5. ChildInv'
    BY <2>1, <2>3 DEF ChildInv, Fresh, Quiet, IsResponse
  <2>6. OkInv'
    BY <2>1, <2>3, HostFrame DEF OkInv, Says
  <2> QED
    BY <2>2, <2>4, <2>5, <2>6
<1>3. CASE ChildEnded
  <2>1. UNCHANGED <<ok, childVars, files, toDev, toHost, devVars>>
    BY <1>3 DEF ChildEnded
  <2>2. TypeOK'
    BY <1>3 DEF ChildEnded, TypeOK
  <2>3. pc = "exit" /\ ppc' = "done" /\ (result' = "ok" => ok)
    BY <1>3 DEF ChildEnded
  <2>4. RawInv' /\ CmdInv' /\ SendInv' /\ RawIsOwnImage'
    BY <2>1, <2>3, HostFrame DEF RawInv, CmdInv, SendInv
  <2>5. LineInv'
    BY <2>1, HostFrame DEF LineInv
  <2>6. ChildInv'
    BY <2>1, <2>3 DEF ChildInv
  <2>7. OkInv'
    BY <2>1, <2>3, HostFrame DEF OkInv, Says
  <2> QED
    BY <2>2, <2>4, <2>5, <2>6, <2>7
<1> QED
  BY <1>1, <1>2, <1>3 DEF Parent

(* Zero stands for no image and for no line.                               *)
LEMMA Nothing == 0 \in 0..(MaxSectors + 1) /\ 0 \in 0..NumLines
  BY RawProgramAssumption

(* However the child ends, it ends well: what it has told the programmer   *)
(* so far stays told.                                                      *)
LEMMA ExitKeeps ==
  ASSUME IInv, Exit, ppc = "read", toHost' \in Seq(Messages), ok' \in BOOLEAN,
         \A t : Says(t)' => Says(t), ok => ok', ok' => ok \/ Says("resetlog"),
         LineInv', UNCHANGED <<ppc, result, payload, files, devVars>>,
         toDev' \in Seq(Sent)
  PROVE  IInv'
<1> USE DEF IInv, devVars
<1>1. pc' = "exit" /\ x' = 0 /\ filesend' = 0 /\ waiting' = FALSE
  BY DEF Exit, Goto
<1>2. TypeOK'
  BY <1>1, Nothing DEF TypeOK
<1>3. RawInv' /\ CmdInv' /\ ChildInv' /\ SendInv' /\ RawIsOwnImage'
  BY <1>1, HostFrame DEF RawInv, CmdInv, ChildInv, SendInv
<1>4. OkInv'
  BY HostFrame DEF OkInv
<1> QED
  BY <1>2, <1>3, <1>4

(* What is on its way stays in order when the programmer does nothing.     *)
LEMMA LineKeeps ==
  ASSUME LineInv, UNCHANGED <<toDev, files, raw, num, got, erased, stored>>
  PROVE  LineInv'
  BY HostFrame DEF LineInv

(* The loops find the first command that is left, or know that none is.    *)
LEMMA NextProgramKeeps ==
  ASSUME IInv, NEW n \in Nat, NextProgram(n), Erases \subseteq erased,
         \A k \in Programs : k < n => k \in Programmed,
         \A k \in Programs : Sectors(k) # 0,
         ppc = "read", toDev = <<>>, raw = 0, Quiet',
         toHost' \in Seq(Messages), ok' \in BOOLEAN,
         \A t : Says(t)' => Says(t), ok => ok', ok' => ok \/ Says("resetlog"),
         payload' \in Payloads \cup {PerSize},
         UNCHANGED <<ppc, result, files, toDev, devVars>>
  PROVE  IInv'
<1> USE DEF IInv, devVars
<1>1. /\ waiting' = FALSE /\ filesend' = 0
      /\ \/ pc' = "program" /\ x' \in Programs /\ Before(x')
         \/ pc' = "reset" /\ x' = 0 /\ AllDone
  <2>1. CASE \E k \in Programs : First(Programs, n, k) /\ Goto("program", k)
    <3>1. PICK k \in Programs : First(Programs, n, k) /\ Goto("program", k)
      BY <2>1
    <3>2. \A j \in Programs : j < k => j < n
      BY <3>1, RawProgramAssumption DEF First, Programs, FhCmdTable, Lines
    <3> QED
      BY <3>1, <3>2 DEF Goto, Before
  <2>2. CASE (\A k \in Programs : k < n) /\ Goto("reset", 0)
    <3>1. Programmed = Programs
      BY <2>2 DEF Programmed
    <3>2. erased = Erases
      BY DEF TypeOK
    <3> QED
      BY <2>2, <3>1, <3>2 DEF Goto, AllDone
  <2> QED
    BY <2>1, <2>2 DEF NextProgram
<1>2. x' \in 0..NumLines
  BY <1>1, RawProgramAssumption DEF Programs, FhCmdTable, Lines
<1>3. TypeOK'
  BY <1>1, <1>2, Nothing DEF TypeOK
<1>4. ~Says("rawACK")' /\ Once' /\ Fresh'
  BY DEF Quiet, Once, Says, IsResponse, Responses, Fresh
<1>5. RawInv' /\ LineInv' /\ CmdInv' /\ SendInv' /\ RawIsOwnImage'
  BY <1>1, <1>4, HostFrame DEF RawInv, LineInv, CmdInv, SendInv
<1>6. \A k \in Programs : Sectors(k)' # 0
  BY HostFrame
<1>7. ChildInv'
  BY <1>1, <1>4, <1>6, HostFrame DEF ChildInv, Before, AllDone
<1>8. OkInv'
  BY HostFrame DEF OkInv
<1> QED
  BY <1>3, <1>5, <1>7, <1>8

(* The loop of the erases, which ends in that of the programs.             *)
LEMMA NextEraseKeeps ==
  ASSUME IInv, NEW n \in Nat, NextErase(n), 
         \A k \in Erases : k < n => k \in erased,
         \A k \in Programs : Sectors(k) # 0,
         ppc = "read", toDev = <<>>, raw = 0, Quiet',
         toHost' \in Seq(Messages), ok' \in BOOLEAN,
         \A t : Says(t)' => Says(t), ok => ok', ok' => ok \/ Says("resetlog"),
         payload' \in Payloads \cup {PerSize},
         UNCHANGED <<ppc, result, files, toDev, devVars>>
  PROVE  IInv'
<1> USE DEF IInv, devVars
<1>1. CASE \E k \in Erases : First(Erases, n, k) /\ Goto("erase", k)
  <2>1. PICK k \in Erases : First(Erases, n, k) /\ Goto("erase", k)
    BY <1>1
  <2>2. \A j \in Erases : j < k => j \in erased
    BY <2>1, RawProgramAssumption DEF First, Erases, FhCmdTable, Lines
  <2>3. pc' = "erase" /\ x' = k /\ filesend' = 0 /\ waiting' = FALSE
    BY <2>1 DEF Goto
  <2>4. x' \in 0..NumLines
    BY <2>3, RawProgramAssumption DEF Erases, FhCmdTable, Lines
  <2>5. TypeOK'
    BY <2>3, <2>4, Nothing DEF TypeOK
  <2>6. ~Says("rawACK")' /\ ~Says("ACK")' /\ Once' /\ Fresh'
    BY DEF Quiet, Once, Says, IsResponse, Responses, Fresh
  <2>7. RawInv' /\ LineInv' /\ CmdInv' /\ SendInv' /\ RawIsOwnImage'
    BY <2>3, <2>6, HostFrame DEF RawInv, LineInv, CmdInv, SendInv
  <2>8. \A j \in Programs : Sectors(j)' # 0
    BY HostFrame
  <2>9. ChildInv'
    BY <2>2, <2>3, <2>6, <2>8 DEF ChildInv
  <2>10. OkInv'
    BY HostFrame DEF OkInv
  <2> QED
    BY <2>5, <2>7, <2>9, <2>10
<1>2. CASE (\A k \in Erases : k < n) /\ NextProgram(1)
  <2>1. Erases \subseteq erased
    BY <1>2
  <2>2. \A k \in Programs : ~(k < 1)
    BY RawProgramAssumption DEF Programs, FhCmdTable, Lines
  <2> QED
    BY <1>2, <2>1, <2>2, NextProgramKeeps
<1> QED
  BY <1>1, <1>2 DEF NextErase

(* Before the first command.                                               *)
LEMMA StartKeeps ==
  ASSUME IInv, CannotStart \/ SaharaDone \/ FirstRecv
  PROVE  IInv'
<1> USE DEF IInv, parentVars, childVars, devVars
<1>1. CASE CannotStart
  <2>1. \A t : Says(t)' => Says(t)
    BY <1>1 DEF CannotStart, Says
  <2>2. LineInv'
    BY <1>1, LineKeeps DEF CannotStart
  <2>3. /\ ppc = "read" /\ Exit
        /\ UNCHANGED <<ppc, ok, result, payload, files, toDev, toHost, devVars>>
    BY <1>1 DEF CannotStart, TypeOK
  <2>4. toHost' \in Seq(Messages) /\ ok' \in BOOLEAN /\ toDev' \in Seq(Sent)
    BY <2>3 DEF TypeOK
  <2> QED
    BY <2>1, <2>2, <2>3, <2>4, ExitKeeps
<1>2. CASE SaharaDone
  <2>1. /\ pc = "sahara" /\ pc' = "open" /\ waiting' = FALSE /\ x' = 0 /\ filesend' = 0
        /\ mode' \in {"programmer", "emergency", "diag"}
        /\ UNCHANGED <<parentVars, payload, files, toDev, raw, num, got, erased, stored, logs>>
    BY <1>2 DEF SaharaDone, Goto
  <2>2. /\ toHost' \in Seq(Messages) /\ Quiet' /\ ~Says("resetlog")'
    <3>1. Msg("log") \in Messages /\ Msg("junk") \in Messages
      BY DEF Msg, Messages
    <3>2. toHost' = <<>> \/ \E t \in {"log", "junk"} : toHost' = <<Msg(t)>>
      BY <1>2 DEF SaharaDone
    <3>3. CASE toHost' = <<>>
      BY <3>3 DEF Quiet, Says
    <3>4. ASSUME NEW t \in {"log", "junk"}, toHost' = <<Msg(t)>>
          PROVE  /\ toHost' \in Seq(Messages) /\ Quiet' /\ ~Says("resetlog")'
      <4>1. Len(toHost') = 1 /\ toHost'[1].type = t /\ toHost' \in Seq(Messages)
        BY <3>1, <3>4 DEF Msg
      <4> QED
        BY <4>1 DEF Quiet, Says, IsResponse, Responses
    <3> QED
      BY <3>2, <3>3, <3>4
  <2>3. TypeOK'
    BY <2>1, <2>2, Nothing DEF TypeOK
  <2>4. toDev = <<>> /\ raw = 0
    BY <2>1 DEF ChildInv, Fresh
  <2>5. RawInv' /\ LineInv' /\ CmdInv' /\ SendInv' /\ RawIsOwnImage'
    BY <2>1, <2>4, HostFrame DEF RawInv, LineInv, CmdInv, SendInv
  <2>6. ChildInv'
    BY <2>1, <2>2, <2>4 DEF ChildInv, Fresh
  <2>7. OkInv'
    BY <2>1, <2>2, HostFrame DEF OkInv
  <2> QED
    BY <2>3, <2>5, <2>6, <2>7
<1>3. CASE FirstRecv
  <2>1. /\ pc = "open" /\ pc' = "configure" /\ waiting' = FALSE /\ x' = 0 /\ filesend' = 0
        /\ UNCHANGED <<ppc, result, payload, files, toDev, devVars>>
        /\ \A n \in Programs : Sectors(n) # 0
    BY <1>3 DEF FirstRecv, Goto, Prepared, Read
  <2>2. Fresh
    BY <2>1 DEF ChildInv
  <2>3. /\ toHost' \in Seq(Messages) /\ ok' \in BOOLEAN
        /\ \A t : Says(t)' => Says(t)
        /\ Quiet'
        /\ ok => ok'
        /\ ok' => ok \/ Says("resetlog")
    <3>1. toHost \in Seq(Messages) /\ ok \in BOOLEAN /\ Quiet
      BY <2>2 DEF TypeOK, Fresh
    <3>2. CASE UNCHANGED <<toHost, ok>>
      BY <3>1, <3>2 DEF Says, Quiet, IsResponse
    <3>3. CASE \E k \in Batches : Read(k)
      BY <3>1, <3>3, ReadKeeps
    <3> QED
      BY <1>3, <3>2, <3>3 DEF FirstRecv
  <2>4. TypeOK'
    BY <2>1, <2>3, Nothing DEF TypeOK
  <2>5. RawInv' /\ LineInv' /\ SendInv' /\ RawIsOwnImage'
    BY <2>1, <2>2, HostFrame DEF RawInv, LineInv, SendInv, Fresh
  <2>6. CmdInv'
    BY <2>1, <2>2, <2>3 DEF CmdInv, Fresh, Once, Quiet
  <2>7. \A n \in Programs : Sectors(n)' # 0
    BY <2>1, HostFrame
  <2>8. ppc = "read"
    BY <2>1 DEF TypeOK
  <2>9. ChildInv'
    BY <2>1, <2>2, <2>7, <2>8 DEF ChildInv, Fresh
  <2>10. OkInv'
    BY <2>1, <2>3, HostFrame DEF OkInv
  <2> QED
    BY <2>4, <2>5, <2>6, <2>9, <2>10
<1> QED
  BY <1>1, <1>2, <1>3

(* A command is sent only when nothing else is on its way.                 *)
LEMMA SendCmdKeeps ==
  ASSUME IInv, SendCmd
  PROVE  IInv'
<1> USE DEF IInv, parentVars, childVars, devVars
<1>1. /\ pc \in {"configure", "erase", "program", "reset"} /\ ~waiting /\ waiting' = TRUE
      /\ UNCHANGED <<pc, x, filesend, payload, parentVars, files, toHost, devVars>>
  BY DEF SendCmd
<1>2. Fresh
  BY <1>1 DEF CmdInv
<1>3. PICK c : /\ c = IF pc = "reset" THEN FhReset ELSE FhSendCmd
               /\ toDev' \in {toDev, Append(toDev, c)}
  BY DEF SendCmd
<1>4. /\ c \in Sent /\ c.type = pc
      /\ pc = "erase" => c.line = x
      /\ pc = "program" => c.line = x /\ c.from = Sectors(x)
  <2>1. x \in Nat
    BY RawProgramAssumption DEF TypeOK
  <2>2. pc = "program" => Sectors(x) \in Nat
    BY SectorsType, RawProgramAssumption DEF TypeOK, ChildInv
  <2>3. CASE pc = "reset"
    BY <1>3, <2>3 DEF FhReset, Cmd, Sent
  <2>4. CASE pc = "program"
    BY <1>3, <2>1, <2>2, <2>4 DEF FhSendCmd, Cmd, Sent
  <2>5. CASE pc \in {"configure", "erase"}
    BY <1>3, <2>1, <2>5 DEF FhSendCmd, Cmd, Sent
  <2> QED
    BY <1>1, <2>3, <2>4, <2>5
<1>5. toDev' = <<>> \/ toDev' = <<c>>
  BY <1>2, <1>3, <1>4 DEF Fresh
<1>6. toDev' \in Seq(Sent) /\ (toDev' # <<>> => Len(toDev') = 1 /\ toDev'[1] = c)
  <2>1. CASE toDev' = <<>>
    BY <2>1
  <2>2. CASE toDev' = <<c>>
    BY <1>4, <2>2
  <2> QED
    BY <1>5, <2>1, <2>2
<1>7. TypeOK'
  BY <1>1, <1>6 DEF TypeOK
<1>8. RawInv' /\ RawIsOwnImage' /\ SendInv'
  BY <1>1, HostFrame DEF RawInv, SendInv
<1>9. LineInv'
  <2>1. pc = "program" => x \in Programs /\ Before(x) /\ Sectors(x) # 0
    BY DEF ChildInv
  <2>2. pc = "erase" => x \in Erases
    BY DEF ChildInv
  <2>3. pc = "reset" => AllDone
    BY DEF ChildInv
  <2> QED
    BY <1>1, <1>2, <1>4, <1>6, <2>1, <2>2, <2>3, HostFrame DEF LineInv, Fresh
<1>10. CmdInv'
  BY <1>1, <1>2, <1>4, <1>6 DEF CmdInv, Fresh, Quiet, Once, IsResponse
<1>11. ChildInv'
  <2>1. \A n \in Programs : Sectors(n)' # 0
    BY <1>1, HostFrame DEF ChildInv
  <2>2. ppc = "read"
    BY <1>1 DEF TypeOK
  <2> QED
    BY <1>1, <2>1, <2>2, HostFrame DEF ChildInv, Says
<1>12. OkInv'
  BY <1>1, HostFrame DEF OkInv, Says
<1> QED
  BY <1>7, <1>8, <1>9, <1>10, <1>11, <1>12

(* Reads that find no response: logs are waited out, the rest ends it.     *)
LEMMA WaitKeeps ==
  ASSUME IInv, OnlyLogs \/ NeitherOfBoth \/ Timeout
  PROVE  IInv'
<1> USE DEF IInv, parentVars, childVars, devVars
<1>1. toHost \in Seq(Messages) /\ ok \in BOOLEAN /\ toDev \in Seq(Sent)
  BY DEF TypeOK
<1>2. toDev = <<>> /\ waiting /\ ppc = "read"
  BY DEF OnlyLogs, NeitherOfBoth, Timeout, Listening, ChildInv, TypeOK
<1>3. CASE OnlyLogs
  <2>1. /\ toHost' \in Seq(Messages) /\ ok' \in BOOLEAN
        /\ \A t : Says(t)' => Says(t)
        /\ Quiet => Quiet'
        /\ Once => Once'
        /\ ok => ok'
        /\ ok' => ok \/ Says("resetlog")
        /\ UNCHANGED <<ppc, result, childVars, files, toDev, devVars>>
    <3>1. PICK k \in Batches : Read(k)
      BY <1>3 DEF OnlyLogs
    <3>2. UNCHANGED <<ppc, result, childVars, files, toDev, devVars>>
      BY <1>3, <3>1 DEF OnlyLogs, Read
    <3> QED
      BY <1>1, <3>1, <3>2, ReadKeeps
  <2>2. TypeOK'
    BY <2>1 DEF TypeOK
  <2>3. RawInv' /\ LineInv' /\ RawIsOwnImage' /\ OkInv'
    <3>1. RawInv' /\ RawIsOwnImage'
      BY <2>1, HostFrame DEF RawInv
    <3>2. LineInv'
      BY <1>2, <2>1 DEF LineInv
    <3>3. OkInv'
      BY <2>1, HostFrame DEF OkInv
    <3> QED
      BY <3>1, <3>2, <3>3
  <2>4. CmdInv'
    BY <1>2, <2>1 DEF CmdInv
  <2>5. \A n \in Programs : pc \in {"configure", "erase", "program", "raw", "reset"} =>
            Sectors(n)' # 0
    BY <2>1, HostFrame DEF ChildInv
  <2>6. ChildInv'
    BY <1>2, <2>1, <2>5, HostFrame DEF ChildInv
  <2>7. SendInv'
    BY <1>2, <2>1, HostFrame DEF SendInv
  <2> QED
    BY <2>2, <2>3, <2>4, <2>6, <2>7
<1>4. CASE NeitherOfBoth
  <2>1. PICK k \in Batches : Read(k)
    BY <1>4 DEF NeitherOfBoth
  <2>2. Exit /\ UNCHANGED <<ppc, result, payload, files, toDev, devVars>>
    BY <1>4, <2>1 DEF NeitherOfBoth, Read
  <2>3. LineInv'
    BY <1>2, <2>2 DEF LineInv
  <2> QED
    BY <1>1, <1>2, <2>1, <2>2, <2>3, ReadKeeps, ExitKeeps
<1>5. CASE Timeout
  <2>1. Exit /\ UNCHANGED <<payload, parentVars, files, toDev, toHost, devVars>>
    BY <1>5 DEF Timeout
  <2>2. \A t : Says(t)' => Says(t)
    BY <2>1 DEF Says
  <2>3. LineInv'
    BY <1>2, <2>1 DEF LineInv
  <2> QED
    BY <1>1, <1>2, <2>1, <2>2, <2>3, ExitKeeps
<1> QED
  BY <1>3, <1>4, <1>5

(* What any answer to a command leaves to the step that reads it.          *)
LEMMA AnsweredByKeeps ==
  ASSUME IInv, NEW types \in SUBSET Responses, AnsweredBy(types),
         pc \in {"configure", "erase", "program", "raw", "reset"}
  PROVE  /\ toHost' \in Seq(Messages) /\ ok' \in BOOLEAN
         /\ ok => ok'
         /\ ok' => ok \/ Says("resetlog")
         /\ \A t : Says(t)' => Says(t)
         /\ Quiet' /\ ~Quiet
         /\ \E t \in types : Says(t)
         /\ toDev = <<>> /\ ppc = "read"
         /\ UNCHANGED <<ppc, result>>
<1>1. Once
  BY DEF IInv, CmdInv, SendInv
<1>2. toHost \in Seq(Messages) /\ ok \in BOOLEAN /\ ppc = "read"
  BY DEF IInv, TypeOK
<1>3. PICK r \in Messages : r.type \in types /\ Answered(r)
  BY DEF AnsweredBy
<1>4. ~Quiet
  BY <1>1, <1>2, <1>3, AnsweredKeeps DEF Quiet, Says, IsResponse
<1> QED
  BY <1>1, <1>2, <1>3, <1>4, AnsweredKeeps

(* An answer lets the child go on, and it is the one it waits for.         *)
LEMMA AnswersKeep ==
  ASSUME IInv, Configured \/ Erased \/ ProgramAccepted \/ ProgramDone
  PROVE  IInv'
<1> USE DEF IInv, parentVars, childVars, devVars
<1>1. payload \in Payloads \cup {PerSize}
  BY DEF TypeOK
<1>2. pc \in {"configure", "erase", "program", "raw", "reset"} =>
         \A n \in Programs : Sectors(n) # 0
  BY DEF ChildInv
<1>3. CASE Configured
  <2>1. PICK r \in Messages :
          Answered(r) /\ payload' = IF r.payload = 0 THEN payload ELSE r.payload
    BY <1>3 DEF Configured
  <2>2. /\ pc = "configure" /\ NextErase(1) /\ UNCHANGED <<files, toDev, devVars>>
    BY <1>3 DEF Configured
  <2>3. r.type \in Responses
    BY <2>1, <2>2, AnsweredKeeps DEF CmdInv, TypeOK
  <2>4. AnsweredBy(Responses)
    BY <2>1, <2>3 DEF AnsweredBy
  <2>5. payload' \in Payloads \cup {PerSize}
    BY <1>1, <2>1 DEF Messages
  <2>6. \A k \in Erases : k < 1 => k \in erased
    BY RawProgramAssumption DEF Erases, FhCmdTable, Lines
  <2>7. raw = 0
    BY <2>2 DEF ChildInv
  <2> QED
    BY <1>2, <2>2, <2>4, <2>5, <2>6, <2>7, AnsweredByKeeps, NextEraseKeeps
<1>4. CASE Erased
  <2>1. /\ pc = "erase" /\ AnsweredBy({"ACK", "rawACK"}) /\ NextErase(x + 1)
        /\ UNCHANGED <<payload, files, toDev, devVars>>
    BY <1>4 DEF Erased
  <2>2. \E t \in {"ACK", "rawACK"} : Says(t)
    BY <2>1, AnsweredByKeeps DEF Responses
  <2>3. x \in Erases /\ x \in erased /\ raw = 0 /\ \A k \in Erases : k < x => k \in erased
    BY <2>1, <2>2 DEF ChildInv
  <2>4. \A k \in Erases : k < x + 1 => k \in erased
    BY <2>3, RawProgramAssumption DEF Erases, FhCmdTable, Lines
  <2>5. x + 1 \in Nat
    BY <2>3, RawProgramAssumption DEF Erases, FhCmdTable, Lines
  <2>6. {"ACK", "rawACK"} \in SUBSET Responses
    BY DEF Responses
  <2> QED
    BY <1>1, <1>2, <2>1, <2>3, <2>4, <2>5, <2>6, AnsweredByKeeps, NextEraseKeeps
<1>5. CASE ProgramAccepted
  <2>1. /\ pc = "program" /\ AnsweredBy({"rawACK"})
        /\ pc' = "raw" /\ x' = x /\ filesend' = 0 /\ waiting' = FALSE
        /\ UNCHANGED <<payload, files, toDev, devVars>>
    BY <1>5 DEF ProgramAccepted, Goto
  <2>2. {"rawACK"} \in SUBSET Responses
    BY DEF Responses
  <2>3. /\ toHost' \in Seq(Messages) /\ ok' \in BOOLEAN
        /\ ok => ok'
        /\ ok' => ok \/ Says("resetlog")
        /\ \A t : Says(t)' => Says(t)
        /\ Quiet'
        /\ Says("rawACK")
        /\ toDev = <<>> /\ ppc = "read"
        /\ UNCHANGED <<ppc, result>>
    BY <2>1, <2>2, AnsweredByKeeps
  <2>4. x \in Programs /\ Before(x) /\ raw = x /\ raw # 0 /\ got = <<>>
    <3>1. x \in Programs /\ Before(x) /\ raw = x /\ (raw # 0 => got = <<>>)
      BY <2>1, <2>3 DEF ChildInv
    <3>2. x # 0
      BY <3>1, RawProgramAssumption DEF Programs, FhCmdTable, Lines
    <3> QED
      BY <3>1, <3>2
  <2>5. TypeOK'
    BY <2>1, <2>3, Nothing DEF TypeOK
  <2>6. RawInv' /\ LineInv' /\ CmdInv' /\ RawIsOwnImage' /\ OkInv'
    <3>1. RawInv' /\ RawIsOwnImage'
      BY <2>1, HostFrame DEF RawInv
    <3>2. LineInv' /\ CmdInv'
      BY <2>1, <2>3 DEF LineInv, CmdInv
    <3>3. OkInv'
      BY <2>1, <2>3, HostFrame DEF OkInv
    <3> QED
      BY <3>1, <3>2, <3>3
  <2>7. ChildInv'
    BY <1>2, <2>1, <2>3, HostFrame DEF ChildInv
  <2>8. Len(got) = 0 /\ Once'
    BY <2>3, <2>4 DEF Once, Quiet
  <2>9. SendInv'
    BY <2>1, <2>3, <2>4, <2>8, HostFrame DEF SendInv
  <2> QED
    BY <2>5, <2>6, <2>7, <2>9
<1>6. CASE ProgramDone
  <2>1. /\ pc = "raw" /\ AnsweredBy({"ACK"}) /\ NextProgram(x + 1)
        /\ UNCHANGED <<payload, files, toDev, devVars>>
    BY <1>6 DEF ProgramDone
  <2>2. {"ACK"} \in SUBSET Responses
    BY DEF Responses
  <2>3. Says("ACK") /\ ~Quiet
    BY <2>1, <2>2, AnsweredByKeeps
  <2>4. raw = 0 /\ x \in Programs /\ x \in Programmed /\ Before(x)
    BY <2>1, <2>3 DEF SendInv
  <2>5. /\ Erases \subseteq erased /\ x + 1 \in Nat
        /\ \A k \in Programs : k < x + 1 => k \in Programmed
    BY <2>4, RawProgramAssumption DEF Before, Programs, FhCmdTable, Lines
  <2> QED
    BY <1>1, <1>2, <2>1, <2>2, <2>4, <2>5, AnsweredByKeeps, NextProgramKeeps
<1> QED
  BY <1>3, <1>4, <1>5, <1>6

(* A refusal, or the answer to the reset, ends the child.                  *)
LEMMA EndsKeep ==
  ASSUME IInv, Refused \/ ResetAnswered
  PROVE  IInv'
<1>1. PICK types \in SUBSET Responses : AnsweredBy(types)
  BY DEF Refused, ResetAnswered, Responses
<1>2. /\ pc \in {"configure", "erase", "program", "raw", "reset"}
      /\ Exit /\ UNCHANGED <<payload, files, toDev, devVars>>
  BY DEF Refused, ResetAnswered
<1>3. toDev = <<>>
  BY <1>1, <1>2, AnsweredByKeeps
<1>4. LineInv' /\ toDev' \in Seq(Sent)
  BY <1>2, <1>3 DEF LineInv
<1> QED
  BY <1>1, <1>2, <1>4, AnsweredByKeeps, ExitKeeps

(* The image, piece by piece.                                              *)
LEMMA RawModeKeeps ==
  ASSUME IInv, SendPiece \/ PieceFails \/ ImageSent
  PROVE  IInv'
<1> USE DEF IInv, parentVars, childVars, devVars
<1>1. /\ pc = "raw" /\ ppc = "read"
      /\ UNCHANGED <<parentVars, payload, files, toHost, devVars>>
  BY DEF SendPiece, PieceFails, ImageSent, TypeOK
<1>2. /\ x \in Programs /\ x \in Nat /\ ImageOf(x) \in Image
      /\ Sectors(x) = FixupProgramCmd(ImageOf(x)) /\ Sectors(x) \in 0..(MaxSectors + 1)
      /\ filesend \in Nat
  <2>1. x \in Programs
    BY <1>1 DEF SendInv
  <2>2. x \in Nat /\ filesend \in Nat
    BY RawProgramAssumption DEF TypeOK
  <2> QED
    BY <2>1, <2>2, SectorsType DEF TypeOK, Sectors
<1>3. /\ toHost' \in Seq(Messages) /\ ok' \in BOOLEAN
      /\ \A t : Says(t)' => Says(t)
  BY <1>1 DEF TypeOK, Says
<1>4. CASE SendPiece
  <2> DEFINE reads  == Reads(ImageOf(x), filesend, Most)
             writes == UsbfsBulkWrite(reads)
  <2>1. /\ MoreToSend(ImageOf(x), filesend) /\ toDev = <<>>
        /\ toDev' = <<Piece(x, filesend, writes)>>
        /\ \/ /\ reads = writes /\ filesend' = filesend + reads
              /\ UNCHANGED <<pc, waiting, x>>
           \/ Exit
    BY <1>4 DEF SendPiece
  <2>2. Most \in Nat \ {0}
    BY FirehoseAssumption, RawProgramAssumption DEF Most, TypeOK
  <2>3. /\ filesend < Sectors(x)
        /\ reads \in Nat \ {0} /\ filesend + reads <= Sectors(x)
    BY <1>2, <2>1, <2>2, ReadsFit
  <2>4. writes \in Nat \ {0} /\ writes <= reads
    BY <2>3, WritesFit
  <2> HIDE DEF reads, writes
  <2>5. /\ raw = x /\ raw # 0 /\ Quiet /\ filesend = Len(got)
        /\ num = Sectors(x)
    <3>1. raw # 0
      BY <1>1, <1>2, <2>3 DEF SendInv
    <3>2. raw = x /\ Quiet /\ filesend = Len(got) + 0
      BY <1>1, <2>1, <3>1 DEF SendInv
    <3>3. filesend = Len(got)
      BY <3>2, <1>2 DEF TypeOK
    <3> QED
      BY <3>1, <3>2, <3>3 DEF RawInv
  <2>6. PICK a : a = Piece(x, filesend, writes)
    OBVIOUS
  <2>7. /\ a \in Sent /\ a.type = "piece" /\ a.line = x /\ a.from = filesend
        /\ a.many = writes
    BY <1>2, <2>4, <2>6 DEF Piece, Sent
  <2>8. toDev' \in Seq(Sent) /\ toDev' # <<>> /\ Len(toDev') = 1 /\ toDev'[1] = a
    BY <2>1, <2>6, <2>7
  <2>9. Len(got) + writes <= num
    BY <1>2, <2>3, <2>4, <2>5
  <2>10. LineInv'
    BY <1>1, <2>4, <2>5, <2>7, <2>8, <2>9 DEF LineInv
  <2>11. CASE Exit
    BY <1>1, <1>3, <2>8, <2>10, <2>11, ExitKeeps
  <2>12. CASE reads = writes /\ filesend' = filesend + reads /\ UNCHANGED <<pc, waiting, x>>
    <3>1. filesend' \in 0..(MaxSectors + 1)
      BY <1>2, <2>3, <2>12, RawProgramAssumption
    <3>2. TypeOK'
      BY <1>1, <1>3, <2>8, <2>12, <3>1 DEF TypeOK
    <3>3. RawInv' /\ RawIsOwnImage' /\ CmdInv'
      BY <1>1, <2>12, HostFrame DEF RawInv, CmdInv
    <3>4. OkInv'
      BY <1>1, <1>3, HostFrame DEF OkInv
    <3>5. ChildInv'
      BY <1>1, <2>12, HostFrame DEF ChildInv
    <3>6. Quiet' /\ Once'
      BY <1>1, <2>5 DEF Quiet, Once, IsResponse
    <3>7. SendInv'
      BY <1>1, <2>5, <2>7, <2>8, <2>12, <3>6, HostFrame DEF SendInv
    <3> QED
      BY <2>10, <3>2, <3>3, <3>4, <3>5, <3>7
  <2> QED
    BY <2>1, <2>11, <2>12
<1>5. CASE PieceFails
  <2>1. Exit /\ UNCHANGED <<payload, parentVars, files, toDev, toHost, devVars>>
    BY <1>5 DEF PieceFails
  <2>2. LineInv' /\ toDev' \in Seq(Sent)
    BY <2>1, LineKeeps DEF TypeOK
  <2> QED
    BY <1>1, <1>3, <2>1, <2>2, ExitKeeps
<1>6. CASE ImageSent
  <2>1. /\ waiting' = TRUE
        /\ UNCHANGED <<pc, x, filesend, payload, parentVars, files, toDev, toHost, devVars>>
    BY <1>6 DEF ImageSent
  <2>2. TypeOK' /\ RawInv' /\ RawIsOwnImage' /\ CmdInv'
    BY <1>1, <2>1, HostFrame DEF TypeOK, RawInv, CmdInv
  <2>3. LineInv'
    BY <2>1, LineKeeps
  <2>4. ChildInv'
    BY <1>1, <2>1, HostFrame DEF ChildInv
  <2>5. SendInv'
    BY <1>1, <2>1, HostFrame DEF SendInv, Quiet, Once, Says, IsResponse
  <2>6. OkInv'
    BY <1>1, <1>3, HostFrame DEF OkInv
  <2> QED
    BY <2>2, <2>3, <2>4, <2>5, <2>6
<1> QED
  BY <1>4, <1>5, <1>6

(* All steps of the child.                                                 *)
LEMMA ChildKeeps ==
  ASSUME IInv, Child
  PROVE  IInv'
  BY StartKeeps, SendCmdKeeps, WaitKeeps, AnswersKeep, EndsKeep, RawModeKeeps DEF Child

-----------------------------------------------------------------------------
(* The steps of the programmer. *)

(* What has been carried out stays so.                                     *)
LEMMA DoneStays ==
  ASSUME UNCHANGED files, erased \subseteq erased', stored \subseteq stored',
         erased' \subseteq Erases
  PROVE  /\ Programmed \subseteq Programmed'
         /\ \A n : Sectors(n)' = Sectors(n) /\ Whole(n)' = Whole(n)
         /\ \A n : Before(n) => Before(n)'
         /\ AllDone => AllDone'
<1>1. \A n : Sectors(n)' = Sectors(n) /\ Whole(n)' = Whole(n)
  BY DEF Sectors, ImageOf, Whole
<1>2. Programmed \subseteq Programmed'
  BY <1>1 DEF Programmed
<1>3. Programmed' \subseteq Programs
  BY DEF Programmed
<1> QED
  BY <1>1, <1>2, <1>3 DEF Before, AllDone

(* What the programmer takes is the one thing on its way, and the command  *)
(* the child waits for.                                                    *)
LEMMA TakeFacts ==
  ASSUME IInv, Take
  PROVE  /\ toDev # <<>> /\ toDev' = <<>>
         /\ Arg = toDev[1] /\ Arg \in Sent
         /\ pc \notin {"sahara", "open"} /\ ppc \notin {"start", "reopen"}
         /\ pc \in {"configure", "erase", "program", "reset"} =>
               waiting /\ Quiet /\ Arg.type = pc
         /\ pc \in {"erase", "program"} => Arg.line = x
         /\ pc = "raw" => Arg.type = "piece"
         /\ UNCHANGED <<parentVars, childVars, files, logs>>
<1>1. toDev # <<>> /\ toDev' = Tail(toDev) /\ UNCHANGED <<parentVars, childVars, files, logs>>
  BY DEF Take
<1>2. toDev \in Seq(Sent) /\ Len(toDev) = 1
  BY <1>1 DEF IInv, TypeOK, LineInv
<1>3. toDev' = <<>> /\ Arg = toDev[1] /\ Arg \in Sent
  BY <1>1, <1>2 DEF Arg
<1> QED
  BY <1>1, <1>3 DEF IInv, ChildInv, CmdInv, SendInv, Fresh

(* The types after a step that takes something.                            *)
LEMMA TakeTypes ==
  ASSUME IInv, Take, toHost' \in Seq(Messages),
         mode' \in {"diag", "emergency", "programmer", "off"},
         raw' \in Programs \cup {0}, num' \in 0..(MaxSectors + 1), got' \in Seq(Nat \X Nat),
         erased' \subseteq Erases, stored' \subseteq Programs \X Seq(Nat \X Nat)
  PROVE  TypeOK'
<1>1. toDev' \in Seq(Sent)
  BY TakeFacts
<1> QED
  BY <1>1, TakeFacts DEF IInv, TypeOK, parentVars, childVars

(* What a step that takes something has to show, and what follows.         *)
LEMMA TakeKeeps ==
  ASSUME IInv, Take, TypeOK', RawInv', RawIsOwnImage', SendInv',
         erased \subseteq erased', stored \subseteq stored',
         Quiet => Once',
         Says("resetlog")' => Says("resetlog") \/ AllDone,
         mode' = "off" => mode = "off" \/ AllDone,
         pc \in {"configure", "erase", "reset"} => raw' = 0,
         pc = "erase" => (Says("ACK")' \/ Says("rawACK")' => x \in erased'),
         pc = "program" => /\ raw' # 0 => raw' = x /\ got' = <<>>
                           /\ Says("rawACK")' => raw' = x
  PROVE  IInv'
<1>1. /\ toDev' = <<>>
      /\ pc \notin {"sahara", "open"} /\ ppc \notin {"start", "reopen"}
      /\ pc \in {"configure", "erase", "program", "reset"} => waiting /\ Quiet
      /\ UNCHANGED <<ppc, ok, result, pc, waiting, x, files>>
  BY TakeFacts DEF parentVars, childVars
<1>2. erased' \subseteq Erases
  BY DEF TypeOK
<1>3. LineInv' /\ CmdInv'
  BY <1>1 DEF LineInv, CmdInv
<1>4. pc \in {"configure", "erase", "program", "raw", "reset"} =>
         \A n \in Programs : Sectors(n)' # 0
  BY <1>1, <1>2, DoneStays DEF IInv, ChildInv
<1>5. ChildInv'
  <2>1. \A k \in Erases : k \in erased => k \in erased'
    OBVIOUS
  <2>2. pc = "erase" => x \in Erases /\ \A k \in Erases : k < x => k \in erased'
    BY <2>1 DEF IInv, ChildInv
  <2>3. pc = "program" => x \in Programs /\ Before(x)'
    BY <1>1, <1>2, DoneStays DEF IInv, ChildInv, Before
  <2>4. pc = "reset" => AllDone'
    BY <1>1, <1>2, DoneStays DEF IInv, ChildInv
  <2>5. waiting => pc \notin {"sahara", "open", "exit"}
    BY DEF IInv, ChildInv
  <2> QED
    BY <1>1, <1>4, <2>2, <2>3, <2>4, <2>5 DEF ChildInv
<1>6. OkInv'
  BY <1>1, <1>2, DoneStays DEF IInv, OkInv
<1> QED
  BY <1>3, <1>5, <1>6 DEF IInv

(* Answers that carry no news.                                             *)
LEMMA SayOne ==
  ASSUME toHost \in Seq(Messages), NEW m \in Messages, Say(<<m>>)
  PROVE  /\ toHost' \in Seq(Messages)
         /\ \A t : Says(t)' => Says(t) \/ m.type = t
         /\ Quiet => Once'
<1>1. <<m>> \in Seq(Messages) /\ Len(<<m>>) = 1 /\ \A i \in 1..1 : <<m>>[i] = m
  OBVIOUS
<1>2. PICK q : q = <<m>>
  OBVIOUS
<1>3. /\ q \in Seq(Messages) /\ Say(q) /\ \A i \in 1..Len(q) : i = 1 /\ q[i] = m
  BY <1>1, <1>2
<1> QED
  BY <1>3, SayKeeps

(* Messages of the programmer are messages.                                *)
LEMMA MsgType ==
  ASSUME NEW t \in Responses \cup {"log", "resetlog", "junk"}
  PROVE  Msg(t) \in Messages /\ Msg(t).type = t
  BY DEF Msg, Messages

(* A response that does not answer the erase or program that is waited for *)
(* with a yes leaves the invariant of raw mode alone where no image is     *)
(* under way.                                                              *)
LEMMA NotRaw ==
  ASSUME IInv, Take, Arg.type # "piece"
  PROVE  SendInv' /\ pc # "raw"
<1>1. pc # "raw" /\ pc' = pc
  BY TakeFacts DEF childVars
<1> QED
  BY <1>1 DEF SendInv

(* The programmer carries out configure, erase and program, or says no.    *)
LEMMA CommandsKeep ==
  ASSUME IInv, DevConfigure \/ DevErase \/ DevProgram
  PROVE  IInv'
<1> USE DEF IInv, parentVars, childVars
<1>1. /\ mode = "programmer" /\ raw = 0 /\ Take
      /\ Arg.type \in {"configure", "erase", "program"} /\ UNCHANGED mode
  BY DEF DevConfigure, DevErase, DevProgram, TakeCmd
<1>2. toHost \in Seq(Messages)
  BY DEF TypeOK
<1>3. SendInv' /\ pc # "raw"
  BY <1>1, NotRaw
<1>4. CASE DevConfigure
  <2>1. /\ Arg.type = "configure"
        /\ UNCHANGED <<raw, num, got, erased, stored>>
    BY <1>4 DEF DevConfigure, TakeCmd
  <2>2. PICK m \in Messages : Say(<<m>>) /\ m.type \in {"ACK", "NAK"}
    BY <1>4 DEF DevConfigure, Messages, Responses
  <2>3. TypeOK'
    <3>1. toHost' \in Seq(Messages)
      BY <1>2, <2>2, SayOne
    <3> QED
      BY <1>1, <2>1, <3>1, TakeTypes DEF TypeOK
  <2>4. RawInv' /\ RawIsOwnImage'
    BY <1>1, <2>1, HostFrame, TakeFacts DEF RawInv
  <2>5. pc \notin {"erase", "program"}
    BY <1>1, <2>1, TakeFacts
  <2>6. Says("resetlog")' => Says("resetlog")
    BY <1>2, <2>2, SayOne
  <2> QED
    BY <1>1, <1>2, <1>3, <2>1, <2>2, <2>3, <2>4, <2>5, <2>6, SayOne, TakeKeeps
<1>5. CASE DevErase
  <2>1. /\ Arg.type = "erase" /\ erased' = erased \cup {Arg.line} /\ Say(<<Msg("ACK")>>)
        /\ UNCHANGED <<raw, num, got, stored>>
    BY <1>5 DEF DevErase, TakeCmd
  <2>2. Msg("ACK") \in Messages /\ Msg("ACK").type = "ACK"
    BY MsgType DEF Responses
  <2>3. Arg.line \in Erases
    BY <1>1, <2>1, TakeFacts DEF LineInv
  <2>4. TypeOK'
    <3>1. toHost' \in Seq(Messages)
      BY <1>2, <2>1, <2>2, SayOne
    <3>2. erased' \subseteq Erases
      BY <2>1, <2>3 DEF TypeOK
    <3> QED
      BY <1>1, <2>1, <3>1, <3>2, TakeTypes DEF TypeOK
  <2>5. RawInv'
    BY <1>1, <2>1 DEF RawInv
  <2>6. RawIsOwnImage'
    BY <1>1, <2>1, TakeFacts DEF RawIsOwnImage, Whole, Sectors, ImageOf
  <2>7. pc # "program" /\ (pc = "erase" => x \in erased')
    BY <1>1, <2>1, TakeFacts
  <2>8. Says("resetlog")' => Says("resetlog")
    BY <1>2, <2>1, <2>2, SayOne
  <2> QED
    BY <1>1, <1>2, <1>3, <2>1, <2>2, <2>4, <2>5, <2>6, <2>7, <2>8, SayOne, TakeKeeps
<1>6. CASE DevProgram
  <2>1. /\ Arg.type = "program" /\ raw' = Arg.line /\ num' = Arg.from /\ got' = <<>>
        /\ Say(<<Msg("rawACK")>>) /\ UNCHANGED <<mode, erased, stored>>
    BY <1>6 DEF DevProgram, TakeCmd
  <2>2. Msg("rawACK") \in Messages /\ Msg("rawACK").type = "rawACK"
    BY MsgType DEF Responses
  <2>3. /\ Arg.line \in Programs /\ Arg.from = Sectors(Arg.line) /\ Arg.from # 0
        /\ Before(Arg.line)
    BY <1>1, <2>1, TakeFacts DEF LineInv
  <2>4. num' \in 0..(MaxSectors + 1) /\ raw' \in Nat
    BY <2>1, <2>3, SectorsType, RawProgramAssumption DEF TypeOK, Programs, FhCmdTable, Lines
  <2>5. TypeOK'
    <3>1. toHost' \in Seq(Messages)
      BY <1>2, <2>1, <2>2, SayOne
    <3>2. got' \in Seq(Nat \X Nat) /\ raw' \in Programs \cup {0}
      BY <2>1, <2>3
    <3> QED
      BY <1>1, <2>1, <2>4, <3>1, <3>2, TakeTypes DEF TypeOK
  <2>6. UNCHANGED files
    BY <1>1, TakeFacts
  <2>7. RawInv'
    <3>1. Len(got') = 0 /\ 0 < num'
      BY <2>1, <2>3, <2>4
    <3>2. got' = Pre(raw', 0)
      <4>1. PICK p : p = Pre(raw', 0)
        OBVIOUS
      <4>2. p \in Seq(Nat \X Nat) /\ Len(p) = 0
        BY <2>4, <4>1, PreGrows
      <4> QED
        BY <2>1, <4>1, <4>2, EmptySeq
    <3>3. num' = Sectors(raw)'
      BY <2>1, <2>3, <2>6 DEF Sectors, ImageOf
    <3>4. Before(raw)'
      BY <2>1, <2>3, <2>6 DEF Before, Programmed, Whole, Sectors, ImageOf
    <3> QED
      BY <1>1, <2>1, <2>3, <3>1, <3>2, <3>3, <3>4 DEF RawInv
  <2>8. RawIsOwnImage'
    BY <2>1, <2>6 DEF RawIsOwnImage, Whole, Sectors, ImageOf
  <2>9. pc \notin {"configure", "erase", "reset"} /\ (pc = "program" => raw' = x)
    BY <1>1, <2>1, TakeFacts
  <2>10. Says("resetlog")' => Says("resetlog")
    BY <1>2, <2>1, <2>2, SayOne
  <2> QED
    BY <1>1, <1>2, <1>3, <2>1, <2>2, <2>5, <2>7, <2>8, <2>9, <2>10, SayOne, TakeKeeps
<1> QED
  BY <1>4, <1>5, <1>6

(* The piece that completes an image stores it whole, or not at all.       *)
LEMMA RawKeeps ==
  ASSUME IInv, DevRaw
  PROVE  IInv'
<1> USE DEF IInv, parentVars, childVars
<1>1. /\ mode = "programmer" /\ raw # 0 /\ Take /\ UNCHANGED <<mode, erased>>
  BY DEF DevRaw
<1>2. toHost \in Seq(Messages)
  BY DEF TypeOK
<1>3. /\ Arg \in Sent /\ Arg.type = "piece" /\ Arg.line = raw /\ Arg.from = Len(got)
      /\ Arg.many # 0 /\ Len(got) + Arg.many <= num
  BY <1>1, TakeFacts DEF LineInv
<1>4. /\ raw \in Programs /\ raw \in Nat /\ num = Sectors(raw) /\ num \in Nat
      /\ got = Pre(raw, Len(got)) /\ Before(raw)
      /\ Arg.many \in Nat /\ Len(got) \in Nat
  BY <1>1, <1>3, RawProgramAssumption DEF RawInv, TypeOK, Sent, Programs, FhCmdTable, Lines
<1>5. PICK m : m = Len(got) + Arg.many
  OBVIOUS
<1>6. m \in Nat /\ m <= num /\ m # 0
  BY <1>3, <1>4, <1>5
<1>7. got \o Data(Arg) = Pre(raw, m)
  <2>1. Data(Arg) = [k \in 1..Arg.many |-> <<raw, Len(got) + k>>]
    BY <1>3 DEF Data
  <2>2. PICK a : a = Len(got) /\ a \in Nat
    BY <1>4
  <2>3. PICK b : b = Arg.many /\ b \in Nat
    BY <1>4
  <2>4. Pre(raw, a) \o [k \in 1..b |-> <<raw, a + k>>] = Pre(raw, a + b)
    <3>1. PICK n : n = raw /\ n \in Nat
      BY <1>4
    <3>2. Pre(n, a) \o [k \in 1..b |-> <<n, a + k>>] = Pre(n, a + b)
      BY <2>2, <2>3, <3>1, PreGrows, Zenon
    <3> QED
      BY <3>1, <3>2
  <2>5. got = Pre(raw, a) /\ Data(Arg) = [k \in 1..b |-> <<raw, a + k>>] /\ m = a + b
    BY <1>4, <1>5, <2>1, <2>2, <2>3
  <2> QED
    BY <2>4, <2>5
<1>8. Pre(raw, m) \in Seq(Nat \X Nat) /\ Len(Pre(raw, m)) = m
  BY <1>4, <1>6, PreGrows
<1>9. /\ pc \notin {"configure", "erase", "program", "reset"}
      /\ UNCHANGED <<parentVars, childVars, files, logs>> /\ toDev # <<>> /\ toDev' = <<>>
  BY <1>1, <1>3, TakeFacts
<1>10. pc = "raw" => /\ x \in Programs /\ Before(x) /\ Once /\ raw = x /\ Quiet
                     /\ filesend = m
  <2>1. pc = "raw" => /\ x \in Programs /\ Before(x) /\ Once /\ raw = x /\ Quiet
                      /\ filesend = Len(got) + toDev[1].many
    BY <1>1, <1>9 DEF SendInv
  <2>2. Arg = toDev[1]
    BY <1>1, TakeFacts
  <2> QED
    BY <1>5, <2>1, <2>2
<1>11. CASE m < num
  <2>1. got' = Pre(raw, m) /\ UNCHANGED <<raw, num, stored, toHost>>
    BY <1>7, <1>8, <1>11 DEF DevRaw
  <2>2. TypeOK'
    BY <1>1, <1>8, <2>1, TakeTypes DEF TypeOK
  <2>3. erased' \subseteq Erases /\ UNCHANGED files
    BY <1>1, <1>9 DEF TypeOK
  <2>4. Before(raw)' /\ Sectors(raw)' = Sectors(raw)
    BY <1>1, <1>4, <2>1, <2>3 DEF Before, Programmed, Whole, Sectors, ImageOf
  <2>5. Len(got') = m /\ got' = Pre(raw', m)
    BY <1>8, <2>1
  <2>6. RawInv'
    BY <1>1, <1>4, <1>11, <2>1, <2>4, <2>5 DEF RawInv, Pre
  <2>7. RawIsOwnImage'
    BY <2>1, <2>3 DEF RawIsOwnImage, Whole, Sectors, ImageOf
  <2>8. /\ Quiet => Quiet' /\ Once'
        /\ \A t : Says(t)' => Says(t)
    BY <2>1 DEF Quiet, Once, Says, IsResponse
  <2>9. SendInv'
    <3>1. pc = "raw" => Before(x)' /\ filesend = m + 0
      BY <1>6, <1>10, <2>4, <2>1, <2>3, <1>1, <1>9 DEF Before, Programmed, Whole, Sectors, ImageOf
    <3>2. pc = "raw" => Once' /\ Quiet'
      BY <1>10, <2>8
    <3> QED
      BY <1>1, <1>9, <1>10, <2>1, <2>5, <3>1, <3>2 DEF SendInv
  <2> QED
    BY <1>1, <1>9, <2>1, <2>2, <2>6, <2>7, <2>8, <2>9, TakeKeeps
<1>12. CASE ~(m < num)
  <2>1. m = num /\ Pre(raw, m) = Whole(raw)
    BY <1>4, <1>6, <1>12 DEF Pre, Whole
  <2>2. /\ got' = <<>> /\ raw' = 0 /\ num' = 0
        /\ \/ stored' = stored \cup {<<raw, Whole(raw)>>} /\ Say(<<Msg("ACK")>>)
           \/ UNCHANGED stored /\ Say(<<Msg("NAK")>>)
    BY <1>7, <1>8, <1>12, <2>1 DEF DevRaw
  <2>3. PICK t \in {"ACK", "NAK"} :
          /\ Say(<<Msg(t)>>)
          /\ t = "ACK" => stored' = stored \cup {<<raw, Whole(raw)>>}
          /\ t = "NAK" => UNCHANGED stored
    BY <2>2
  <2>4. Msg(t) \in Messages /\ Msg(t).type = t
    BY MsgType DEF Responses
  <2>5. /\ toHost' \in Seq(Messages) /\ (Quiet => Once')
        /\ \A u : Says(u)' => Says(u) \/ u = t
    BY <1>2, <2>3, <2>4, SayOne
  <2>6. Whole(raw) \in Seq(Nat \X Nat)
    BY <1>8, <2>1
  <2>7. /\ stored \subseteq stored'
        /\ stored' \subseteq Programs \X Seq(Nat \X Nat)
        /\ erased' \subseteq Erases /\ UNCHANGED files
    BY <1>1, <1>4, <1>9, <2>3, <2>6 DEF TypeOK
  <2>8. TypeOK'
    BY <1>1, <2>2, <2>5, <2>7, Nothing, TakeTypes DEF TypeOK
  <2>9. RawInv'
    BY <2>2 DEF RawInv
  <2>10. RawIsOwnImage'
    <3>1. ASSUME NEW s \in stored' PROVE s[2] = Whole(s[1])
      <4>1. CASE s \in stored
        BY <4>1 DEF RawIsOwnImage
      <4>2. CASE s = <<raw, Whole(raw)>>
        BY <4>2
      <4> QED
        BY <2>3, <4>1, <4>2
    <3>2. \A n : Whole(n)' = Whole(n)
      BY <2>7 DEF Whole, Sectors, ImageOf
    <3> QED
      BY <3>1, <3>2 DEF RawIsOwnImage
  <2>11. SendInv'
    <3>1. pc = "raw" => Before(x)' /\ Sectors(x)' = Sectors(x)
      BY <1>1, <1>9, <1>10, <2>7, DoneStays DEF Before
    <3>2. pc = "raw" => (Says("ACK")' => x \in Programmed')
      <4>1. pc = "raw" => ~Says("ACK")
        BY <1>10 DEF Quiet, Says, IsResponse, Responses
      <4>2. t = "ACK" => raw \in Programmed'
        BY <1>4, <2>3, <2>7 DEF Programmed, Whole, Sectors, ImageOf
      <4> QED
        BY <1>10, <1>9, <2>5, <4>1, <4>2
    <3> QED
      BY <1>4, <1>9, <1>10, <2>1, <2>2, <2>5, <3>1, <3>2 DEF SendInv
  <2>12. Says("resetlog")' => Says("resetlog")
    BY <2>5
  <2> QED
    BY <1>1, <1>9, <2>5, <2>7, <2>8, <2>9, <2>10, <2>11, <2>12, TakeKeeps
<1> QED
  BY <1>11, <1>12

(* The programmer restarts only when all was carried out, or refuses.      *)
LEMMA OthersKeep ==
  ASSUME IInv, DevReset \/ DevRefuse
  PROVE  IInv'
<1> USE DEF IInv
<1>1. /\ Take /\ raw = 0
      /\ UNCHANGED <<raw, num, got, erased, stored>>
      /\ mode' = mode \/ (Arg.type = "reset" /\ mode' = "off")
  BY DEF DevReset, DevRefuse, TakeCmd, RawInv
<1>2. Arg.type # "piece" /\ (Arg.type = "reset" => AllDone)
  BY <1>1, TakeFacts DEF LineInv
<1>3. SendInv' /\ pc # "raw"
  BY <1>1, <1>2, NotRaw
<1>4. toHost \in Seq(Messages)
  BY DEF TypeOK
<1>5. /\ toHost' \in Seq(Messages) /\ (Quiet => Once')
      /\ Says("resetlog")' => Says("resetlog") \/ AllDone
      /\ pc \in {"erase", "program"} => ~Says("ACK")' /\ ~Says("rawACK")'
  <2>1. pc \in {"erase", "program"} => Quiet /\ Arg.type # "reset"
    BY <1>1, TakeFacts
  <2>2. Quiet => ~Says("ACK") /\ ~Says("rawACK")
    BY DEF Quiet, Says, IsResponse, Responses
  <2>3. CASE DevReset
    <3>1. PICK q : q = <<Msg("resetlog"), Msg("ACK")>>
      OBVIOUS
    <3>2. /\ Msg("resetlog") \in Messages /\ Msg("resetlog").type = "resetlog"
          /\ Msg("ACK") \in Messages /\ Msg("ACK").type = "ACK"
      BY MsgType DEF Responses
    <3>3. /\ q \in Seq(Messages) /\ Len(q) = 2 /\ q[1].type = "resetlog" /\ q[2].type = "ACK"
      BY <3>1, <3>2
    <3>4. \A i, j \in 1..Len(q) : q[i].type \in Responses /\ q[j].type \in Responses => i = j
      BY <3>3 DEF Responses
    <3>5. Say(q) /\ Arg.type = "reset"
      BY <2>3, <3>1 DEF DevReset, TakeCmd
    <3> QED
      BY <1>2, <1>4, <2>1, <3>3, <3>4, <3>5, SayKeeps
  <2>4. CASE DevRefuse
    <3>1. CASE mode = "programmer"
      <4>1. Say(<<Msg("NAK")>>)
        BY <2>4, <3>1 DEF DevRefuse
      <4>2. Msg("NAK") \in Messages /\ Msg("NAK").type = "NAK"
        BY MsgType DEF Responses
      <4> QED
        BY <1>4, <2>1, <2>2, <4>1, <4>2, SayOne
    <3>2. CASE mode # "programmer"
      <4>1. PICK q : q = <<>> /\ Say(q)
        BY <2>4, <3>2 DEF DevRefuse
      <4>2. q \in Seq(Messages) /\ Len(q) = 0
        BY <4>1
      <4>3. toHost' = toHost
        <5>1. PICK k \in 0..Len(q) : toHost' = toHost \o SubSeq(q, 1, k)
          BY <4>1 DEF Say
        <5>2. SubSeq(q, 1, k) = <<>>
          BY <4>1, <5>1
        <5>3. toHost' = toHost \o <<>>
          BY <5>1, <5>2
        <5> QED
          BY <1>4, <5>3, ConcatEmptySeq
      <4> QED
        BY <1>4, <2>1, <2>2, <4>3 DEF Says, Quiet, Once, IsResponse
    <3> QED
      BY <3>1, <3>2
  <2> QED
    BY <2>3, <2>4
<1>6. UNCHANGED files
  BY <1>1, TakeFacts
<1>7. TypeOK'
  BY <1>1, <1>5, TakeTypes DEF TypeOK
<1>8. RawInv' /\ RawIsOwnImage'
  BY <1>1, <1>6 DEF RawInv, RawIsOwnImage, Whole, Sectors, ImageOf
<1> QED
  BY <1>1, <1>2, <1>3, <1>5, <1>7, <1>8, TakeKeeps

(* A log is no response.                                                   *)
LEMMA LogKeeps ==
  ASSUME IInv, DevLog
  PROVE  IInv'
<1> USE DEF IInv, parentVars, childVars
<1>1. PICK m : /\ m = Msg(IF mode = "programmer" THEN "log" ELSE "junk")
               /\ toHost' = Append(toHost, m)
  BY DEF DevLog
<1>2. m \in Messages /\ m.type \in {"log", "junk"}
  BY <1>1, MsgType
<1>3. UNCHANGED <<parentVars, childVars, files, toDev, mode, raw, num, got, erased, stored>>
  BY DEF DevLog
<1>4. /\ toHost \in Seq(Messages) /\ toHost' \in Seq(Messages)
      /\ Len(toHost') = Len(toHost) + 1
      /\ \A j \in 1..Len(toHost) : toHost'[j] = toHost[j]
      /\ toHost'[Len(toHost) + 1] = m
  BY <1>1, <1>2 DEF TypeOK
<1>5. \A j \in 1..Len(toHost') :
         \/ j \in 1..Len(toHost) /\ toHost'[j] = toHost[j]
         \/ toHost'[j].type \in {"log", "junk"}
  BY <1>2, <1>4
<1>6. /\ \A t \in Responses \cup {"resetlog"} : Says(t)' => Says(t)
      /\ Quiet => Quiet'
      /\ Once => Once'
  <2>1. \A t \in Responses \cup {"resetlog"} : Says(t)' => Says(t)
    BY <1>5 DEF Says, Responses
  <2>2. \A j \in 1..Len(toHost') : IsResponse(j)' => j \in 1..Len(toHost) /\ IsResponse(j)
    BY <1>5 DEF IsResponse, Responses
  <2> QED
    BY <2>1, <2>2 DEF Quiet, Once
<1>7. logs' \in 0..MaxLogs
  BY FirehoseAssumption DEF DevLog, TypeOK
<1>8. TypeOK'
  BY <1>3, <1>4, <1>7 DEF TypeOK
<1>9. RawInv' /\ RawIsOwnImage'
  BY <1>3, HostFrame DEF RawInv
<1>10. LineInv'
  BY <1>3, LineKeeps
<1>11. CmdInv'
  BY <1>3, <1>6 DEF CmdInv, Fresh
<1>12. \A n \in Programs : Sectors(n)' = Sectors(n)
  BY <1>3, HostFrame
<1>13. ChildInv'
  BY <1>3, <1>6, <1>12, HostFrame DEF ChildInv, Fresh, Responses
<1>14. SendInv'
  BY <1>3, <1>6, HostFrame DEF SendInv, Responses
<1>15. OkInv'
  BY <1>3, <1>6, HostFrame DEF OkInv
<1> QED
  BY <1>8, <1>9, <1>10, <1>11, <1>13, <1>14, <1>15
-----------------------------------------------------------------------------
(* At the start nothing was sent.                                          *)
LEMMA InitHolds == Init => IInv
<1> SUFFICES ASSUME Init PROVE IInv
  OBVIOUS
<1>1. TypeOK
  <2>1. x \in 0..NumLines /\ filesend \in 0..(MaxSectors + 1) /\ num \in 0..(MaxSectors + 1)
    BY Nothing DEF Init
  <2>2. logs \in 0..MaxLogs /\ payload \in Payloads \cup {PerSize} /\ raw \in Programs \cup {0}
    BY FirehoseAssumption DEF Init
  <2>3. toDev \in Seq(Sent) /\ toHost \in Seq(Messages) /\ got \in Seq(Nat \X Nat)
    BY DEF Init
  <2> QED
    BY <2>1, <2>2, <2>3 DEF Init, TypeOK
<1>2. Quiet /\ ~Says("resetlog")
  BY DEF Init, Quiet, Says
<1> QED
  BY <1>1, <1>2 DEF Init, IInv, RawIsOwnImage, RawInv, LineInv, CmdInv, ChildInv, SendInv,
                    OkInv, Fresh

(* Nothing changes.                                                        *)
LEMMA StutterKeeps == IInv /\ UNCHANGED vars => IInv'
<1> SUFFICES ASSUME IInv, UNCHANGED vars PROVE IInv'
  OBVIOUS
<1> USE DEF vars, parentVars, childVars, devVars, IInv
<1>1. Fresh' <=> Fresh
  BY DEF Fresh, Quiet, IsResponse
<1>2. TypeOK' /\ RawIsOwnImage' /\ RawInv'
  BY HostFrame DEF TypeOK, RawInv
<1>3. LineInv'
  BY LineKeeps
<1>4. (Quiet' <=> Quiet) /\ (Once' <=> Once) /\ \A t : Says(t)' <=> Says(t)
  BY DEF Quiet, Once, Says, IsResponse
<1>5. CmdInv'
  BY <1>1, <1>4 DEF CmdInv
<1>6. ChildInv'
  BY <1>1, <1>4, HostFrame DEF ChildInv
<1>7. SendInv' /\ OkInv'
  BY <1>4, HostFrame DEF SendInv, OkInv
<1> QED
  BY <1>2, <1>3, <1>5, <1>6, <1>7

(* The invariant is inductive.                                             *)
LEMMA StepKeeps == IInv /\ [Next]_vars => IInv'
  BY ParentKeeps, ChildKeeps, CommandsKeep, RawKeeps, OthersKeep, LogKeeps, StutterKeeps
     DEF Next, Host, DevTakes

(* Host, programmer and what is between them agree in every reachable      *)
(* state, for every file, every payload size and any number of logs.       *)
THEOREM Invariant == Spec => []IInv
  BY InitHolds, StepKeeps, PTL DEF Spec

(* The types, and that a child runs exactly while the parent reads.        *)
THEOREM TypeCorrect == Spec => []TypeOK
<1>1. IInv => TypeOK
  BY DEF IInv
<1> QED
  BY <1>1, Invariant, PTL

(* Every image the programmer stores is the one that was announced, whole  *)
(* and in order, for every size of image, sector count and payload.        *)
THEOREM RawIsWhole == Spec => []RawIsOwnImage
<1>1. IInv => RawIsOwnImage
  BY DEF IInv
<1> QED
  BY <1>1, Invariant, PTL

(* The log line of the reset, which is all the parent looks at, proves     *)
(* that every erase and every program was carried out.                     *)
THEOREM SuccessIsEarned == Spec => []SuccessIsProgrammed
<1>1. IInv => SuccessIsProgrammed
  BY DEF IInv, OkInv, AllDone, SuccessIsProgrammed
<1> QED
  BY <1>1, Invariant, PTL
-----------------------------------------------------------------------------
(* The refinement of PackageFlash. *)

(* What PackageFlash sees is the images, what is stored and the result.    *)
LEMMA Stutter ==
  ASSUME UNCHANGED <<stored, files, result>>
  PROVE  UNCHANGED Promise!vars
<1>1. Programmed' = Programmed
  BY DEF Programmed, Whole, Sectors, ImageOf
<1> QED
  BY <1>1 DEF Promise!vars

(* Only the parent reports, and only what it has the right to.             *)
LEMMA ReportIsPromised ==
  ASSUME IInv, SelfPath, Parent
  PROVE  [Promise!Next]_(Promise!vars)
<1> USE DEF parentVars, childVars, devVars
<1>1. UNCHANGED <<stored, files>>
  BY DEF Parent, FoundEmergency, SwitchEmergency, Reopen, ChildEnded
<1>2. Programmed' = Programmed
  BY <1>1, HostFrame DEF Programmed, Whole, Sectors, ImageOf
<1>3. CASE result' = result
  BY <1>1, <1>3, Stutter
<1>4. CASE result = "none" /\ result' = "failed"
  BY <1>2, <1>4 DEF Promise!Next, Promise!Fail
<1>5. CASE result = "none" /\ result' = "ok" /\ ok
  <2>1. Programmed = Programs
    BY <1>5 DEF IInv, OkInv, AllDone
  <2> QED
    BY <1>2, <1>5, <2>1 DEF Promise!Next, Promise!Succeed, Promise!Todo
<1>6. \/ result' = result
      \/ result = "none" /\ result' = "failed"
      \/ result = "none" /\ result' = "ok" /\ ok
  BY DEF Parent, FoundEmergency, SwitchEmergency, Reopen, ChildEnded, StartChild, NoChild,
         IInv, TypeOK
<1> QED
  BY <1>3, <1>4, <1>5, <1>6

(* What the programmer stores is the next program of the file.             *)
LEMMA StoreIsPromised ==
  ASSUME IInv, DevRaw
  PROVE  [Promise!Next]_(Promise!vars)
<1>1. /\ raw \in Programs /\ Before(raw) /\ UNCHANGED <<files, result>>
  BY DEF DevRaw, Take, parentVars, IInv, RawInv
<1>2. UNCHANGED stored \/ stored' = stored \cup {<<raw, got \o Data(Arg)>>}
  BY DEF DevRaw
<1>3. \A n : Whole(n)' = Whole(n)
  BY <1>1 DEF Whole, Sectors, ImageOf
<1>4. Programmed' = Programmed \/ (raw \notin Programmed /\ Programmed' = Programmed \cup {raw})
  BY <1>1, <1>2, <1>3 DEF Programmed
<1>5. CASE Programmed' = Programmed
  BY <1>1, <1>5 DEF Promise!vars
<1>6. CASE raw \notin Programmed /\ Programmed' = Programmed \cup {raw}
  BY <1>1, <1>6 DEF Before, Promise!Next, Promise!Complete, Promise!Todo
<1> QED
  BY <1>4, <1>5, <1>6

(* Every step is one of PackageFlash or a stutter.                         *)
LEMMA StepIsPromised ==
  ASSUME SelfPath
  PROVE  IInv /\ [Next]_vars => [Promise!Next]_(Promise!vars)
<1> SUFFICES ASSUME IInv, [Next]_vars PROVE [Promise!Next]_(Promise!vars)
  OBVIOUS
<1> USE DEF parentVars, childVars, devVars
<1>1. CASE Parent
  BY <1>1, ReportIsPromised
<1>2. CASE DevRaw
  BY <1>2, StoreIsPromised
<1>3. CASE Child
  <2>1. UNCHANGED <<stored, files, result>>
    BY <1>3 DEF Child, CannotStart, SaharaDone, FirstRecv, SendCmd, OnlyLogs, NeitherOfBoth,
                Timeout, Configured, Erased, ProgramAccepted, SendPiece, PieceFails,
                ImageSent, ProgramDone, Refused, ResetAnswered, Read, Answered, AnsweredBy
  <2> QED
    BY <2>1, Stutter
<1>4. CASE DevConfigure \/ DevErase \/ DevProgram \/ DevReset \/ DevRefuse \/ DevLog
  BY <1>4, Stutter DEF DevConfigure, DevErase, DevProgram, DevReset, DevRefuse, DevLog,
                       TakeCmd, Take
<1>5. CASE UNCHANGED vars
  BY <1>5, Stutter DEF vars
<1> QED
  BY <1>1, <1>2, <1>3, <1>4, <1>5 DEF Next, Host, DevTakes

(* Where the child can be started, the firehose upgrade implements         *)
(* PackageFlash for the programs of its file: they are completed in their  *)
(* order, and success is reported only with all of them.                   *)
THEOREM Refinement ==
  ASSUME SelfPath
  PROVE  Spec => ImplementsPackageFlash
<1>1. Init => Promise!Init
  BY DEF Init, Promise!Init, Programmed
<1> QED
  BY <1>1, StepIsPromised, Invariant, PTL DEF Spec, ImplementsPackageFlash, Promise!Spec
=============================================================================
