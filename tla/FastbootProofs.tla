----------------------------- MODULE FastbootProofs -----------------------------
(***************************************************************************)
(* Theorems about Fastboot for every list of images, proved with TLAPS:    *)
(* the count of OKAY lines means what the child's status means, partitions *)
(* hold their own images, and the promise of PackageFlash is kept.         *)
(***************************************************************************)
EXTENDS Fastboot, TLAPS

Both == <<"download", "flash">>
Last == <<"flash">>

(* The answers that are on their way, and those that are not INFO lines.   *)
Says(q)   == {q[k] : k \in 1..Len(q)}
Finals(q) == {k \in 1..Len(q) : q[k] # "INFO"}
One(q)    == \A k, l \in Finals(q) : k = l
NoFinal   == Says(toHost) \subseteq {"INFO"}

(* The queue, the count and the image the child was started for.           *)
ChildInv ==
    /\ cpc # "ended" => cur # None /\ queue # <<>>
    /\ cur # None => result = "none"
    /\ cur \in Images =>
          /\ cur \in Left
          /\ \A j \in Left : cur <= j
          /\ \/ queue = Both /\ recv_okay = 0
             \/ queue = Last /\ recv_okay = 1
             \/ queue = <<>> /\ recv_okay = 2
    /\ cur = Reboot =>
          /\ Left = {}
          /\ queue \in {<<"reboot">>, <<>>}
          /\ recv_okay = 0
    /\ cpc = "open" => queue # Last
    /\ cpc = "data?" => queue = Both

(* One exchange at a time; what an answer of the bootloader stands for.    *)
LineInv ==
    /\ One(toHost)
    /\ cpc \in {"ended", "open", "send"} \/ usb = "lost" => toDev = "none" /\ NoFinal
    /\ toDev # "none" => NoFinal
    /\ usb = "open" => present
    /\ cpc = "data?" => toDev \in {"none", "download"}
    /\ cpc = "okay?" /\ queue = Both =>
          /\ toDev \in {"none", "image"}
          /\ "OKAY" \in Says(toHost) => buffer = cur
    /\ cpc = "send" /\ queue = Last /\ usb = "open" => buffer = cur
    /\ cpc = "okay?" /\ queue = Last =>
          /\ toDev \in {"none", "flash"}
          /\ toDev = "flash" => buffer = cur /\ held[cur] = None
          /\ "OKAY" \in Says(toHost) => held[cur] = cur
    /\ cpc = "okay?" /\ cur = Reboot => toDev \in {"none", "reboot"}

(* What is in the partitions, of the images that are done, in progress and *)
(* to come.                                                                *)
HeldInv ==
    /\ OwnImage
    /\ FlashedIsHeld
    /\ result = "none" => \A i \in Images \ flashed : i # cur => held[i] = None
    /\ cur \in Images /\ queue = Both => held[cur] = None
    /\ cur \in Images /\ queue = Last /\ cpc = "send" => held[cur] = None
    /\ cur \in Images /\ queue = <<>> => held[cur] = cur

(* The inductive invariant. *)
IInv == TypeOK /\ ChildInv /\ LineInv /\ HeldInv

-----------------------------------------------------------------------------
(* Reading the first answer leaves no other but INFO lines, unless it was  *)
(* one itself.                                                             *)
LEMMA TailSays ==
    ASSUME NEW q \in Seq(Answers), q # <<>>, One(q)
    PROVE  /\ Tail(q) \in Seq(Answers)
           /\ Head(q) \in Says(q)
           /\ Says(Tail(q)) \subseteq Says(q)
           /\ One(Tail(q))
           /\ Head(q) # "INFO" => Says(Tail(q)) \subseteq {"INFO"}
<1>1. /\ Tail(q) \in Seq(Answers)
      /\ Len(Tail(q)) = Len(q) - 1
      /\ \A k \in 1..Len(Tail(q)) : Tail(q)[k] = q[k + 1]
      /\ Len(q) \in Nat \ {0}
      /\ Head(q) = q[1]
  OBVIOUS
<1>2. Head(q) \in Says(q)
  BY DEF Says
<1>3. Says(Tail(q)) \subseteq Says(q)
  BY DEF Says
<1>4. One(Tail(q))
  BY DEF One, Finals
<1>5. ASSUME Head(q) # "INFO" PROVE Says(Tail(q)) \subseteq {"INFO"}
  BY <1>5 DEF Says, One, Finals
<1> QED BY <1>2, <1>3, <1>4, <1>5

(* An answer may follow INFO lines, and an INFO line anything.             *)
LEMMA AppendSays ==
    ASSUME NEW q \in Seq(Answers), NEW r \in Answers
    PROVE  /\ Append(q, r) \in Seq(Answers)
           /\ Says(Append(q, r)) = Says(q) \cup {r}
           /\ One(q) /\ r = "INFO" => One(Append(q, r))
           /\ Says(q) \subseteq {"INFO"} => One(Append(q, r))
<1>1. /\ Append(q, r) \in Seq(Answers)
      /\ Len(Append(q, r)) = Len(q) + 1
      /\ Len(q) \in Nat
      /\ \A k \in 1..Len(q) : Append(q, r)[k] = q[k]
      /\ Append(q, r)[Len(q) + 1] = r
  OBVIOUS
<1>2. Says(Append(q, r)) = Says(q) \cup {r}
  BY DEF Says
<1>3. One(q) /\ r = "INFO" => One(Append(q, r))
  BY DEF One, Finals
<1>4. Says(q) \subseteq {"INFO"} => One(Append(q, r))
  BY <1>1 DEF One, Finals, Says
<1> QED BY <1>2, <1>3, <1>4

(* Nothing is on its way.                                                 *)
LEMMA EmptySays ==
    /\ <<>> \in Seq(Answers)
    /\ Says(<<>>) = {}
    /\ One(<<>>)
BY DEF Says, One, Finals

(* The three queues of a child that flashes, and the one of a reboot.      *)
LEMMA Queues ==
    /\ Both \in Seq(Actions) /\ Last \in Seq(Actions)
    /\ <<"reboot">> \in Seq(Actions) /\ <<>> \in Seq(Actions)
    /\ Both # Last /\ Both # <<>> /\ Last # <<>> /\ <<"reboot">> # <<>>
    /\ <<"reboot">> # Both /\ <<"reboot">> # Last
    /\ Head(Both) = "download" /\ Tail(Both) = Last /\ Len(Both) = 2
    /\ Head(Last) = "flash" /\ Tail(Last) = <<>> /\ Len(Last) = 1
    /\ Head(<<"reboot">>) = "reboot" /\ Tail(<<"reboot">>) = <<>> /\ Len(<<"reboot">>) = 1
BY DEF Both, Last, Actions

(* Images are positions; the other values of cur and held are none.        *)
LEMMA Positions ==
    /\ None \notin Images /\ Reboot \notin Images /\ Torn \notin Images
    /\ None # Reboot /\ None # Torn
    /\ ufile_list \subseteq Images /\ Left \subseteq ufile_list
    /\ Images \subseteq Nat
BY FastbootAssumption DEF None, Reboot, Torn, Images, ufile_list, Left

(* Before the first child.                                                 *)
LEMMA InitHolds == Init => IInv
<1> SUFFICES ASSUME Init PROVE IInv
  OBVIOUS
<1> USE Positions, EmptySays, FastbootAssumption DEF Init
<1>1. TypeOK
  BY DEF TypeOK
<1>2. ChildInv
  BY DEF ChildInv
<1>3. LineInv
  BY DEF LineInv, NoFinal
<1>4. HeldInv
  BY DEF HeldInv, OwnImage, FlashedIsHeld
<1> QED BY <1>1, <1>2, <1>3, <1>4 DEF IInv

(* No step of the parent breaks the invariant: between two children        *)
(* nothing is on its way.                                                  *)
LEMMA ParentKeeps == IInv /\ Parent => IInv'
<1> SUFFICES ASSUME IInv, Parent PROVE IInv'
  OBVIOUS
<1>1. CASE StartFlash
  <2> USE <1>1 DEF StartFlash, Child, devVars, Both, IInv
  <2>1. TypeOK'
    BY Positions DEF TypeOK, Actions
  <2>2. ChildInv'
    BY Positions, Queues DEF ChildInv, Left
  <2>3. LineInv'
    BY DEF LineInv, NoFinal
  <2>4. HeldInv'
    BY Positions DEF HeldInv, OwnImage, FlashedIsHeld, Left
  <2> QED BY <2>1, <2>2, <2>3, <2>4
<1>2. CASE CannotStart
  <2> USE <1>2 DEF CannotStart, childVars, devVars, IInv
  <2>1. TypeOK'
    BY DEF TypeOK
  <2>2. ChildInv'
    BY DEF ChildInv, Left
  <2>3. LineInv'
    BY DEF LineInv, NoFinal
  <2>4. HeldInv'
    BY DEF HeldInv, OwnImage, FlashedIsHeld
  <2> QED BY <2>1, <2>2, <2>3, <2>4
<1>3. CASE FlashOk
  <2> USE <1>3 DEF FlashOk, childVars, devVars, IInv
  <2>1. TypeOK'
    BY Positions DEF TypeOK, ChildInv
  <2>2. ChildInv'
    BY Positions DEF ChildInv
  <2>3. LineInv'
    BY DEF LineInv, NoFinal
  <2>4. HeldInv'
    BY DEF HeldInv, OwnImage, FlashedIsHeld, ChildInv
  <2> QED BY <2>1, <2>2, <2>3, <2>4
<1>4. CASE FlashFailed
  <2> USE <1>4 DEF FlashFailed, childVars, devVars, IInv
  <2>1. TypeOK'
    BY DEF TypeOK
  <2>2. ChildInv'
    BY Positions DEF ChildInv
  <2>3. LineInv'
    BY DEF LineInv, NoFinal
  <2>4. HeldInv'
    BY DEF HeldInv, OwnImage, FlashedIsHeld, ChildInv
  <2> QED BY <2>1, <2>2, <2>3, <2>4
<1>5. CASE StartReboot
  <2> USE <1>5 DEF StartReboot, Child, devVars, IInv
  <2>1. TypeOK'
    BY DEF TypeOK, Actions
  <2>2. ChildInv'
    BY Positions, Queues DEF ChildInv, Left
  <2>3. LineInv'
    BY DEF LineInv, NoFinal
  <2>4. HeldInv'
    BY Positions DEF HeldInv, OwnImage, FlashedIsHeld
  <2> QED BY <2>1, <2>2, <2>3, <2>4
<1>6. CASE RebootDone
  <2> USE <1>6 DEF RebootDone, childVars, devVars, IInv
  <2>1. TypeOK'
    BY DEF TypeOK
  <2>2. ChildInv'
    BY Positions DEF ChildInv
  <2>3. LineInv'
    BY DEF LineInv, NoFinal
  <2>4. HeldInv'
    BY DEF HeldInv, OwnImage, FlashedIsHeld, ChildInv
  <2> QED BY <2>1, <2>2, <2>3, <2>4
<1> QED BY <1>1, <1>2, <1>3, <1>4, <1>5, <1>6 DEF Parent

(* Nor does the child: the answer it reads is the only one (TailSays).     *)
LEMMA ChildKeeps == IInv /\ ChildRuns => IInv'
<1> SUFFICES ASSUME IInv, ChildRuns PROVE IInv'
  OBVIOUS
<1>1. CASE OpenDevice
  <2> USE <1>1 DEF OpenDevice, parentVars, devVars, IInv
  <2>1. TypeOK'
    BY DEF TypeOK
  <2>2. ChildInv'
    BY DEF ChildInv, Left
  <2>3. LineInv'
    BY DEF LineInv, NoFinal, ChildInv
  <2>4. HeldInv'
    BY DEF HeldInv, OwnImage, FlashedIsHeld, ChildInv
  <2> QED BY <2>1, <2>2, <2>3, <2>4
<1>2. CASE CannotOpen
  <2> USE <1>2 DEF CannotOpen, Exit, parentVars, devVars, IInv
  <2>1. TypeOK'
    BY DEF TypeOK
  <2>2. ChildInv'
    BY DEF ChildInv, Left
  <2>3. LineInv'
    BY DEF LineInv, NoFinal
  <2>4. HeldInv'
    BY DEF HeldInv, OwnImage, FlashedIsHeld
  <2> QED BY <2>1, <2>2, <2>3, <2>4
<1>3. CASE SendCommand
  <2> USE <1>3 DEF SendCommand, parentVars, devVars, IInv
  <2>1. TypeOK'
    BY DEF TypeOK, ChildInv
  <2>2. ChildInv'
    BY Queues DEF ChildInv, Left, TypeOK
  <2>3. LineInv'
    BY Queues DEF LineInv, NoFinal, ChildInv, TypeOK, HeldInv
  <2>4. HeldInv'
    BY DEF HeldInv, OwnImage, FlashedIsHeld
  <2> QED BY <2>1, <2>2, <2>3, <2>4
<1>4. CASE Info
  <2> USE <1>4 DEF Info, Response, parentVars, childVars, devVars, IInv
  <2>1. TypeOK'
    BY DEF TypeOK
  <2>2. ChildInv'
    BY DEF ChildInv, Left
  <2>3. LineInv'
    BY TailSays DEF LineInv, NoFinal, TypeOK
  <2>4. HeldInv'
    BY DEF HeldInv, OwnImage, FlashedIsHeld
  <2> QED BY <2>1, <2>2, <2>3, <2>4
<1>5. CASE SendData
  <2> USE <1>5 DEF SendData, Response, parentVars, devVars, IInv
  <2>1. TypeOK'
    BY DEF TypeOK
  <2>2. ChildInv'
    BY DEF ChildInv, Left
  <2>3. LineInv'
    BY TailSays, Queues DEF LineInv, NoFinal, ChildInv, TypeOK
  <2>4. HeldInv'
    BY DEF HeldInv, OwnImage, FlashedIsHeld
  <2> QED BY <2>1, <2>2, <2>3, <2>4
<1>6. CASE NoData
  <2> USE <1>6 DEF NoData, Response, parentVars, devVars, IInv
  <2>1. TypeOK'
    BY DEF TypeOK
  <2>2. ChildInv'
    BY DEF ChildInv, Left
  <2>3. LineInv'
    BY TailSays DEF LineInv, NoFinal, TypeOK
  <2>4. HeldInv'
    BY DEF HeldInv, OwnImage, FlashedIsHeld
  <2> QED BY <2>1, <2>2, <2>3, <2>4
<1>7. CASE Okay
  <2> USE <1>7 DEF Okay, Response, ActionDone, NextAction, Exit, devVars, IInv
  <2>1. TypeOK'
    BY DEF TypeOK, ChildInv
  <2>2. ChildInv'
    BY Positions, Queues DEF ChildInv, Left
  <2>3. LineInv'
    BY TailSays DEF LineInv, NoFinal, ChildInv, TypeOK
  <2>4. HeldInv'
    <3>1. "OKAY" \in Says(toHost)
      BY TailSays DEF TypeOK, LineInv
    <3>2. OwnImage' /\ FlashedIsHeld'
      BY DEF HeldInv, OwnImage, FlashedIsHeld
    <3>3. CASE cur \in Images /\ queue = Both
      BY <3>2, <3>3, Queues DEF HeldInv
    <3>4. CASE cur \in Images /\ queue = Last
      <4>1. held[cur] = cur
        BY <3>1, <3>4 DEF LineInv
      <4> QED BY <3>2, <3>4, <4>1, Queues DEF HeldInv
    <3>5. CASE cur = Reboot
      BY <3>2, <3>5, Positions DEF HeldInv
    <3>6. (cur \in Images /\ queue \in {Both, Last}) \/ cur = Reboot
      BY DEF ChildInv, TypeOK
    <3> QED BY <3>3, <3>4, <3>5, <3>6
  <2> QED BY <2>1, <2>2, <2>3, <2>4
<1>8. CASE Refused
  <2> USE <1>8 DEF Refused, Response, ActionFailed, Exit, parentVars, devVars, IInv
  <2>1. TypeOK'
    BY DEF TypeOK
  <2>2. ChildInv'
    BY DEF ChildInv, Left
  <2>3. LineInv'
    BY TailSays DEF LineInv, NoFinal, TypeOK
  <2>4. HeldInv'
    BY DEF HeldInv, OwnImage, FlashedIsHeld
  <2> QED BY <2>1, <2>2, <2>3, <2>4
<1>9. CASE TransferFails
  <2> USE <1>9 DEF TransferFails, ActionFailed, Exit, parentVars, devVars, IInv
  <2>1. TypeOK'
    BY DEF TypeOK
  <2>2. ChildInv'
    BY DEF ChildInv, Left
  <2>3. LineInv'
    BY DEF LineInv, NoFinal
  <2>4. HeldInv'
    BY DEF HeldInv, OwnImage, FlashedIsHeld
  <2> QED BY <2>1, <2>2, <2>3, <2>4
<1> QED BY <1>1, <1>2, <1>3, <1>4, <1>5, <1>6, <1>7, <1>8, <1>9 DEF ChildRuns

(* The answer to a command is the only one on its way.                     *)
LEMMA AnswerSays ==
    ASSUME IInv, toDev # "none", NEW r \in Answers, Answer(r)
    PROVE  /\ toHost' \in Seq(Answers)
           /\ One(toHost')
           /\ Says(toHost') \subseteq {"INFO", r}
<1>1. toHost \in Seq(Answers) /\ One(toHost) /\ Says(toHost) \subseteq {"INFO"}
  BY DEF IInv, TypeOK, LineInv, NoFinal
<1>2. CASE toHost' = toHost
  BY <1>1, <1>2
<1>3. CASE toHost' = Append(toHost, r)
  BY <1>1, <1>3, AppendSays
<1> QED BY <1>2, <1>3 DEF Answer

(* Nor does the bootloader: what it answers was asked (AnswerSays), and    *)
(* when it leaves nothing stays on its way.                                *)
LEMMA BootloaderKeeps == IInv /\ Bootloader => IInv'
<1> SUFFICES ASSUME IInv, Bootloader PROVE IInv'
  OBVIOUS
<1>1. CASE DevDownload
  <2> USE DEF IInv, parentVars, childVars
  <2>1. toDev = "download" /\ toDev' = "none" /\ present
    BY <1>1 DEF DevDownload, Arrived
  <2>2. PICK r \in {"DATA", "toolarge", "OKAY"} : Answer(r)
    BY <1>1 DEF DevDownload
  <2>3. /\ toHost' \in Seq(Answers)
        /\ One(toHost')
        /\ Says(toHost') \subseteq {"INFO", r}
    BY <2>1, <2>2, AnswerSays DEF Answers
  <2>4. UNCHANGED <<parentVars, childVars, present, infos, leaves>>
    BY <2>2 DEF Answer
  <2>5. TypeOK'
    BY <1>1, <2>1, <2>3, <2>4 DEF DevDownload, TypeOK
  <2>6. ChildInv'
    BY <2>4 DEF ChildInv, Left
  <2>7. LineInv'
    BY <2>1, <2>3, <2>4 DEF LineInv
  <2>8. HeldInv'
    BY <1>1, <2>4 DEF DevDownload, HeldInv, OwnImage, FlashedIsHeld
  <2> QED BY <2>5, <2>6, <2>7, <2>8
<1>2. CASE DevData
  <2> USE DEF IInv, parentVars, childVars
  <2>1. toDev = "image" /\ toDev' = "none" /\ present
    BY <1>2 DEF DevData, Arrived
  <2>2. PICK r \in {"OKAY"} : Answer(r)
    BY <1>2 DEF DevData
  <2>3. /\ toHost' \in Seq(Answers)
        /\ One(toHost')
        /\ Says(toHost') \subseteq {"INFO", r}
    BY <2>1, <2>2, AnswerSays DEF Answers
  <2>4. UNCHANGED <<parentVars, childVars, present, infos, leaves>>
    BY <2>2 DEF Answer
  <2>5. TypeOK'
    BY <1>2, <2>1, <2>3, <2>4 DEF DevData, TypeOK, LineInv
  <2>6. ChildInv'
    BY <2>4 DEF ChildInv, Left
  <2>7. LineInv'
    BY <1>2, <2>1, <2>3, <2>4 DEF DevData, LineInv
  <2>8. HeldInv'
    BY <1>2, <2>4 DEF DevData, HeldInv, OwnImage, FlashedIsHeld
  <2> QED BY <2>5, <2>6, <2>7, <2>8
<1>3. CASE DevFlash
  <2> USE DEF IInv, parentVars, childVars
  <2>1. toDev = "flash" /\ toDev' = "none" /\ present
    BY <1>3 DEF DevFlash, Arrived
  <2>2. PICK r \in {"OKAY"} : Answer(r)
    BY <1>3 DEF DevFlash
  <2>3. /\ toHost' \in Seq(Answers)
        /\ One(toHost')
        /\ Says(toHost') \subseteq {"INFO", r}
    BY <2>1, <2>2, AnswerSays DEF Answers
  <2>4. UNCHANGED <<parentVars, childVars, present, infos, leaves>>
    BY <2>2 DEF Answer
  <2>5. TypeOK'
    BY <1>3, <2>1, <2>3, <2>4 DEF DevFlash, TypeOK
  <2>6. ChildInv'
    BY <2>4 DEF ChildInv, Left
  <2>7. LineInv'
    BY <1>3, <2>1, <2>3, <2>4 DEF DevFlash, LineInv, TypeOK
  <2>8. HeldInv'
    BY <1>3, <2>1, <2>4 DEF DevFlash, HeldInv, OwnImage, FlashedIsHeld, TypeOK, ChildInv, LineInv
  <2> QED BY <2>5, <2>6, <2>7, <2>8
<1>4. CASE DevRefuse
  <2> USE DEF IInv, parentVars, childVars
  <2>1. PICK c \in Actions \cup {"image"} :
           /\ Arrived(c)
           /\ \E r \in {"FAIL", "unknown"} : Answer(r)
           /\ held' \in IF c = "flash" THEN {held, [held EXCEPT ![cur] = Torn]} ELSE {held}
    BY <1>4 DEF DevRefuse
  <2>2. PICK r \in {"FAIL", "unknown"} : Answer(r)
    BY <2>1
  <2>3. toDev = c /\ c # "none" /\ toDev' = "none" /\ buffer' = buffer
    BY <1>4, <2>1 DEF Arrived, Actions, DevRefuse
  <2>4. /\ toHost' \in Seq(Answers)
        /\ One(toHost')
        /\ Says(toHost') \subseteq {"INFO", r}
    BY <2>2, <2>3, AnswerSays DEF Answers
  <2>5. UNCHANGED <<parentVars, childVars, present, infos, leaves>>
    BY <2>2 DEF Answer
  <2>6. TypeOK'
    BY <2>1, <2>3, <2>4, <2>5 DEF TypeOK
  <2>7. ChildInv'
    BY <2>5 DEF ChildInv, Left
  <2>8. LineInv'
    BY <2>3, <2>4, <2>5 DEF LineInv
  <2>9. HeldInv'
    BY <2>1, <2>3, <2>5, Positions DEF HeldInv, OwnImage, FlashedIsHeld, TypeOK, ChildInv, LineInv
  <2> QED BY <2>6, <2>7, <2>8, <2>9
<1>5. CASE DevInfo
  <2> USE <1>5 DEF DevInfo, parentVars, childVars, IInv
  <2>1. TypeOK'
    BY FastbootAssumption DEF TypeOK, Answers
  <2>2. ChildInv'
    BY DEF ChildInv, Left
  <2>3. LineInv'
    BY AppendSays DEF LineInv, NoFinal, TypeOK, Answers
  <2>4. HeldInv'
    BY DEF HeldInv, OwnImage, FlashedIsHeld
  <2> QED BY <2>1, <2>2, <2>3, <2>4
<1>6. CASE DevReboot
  <2> USE <1>6 DEF DevReboot, Gone, parentVars, IInv
  <2>1. TypeOK'
    BY EmptySays DEF TypeOK
  <2>2. ChildInv'
    BY DEF ChildInv, Left
  <2>3. LineInv'
    BY EmptySays DEF LineInv, NoFinal
  <2>4. HeldInv'
    BY DEF HeldInv, OwnImage, FlashedIsHeld
  <2> QED BY <2>1, <2>2, <2>3, <2>4
<1>7. CASE Leave
  <2> USE <1>7 DEF Leave, Gone, parentVars, IInv
  <2>1. TypeOK'
    <3>1. held' \in [Images -> Images \cup {None, Torn}]
      BY DEF TypeOK
    <3>2. leaves' \in 0..MaxLeaves
      BY FastbootAssumption DEF TypeOK
    <3>3. usb' \in {"closed", "open", "lost"} /\ (usb' = "closed" <=> usb = "closed")
      BY DEF TypeOK
    <3>4. /\ present' \in BOOLEAN
          /\ toDev' \in Actions \cup {"none", "image"}
          /\ toHost' \in Seq(Answers)
          /\ buffer' \in Images \cup {None}
      BY EmptySays
    <3>5. UNCHANGED <<parentVars, cpc, queue, infos>>
      OBVIOUS
    <3> QED BY <3>2, <3>4 DEF TypeOK
  <2>2. ChildInv'
    BY DEF ChildInv, Left
  <2>3. LineInv'
    BY EmptySays DEF LineInv, NoFinal
  <2>4. HeldInv'
    BY Positions DEF HeldInv, OwnImage, FlashedIsHeld, TypeOK, ChildInv, LineInv
  <2> QED BY <2>1, <2>2, <2>3, <2>4
<1>8. CASE ComeBack
  <2> USE <1>8 DEF ComeBack, parentVars, childVars, IInv
  <2>1. TypeOK'
    BY FastbootAssumption DEF TypeOK
  <2>2. ChildInv'
    BY DEF ChildInv, Left
  <2>3. LineInv'
    BY DEF LineInv, NoFinal
  <2>4. HeldInv'
    BY DEF HeldInv, OwnImage, FlashedIsHeld
  <2> QED BY <2>1, <2>2, <2>3, <2>4
<1> QED BY <1>1, <1>2, <1>3, <1>4, <1>5, <1>6, <1>7, <1>8 DEF Bootloader

(* Nor does a step of something else.                                      *)
LEMMA StutterKeeps == IInv /\ UNCHANGED vars => IInv'
<1> SUFFICES ASSUME IInv, UNCHANGED vars PROVE IInv'
  OBVIOUS
<1> USE DEF vars, parentVars, childVars, devVars
<1>1. TypeOK'
  BY DEF IInv, TypeOK
<1>2. ChildInv'
  BY DEF IInv, ChildInv, Left
<1>3. LineInv'
  BY DEF IInv, LineInv, NoFinal
<1>4. HeldInv'
  BY DEF IInv, HeldInv, OwnImage, FlashedIsHeld
<1> QED BY <1>1, <1>2, <1>3, <1>4 DEF IInv

(* Every reachable state satisfies the inductive invariant.                *)
THEOREM Invariant == Spec => []IInv
<1>1. IInv /\ [Next]_vars => IInv'
  BY ParentKeeps, ChildKeeps, BootloaderKeeps, StutterKeeps DEF Next, Host
<1> QED BY <1>1, InitHolds, PTL DEF Spec

-----------------------------------------------------------------------------
(* The parent takes an image for flashed exactly when its child completed  *)
(* both actions.                                                           *)
THEOREM CountIsStatus == Spec => []CountMeansDone
<1>1. IInv => CountMeansDone
  BY Queues DEF IInv, ChildInv, CountMeansDone
<1> QED BY <1>1, Invariant, PTL

(* No partition gets the image of another, or that of an earlier child.    *)
THEOREM OwnImages == Spec => []OwnImage
<1>1. IInv => OwnImage
  BY DEF IInv, HeldInv
<1> QED BY <1>1, Invariant, PTL

(* What the parent counts as flashed is whole in its partition.            *)
THEOREM FlashedAreHeld == Spec => []FlashedIsHeld
<1>1. IInv => FlashedIsHeld
  BY DEF IInv, HeldInv
<1> QED BY <1>1, Invariant, PTL

(* Every variable has its type.                                            *)
THEOREM TypeCorrect == Spec => []TypeOK
<1>1. IInv => TypeOK
  BY DEF IInv
<1> QED BY <1>1, Invariant, PTL

-----------------------------------------------------------------------------
(* A flash command that is on its way is for the first image left, which   *)
(* the bootloader has downloaded and its partition does not hold yet.      *)
LEMMA FlashOnItsWay ==
    ASSUME IInv, toDev = "flash"
    PROVE  /\ cur \in ufile_list
           /\ buffer = cur /\ held[cur] = None
           /\ \A j \in ufile_list : j < cur => held[j] = j
<1>1. cpc = "okay?" /\ cur # None /\ queue # <<>>
  BY DEF IInv, TypeOK, LineInv, ChildInv
<1>2. cur \in Images
  BY <1>1 DEF IInv, TypeOK, LineInv
<1>3. cur \in Left /\ \A j \in Left : cur <= j
  BY <1>2 DEF IInv, ChildInv
<1>4. queue = Last
  BY <1>1, <1>2 DEF IInv, ChildInv, LineInv
<1>5. buffer = cur /\ held[cur] = None
  BY <1>1, <1>4 DEF IInv, LineInv
<1>6. ASSUME NEW j \in ufile_list, j < cur PROVE held[j] = j
  <2>1. j \notin Left
    BY <1>3, <1>6, Positions
  <2> QED BY <2>1 DEF Left, IInv, HeldInv, FlashedIsHeld
<1> QED BY <1>3, <1>5, <1>6, Positions

(* A step that changes neither a partition nor the result.                 *)
LEMMA Stutter ==
    ASSUME held' = held, result' = result
    PROVE  UNCHANGED Promise!vars
BY DEF Promise!vars

(* A write that is torn: its partition did not hold the image before.      *)
LEMMA TearIsStutter ==
    ASSUME IInv, toDev = "flash", result' = result, held' = [held EXCEPT ![cur] = Torn]
    PROVE  UNCHANGED Promise!vars
<1>1. held \in [Images -> Images \cup {None, Torn}]
  BY DEF IInv, TypeOK
<1>2. cur \in Images /\ held[cur] # cur /\ held'[cur] # cur
  BY <1>1, FlashOnItsWay, Positions
<1>3. \A i \in ufile_list : held'[i] = i <=> held[i] = i
  BY <1>2
<1> QED BY <1>3 DEF Promise!vars

(* A flash completes a partition, an end succeeds or fails, and everything *)
(* else is a stutter.                                                      *)
LEMMA StepIsPromised == IInv /\ [Next]_vars => [Promise!Next]_(Promise!vars)
<1> SUFFICES ASSUME IInv, [Next]_vars PROVE [Promise!Next]_(Promise!vars)
  OBVIOUS
<1> USE DEF parentVars, childVars, devVars
<1>1. CASE StartFlash \/ FlashOk \/ StartReboot
  BY <1>1, Stutter DEF StartFlash, FlashOk, StartReboot, Child
<1>2. CASE CannotStart \/ FlashFailed
  <2>1. result = "none" /\ result' = "failed" /\ held' = held
    BY <1>2, Positions DEF CannotStart, FlashFailed, IInv, ChildInv
  <2> QED BY <2>1 DEF Promise!Next, Promise!Fail
<1>3. CASE RebootDone
  <2>1. result = "none" /\ result' = "ok" /\ held' = held /\ Left = {}
    BY <1>3, Positions DEF RebootDone, IInv, ChildInv
  <2>2. {i \in ufile_list : held[i] = i} = ufile_list
    BY <2>1 DEF Left, IInv, HeldInv, FlashedIsHeld
  <2> QED BY <2>1, <2>2 DEF Promise!Next, Promise!Succeed, Promise!Todo
<1>4. CASE ChildRuns
  <2>1. held' = held /\ result' = result
    BY <1>4 DEF ChildRuns, OpenDevice, CannotOpen, SendCommand, Info, SendData,
                NoData, Okay, ActionDone, Refused,
                TransferFails, ActionFailed
  <2> QED BY <2>1, Stutter
<1>5. CASE DevFlash
  <2>1. /\ toDev = "flash"
        /\ held' = [held EXCEPT ![cur] = buffer]
        /\ result' = result
    BY <1>5 DEF DevFlash, Arrived, Answer
  <2>2. /\ cur \in ufile_list /\ cur \in Images
        /\ buffer = cur /\ held[cur] # cur
        /\ \A j \in ufile_list : j < cur => held[j] = j
    BY <2>1, FlashOnItsWay, Positions
  <2>3. {i \in ufile_list : held'[i] = i} = {i \in ufile_list : held[i] = i} \cup {cur}
    BY <2>1, <2>2 DEF IInv, TypeOK
  <2> QED BY <2>1, <2>2, <2>3 DEF Promise!Next, Promise!Complete, Promise!Todo
<1>6. CASE DevRefuse
  <2>1. PICK c \in Actions \cup {"image"} :
           /\ Arrived(c)
           /\ \E r \in {"FAIL", "unknown"} : Answer(r)
           /\ held' \in IF c = "flash" THEN {held, [held EXCEPT ![cur] = Torn]} ELSE {held}
    BY <1>6 DEF DevRefuse
  <2>2. toDev = c /\ result' = result
    BY <2>1 DEF Arrived, Answer
  <2> QED BY <2>1, <2>2, Stutter, TearIsStutter
<1>7. CASE Leave
  BY <1>7, Stutter, TearIsStutter DEF Leave, Gone
<1>8. CASE DevDownload \/ DevData \/ DevInfo \/ DevReboot \/ ComeBack
  BY <1>8, Stutter DEF DevDownload, DevData, DevInfo, DevReboot, ComeBack, Answer, Gone
<1>9. CASE UNCHANGED vars
  BY <1>9, Stutter DEF vars
<1> QED BY <1>1, <1>2, <1>3, <1>4, <1>5, <1>6, <1>7, <1>8, <1>9 DEF Next, Host, Parent, Bootloader

(* Fastboot completes the partitions in the order of the list and reports  *)
(* success only with all of them, as PackageFlash has it.                  *)
THEOREM Refinement == Spec => ImplementsPackageFlash
<1>1. Init => Promise!Init
  <2>1. ASSUME Init PROVE {i \in ufile_list : held[i] = i} = {}
    BY <2>1, Positions DEF Init
  <2> QED BY <2>1 DEF Init, Promise!Init
<1> QED BY <1>1, StepIsPromised, Invariant, PTL DEF Spec, ImplementsPackageFlash, Promise!Spec
=============================================================================
