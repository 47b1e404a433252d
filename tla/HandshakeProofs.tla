---------------------------- MODULE HandshakeProofs ----------------------------
(***************************************************************************)
(* Theorems about Handshake for every number of tries and log packets,     *)
(* proved with TLAPS: whichever command a late answer belonged to, what is *)
(* flashed goes to a programmer that trusts the host and has accepted the  *)
(* partition table, and a prompt one has its download flag set.            *)
(***************************************************************************)
EXTENDS Handshake, TLAPS

Says(q) == {q[k] : k \in 1..Len(q)}

(* The table without override is never sent after the one with it.         *)
Ordered(q) == \A k, l \in 1..Len(q) : q[k] = "override" /\ q[l] = "table" => l < k

(* What is on the line stands for what the programmer has done, however    *)
(* late it is read.                                                        *)
LineInv ==
    /\ sent => pc \in Command
    /\ Ordered(toDev)
    /\ "trusted" \in Says(toHost) => trusted
    /\ pc \in {"table", "override", "setflag", "flash"} => trusted
    /\ pc \in {"hello", "security", "table"} => "override" \notin Says(toDev)
    /\ pc \in {"hello", "security", "table"} /\ accepted => same
    /\ accepted /\ ~same => "table" \notin Says(toDev)
    /\ "tableOk" \in Says(toHost) => accepted
    /\ pc \in {"setflag", "flash"} => accepted

Calm == ~late /\ ~refused /\ logs = 0

(* One exchange at a time as long as nothing was late, refused or logged.  *)
CalmInv ==
    Calm =>
        /\ ~sent => toDev = <<>> /\ toHost = <<>>
        /\ sent => toDev = <<>> \/ (toDev = <<pc>> /\ toHost = <<>>)
        /\ pc \in {"hello", "setflag"} /\ toHost # <<>> => flag
        /\ pc \in {"security", "table", "flash"} => flag

(* The inductive invariant. *)
IInv == TypeOK /\ LineInv /\ CalmInv

-----------------------------------------------------------------------------
(* What a command that is sent adds to the line, and when it keeps the     *)
(* order.                                                                  *)
LEMMA AppendSays ==
    ASSUME NEW S, NEW q \in Seq(S), NEW r \in S
    PROVE  /\ Append(q, r) \in Seq(S)
           /\ Says(Append(q, r)) = Says(q) \cup {r}
           /\ "override" \notin Says(q) \/ r # "table" => (Ordered(q) => Ordered(Append(q, r)))
<1>1. /\ Append(q, r) \in Seq(S)
      /\ Len(Append(q, r)) = Len(q) + 1
      /\ Len(q) \in Nat
      /\ \A k \in 1..Len(q) : Append(q, r)[k] = q[k]
      /\ Append(q, r)[Len(q) + 1] = r
  OBVIOUS
<1>2. Says(Append(q, r)) = Says(q) \cup {r}
  BY <1>1 DEF Says
<1>3. ASSUME "override" \notin Says(q) \/ r # "table", Ordered(q)
      PROVE  Ordered(Append(q, r))
  <2> SUFFICES ASSUME NEW k \in 1..Len(Append(q, r)), NEW l \in 1..Len(Append(q, r)),
                      Append(q, r)[k] = "override", Append(q, r)[l] = "table"
               PROVE  l < k
    BY DEF Ordered
  <2>1. CASE k \in 1..Len(q) /\ l \in 1..Len(q)
    BY <2>1, <1>1, <1>3 DEF Ordered
  <2>2. CASE k = Len(q) + 1 /\ l \in 1..Len(q)
    BY <2>2, <1>1
  <2>3. CASE k \in 1..Len(q) /\ l = Len(q) + 1
    <3>1. q[k] \in Says(q) /\ q[k] = "override" /\ r = "table"
      BY <2>3, <1>1 DEF Says
    <3> QED BY <3>1, <1>3
  <2>4. CASE k = Len(q) + 1 /\ l = Len(q) + 1
    BY <2>4, <1>1
  <2> QED BY <1>1, <2>1, <2>2, <2>3, <2>4
<1> QED BY <1>1, <1>2, <1>3

(* What is left on the line when its first command is taken.               *)
LEMMA TailSays ==
    ASSUME NEW S, NEW q \in Seq(S), q # <<>>
    PROVE  /\ Tail(q) \in Seq(S)
           /\ Head(q) \in Says(q)
           /\ Says(Tail(q)) \subseteq Says(q)
           /\ Ordered(q) => Ordered(Tail(q))
           /\ Ordered(q) /\ Head(q) = "override" => "table" \notin Says(Tail(q))
<1>1. /\ Tail(q) \in Seq(S)
      /\ Len(Tail(q)) = Len(q) - 1
      /\ \A k \in 1..Len(Tail(q)) : Tail(q)[k] = q[k + 1]
      /\ Len(q) \in Nat \ {0}
      /\ Head(q) = q[1]
  OBVIOUS
<1>2. Head(q) \in Says(q) /\ Says(Tail(q)) \subseteq Says(q)
  BY <1>1 DEF Says
<1>3. Ordered(q) => Ordered(Tail(q))
  BY <1>1 DEF Ordered
<1>4. ASSUME Ordered(q), Head(q) = "override" PROVE "table" \notin Says(Tail(q))
  <2> SUFFICES ASSUME NEW k \in 1..Len(Tail(q)), Tail(q)[k] = "table" PROVE FALSE
    BY DEF Says
  <2>1. q[k + 1] = "table" /\ k + 1 \in 1..Len(q) /\ 1 \in 1..Len(q) /\ q[1] = "override"
    BY <1>1, <1>4
  <2> QED BY <2>1, <1>4 DEF Ordered
<1> QED BY <1>1, <1>2, <1>3, <1>4

(* A command alone on the line, and an empty line.                         *)
LEMMA ShortLines ==
    /\ <<>> \in Seq(Command) /\ <<>> \in Seq(Answers)
    /\ Says(<<>>) = {} /\ Ordered(<<>>)
    /\ \A c : /\ <<c>> # <<>> /\ Head(<<c>>) = c /\ Tail(<<c>>) = <<>>
              /\ Append(<<>>, c) = <<c>>
              /\ Says(<<c>>) = {c} /\ Ordered(<<c>>)
              /\ c \in Command => <<c>> \in Seq(Command)
<1>1. /\ <<>> \in Seq(Command) /\ <<>> \in Seq(Answers)
      /\ Says(<<>>) = {} /\ Ordered(<<>>)
  BY DEF Says, Ordered
<1>2. ASSUME NEW c
      PROVE  /\ <<c>> # <<>> /\ Head(<<c>>) = c /\ Tail(<<c>>) = <<>>
             /\ Append(<<>>, c) = <<c>>
             /\ c \in Command => <<c>> \in Seq(Command)
  OBVIOUS
<1>3. ASSUME NEW c PROVE Says(<<c>>) = {c} /\ Ordered(<<c>>)
  <2>1. Len(<<c>>) = 1 /\ <<c>>[1] = c
    OBVIOUS
  <2> QED BY <2>1 DEF Says, Ordered
<1> QED BY <1>1, <1>2, <1>3

(* Before the hello.                                                       *)
LEMMA InitHolds == Init => IInv
<1> SUFFICES ASSUME Init PROVE IInv
  OBVIOUS
<1>1. timeout \in 0..Tries /\ ~(timeout > 0) /\ logs \in 0..MaxLogs
  BY HandshakeAssumption DEF Init
<1>2. TypeOK
  BY <1>1, ShortLines DEF Init, TypeOK, Command
<1>3. LineInv /\ CalmInv
  BY ShortLines DEF Init, LineInv, CalmInv
<1> QED BY <1>2, <1>3 DEF IInv

-----------------------------------------------------------------------------
(* Every wait begins with at least one try. *)
LEMMA SentForTries == Tries \in 0..Tries /\ Tries > 0 /\ 0 \in 0..Tries /\ ~(0 > 0)
BY HandshakeAssumption

(* The steps of the host.                                                  *)
LEMMA SendKeeps == IInv /\ Send => IInv'
<1> SUFFICES ASSUME IInv, Send PROVE IInv'
  OBVIOUS
<1> USE DEF IInv
<1>1. /\ ~sent /\ sent' = TRUE /\ timeout' = Tries
      /\ pc \in Command /\ pc' = pc
      /\ late' = late
      /\ UNCHANGED <<same, trusted, accepted, flag, refused, logs>>
  BY DEF Send, devVars
<1>2. CASE pc = "hello" /\ toHost' = <<>> /\ toDev' \in {<<>>, <<pc>>}
  <2>1. TypeOK'
    <3>1. toDev' \in Seq(Command) /\ toHost' \in Seq(Answers)
      BY <1>1, <1>2, ShortLines
    <3> QED BY <1>1, <3>1, SentForTries DEF TypeOK
  <2>2. LineInv'
    BY <1>1, <1>2, ShortLines DEF LineInv
  <2>3. CalmInv'
    BY <1>1, <1>2 DEF CalmInv, Calm
  <2> QED BY <2>1, <2>2, <2>3
<1>3. CASE pc # "hello" /\ toHost' = toHost /\ toDev' \in {toDev, Append(toDev, pc)}
  <2>1. /\ toDev' \in Seq(Command)
        /\ Says(toDev') \subseteq Says(toDev) \cup {pc}
        /\ Ordered(toDev')
    <3>1. "override" \notin Says(toDev) \/ pc # "table"
      BY DEF LineInv
    <3>2. toDev \in Seq(Command) /\ Ordered(toDev)
      BY DEF TypeOK, LineInv
    <3>3. /\ Append(toDev, pc) \in Seq(Command)
          /\ Says(Append(toDev, pc)) = Says(toDev) \cup {pc}
          /\ Ordered(Append(toDev, pc))
      BY <1>1, <3>1, <3>2, AppendSays
    <3> QED BY <1>3, <3>2, <3>3
  <2>2. TypeOK'
    BY <1>1, <1>3, <2>1, SentForTries DEF TypeOK
  <2>3. LineInv'
    BY <1>1, <1>3, <2>1 DEF LineInv, TypeOK
  <2>4. CalmInv'
    BY <1>1, <1>3, ShortLines DEF CalmInv, Calm
  <2> QED BY <2>2, <2>3, <2>4
<1> QED BY <1>2, <1>3 DEF Send

(* A handler that ends without its answer, or waits on.                    *)
LEMMA WaitKeeps == IInv /\ (Unreadable \/ WaitAgain \/ GiveUp) => IInv'
<1> SUFFICES ASSUME IInv, Unreadable \/ WaitAgain \/ GiveUp PROVE IInv'
  OBVIOUS
<1> USE DEF IInv
<1>1. CASE Unreadable
  <2>1. TypeOK'
    BY <1>1, SentForTries DEF Unreadable, Goto, devVars, TypeOK, Command
  <2>2. LineInv' /\ CalmInv'
    BY <1>1 DEF Unreadable, Goto, devVars, LineInv, CalmInv, Calm, TypeOK
  <2> QED BY <2>1, <2>2
<1>2. CASE WaitAgain
  <2>1. TypeOK'
    <3>1. timeout' \in 0..Tries /\ timeout' > 0
      BY <1>2, HandshakeAssumption DEF WaitAgain, TypeOK
    <3> QED BY <1>2, <3>1 DEF WaitAgain, devVars, TypeOK
  <2>2. LineInv' /\ CalmInv'
    BY <1>2 DEF WaitAgain, devVars, LineInv, CalmInv, Calm, TypeOK
  <2> QED BY <2>1, <2>2
<1>3. CASE GiveUp
  <2>1. /\ pc \in Command
        /\ pc' \in {"security", "override", "failed", "flash"}
        /\ pc' = "flash" => pc = "setflag"
        /\ pc' = "override" => pc = "table"
        /\ pc' = "security" => pc = "hello"
        /\ sent' = FALSE /\ timeout' = 0 /\ late' = TRUE
        /\ toDev' = toDev /\ toHost' = toHost
        /\ UNCHANGED <<same, trusted, accepted, flag, refused, logs>>
    <3>1. pc \in {"hello", "security", "table", "override", "setflag"}
      BY <1>3 DEF LineInv, GiveUp, Command
    <3>2. CASE pc = "hello"
      BY <1>3, <3>2 DEF GiveUp, devVars, Command
    <3>3. CASE pc = "table"
      BY <1>3, <3>3 DEF GiveUp, devVars, Command
    <3>4. CASE pc = "setflag"
      BY <1>3, <3>4 DEF GiveUp, devVars, Command
    <3>5. CASE pc \in {"security", "override"}
      BY <1>3, <3>5 DEF GiveUp, devVars, Command
    <3> QED BY <3>1, <3>2, <3>3, <3>4, <3>5
  <2>2. TypeOK'
    BY <2>1, SentForTries DEF TypeOK, Command
  <2>3. LineInv' /\ CalmInv'
    BY <2>1 DEF LineInv, CalmInv, Calm, TypeOK
  <2> QED BY <2>2, <2>3
<1> QED BY <1>1, <1>2, <1>3
(* What was received was on the line, and the line is empty now.           *)
LEMMA ReceiveReads ==
    ASSUME IInv, NEW r, Receive(r)
    PROVE  /\ r \in Says(toHost) /\ r \in Answers
           /\ sent /\ toHost # <<>> /\ toHost' = <<>>
           /\ Says(toHost') = {} /\ toHost' \in Seq(Answers)
<1>1. toHost \in Seq(Answers) /\ toHost # <<>> /\ r = Head(toHost) /\ toHost' = <<>> /\ sent
  BY DEF IInv, TypeOK, Receive
<1>2. r \in Says(toHost)
  BY <1>1, TailSays
<1>3. r \in Answers
  BY <1>1
<1> QED BY <1>1, <1>2, <1>3, ShortLines

(* A handler that goes on with what it has received: whatever it was, the  *)
(* line is empty, and one command was answered.                            *)
LEMMA AnswerKeeps ==
    IInv /\ (Greeted \/ HelloLog \/ HelloRefused \/ Trusted \/ NotTrusted
             \/ TableAccepted \/ TableRefused \/ FlagAnswered) => IInv'
<1> SUFFICES ASSUME IInv,
                    Greeted \/ HelloLog \/ HelloRefused \/ Trusted \/ NotTrusted
                    \/ TableAccepted \/ TableRefused \/ FlagAnswered
             PROVE  IInv'
  OBVIOUS
<1> USE DEF IInv
<1>1. PICK r : /\ Receive(r)
               /\ \/ pc = "hello" /\ r = "hello" /\ Goto("security")
                  \/ pc = "hello" /\ r = "log" /\ UNCHANGED hostVars
                  \/ pc = "hello" /\ Goto("failed")
                  \/ pc = "security" /\ r = "trusted" /\ Goto("table")
                  \/ pc = "security" /\ Goto("failed")
                  \/ pc = "table" /\ r = "tableOk" /\ Goto("flash")
                  \/ pc = "override" /\ r = "tableOk" /\ Goto("setflag")
                  \/ pc = "table" /\ Goto("override")
                  \/ pc = "override" /\ Goto("failed")
                  \/ pc = "setflag" /\ Goto("flash")
  BY DEF Greeted, HelloLog, HelloRefused, Trusted, NotTrusted, TableAccepted,
         TableRefused, FlagAnswered
<1>2. /\ toDev' = toDev
      /\ UNCHANGED <<same, trusted, accepted, flag, refused, logs>>
  BY DEF Greeted, HelloLog, HelloRefused, Trusted, NotTrusted, TableAccepted,
         TableRefused, FlagAnswered, devVars
<1>3. /\ r \in Says(toHost) /\ r \in Answers
      /\ sent /\ toHost # <<>> /\ toHost' = <<>>
      /\ Says(toHost') = {} /\ toHost' \in Seq(Answers)
  BY <1>1, ReceiveReads
<1>4. TypeOK'
  BY <1>1, <1>2, <1>3, SentForTries DEF TypeOK, Goto, hostVars, Command
<1>5. LineInv'
  <2>1. /\ r = "trusted" => trusted
        /\ r = "tableOk" => accepted
    BY <1>3 DEF LineInv
  <2>2. /\ sent' => sent /\ pc' = pc
        /\ pc' \in {"table", "override", "setflag", "flash"} =>
              r = "trusted" \/ pc \in {"table", "override", "setflag"}
        /\ pc' \in {"hello", "security", "table"} => pc \in {"hello", "security", "table"}
        /\ pc' \in {"setflag", "flash"} => r = "tableOk" \/ pc = "setflag"
    BY <1>1, <1>3 DEF Goto, hostVars
  <2> QED BY <1>2, <1>3, <2>1, <2>2 DEF LineInv
<1>6. CalmInv'
  <2> SUFFICES ASSUME Calm'
               PROVE  /\ toDev' = <<>> /\ toHost' = <<>>
                      /\ pc' \in {"security", "table", "flash"} => flag'
    BY DEF CalmInv
  <2>1. late' = late
    BY <1>1 DEF Goto, hostVars
  <2>2. Calm
    BY <1>2, <2>1 DEF Calm
  <2>3. toDev = <<>>
    BY <1>3, <2>2 DEF CalmInv
  <2>4. /\ pc \in {"hello", "setflag"} => flag
        /\ pc \in {"security", "table", "flash"} => flag
    BY <1>3, <2>2 DEF CalmInv
  <2>5. pc' \in {"security", "table", "flash"} => pc \in {"hello", "setflag", "security", "table"}
    BY <1>1 DEF Goto, hostVars
  <2> QED BY <1>2, <1>3, <2>3, <2>4, <2>5
<1> QED BY <1>4, <1>5, <1>6

-----------------------------------------------------------------------------
(* The steps of the programmer.                                            *)
LEMMA SayAdds ==
    ASSUME IInv, NEW r \in Answers, Say(r)
    PROVE  /\ toHost' \in Seq(Answers)
           /\ Says(toHost') \subseteq Says(toHost) \cup {r}
<1>1. toHost \in Seq(Answers) /\ toHost' \in {toHost, Append(toHost, r)}
  BY DEF IInv, TypeOK, Say
<1>2. Append(toHost, r) \in Seq(Answers) /\ Says(Append(toHost, r)) = Says(toHost) \cup {r}
  BY <1>1, AppendSays
<1> QED BY <1>1, <1>2

(* What the programmer takes is on the line in order, the command in       *)
(* progress if all is prompt.                                              *)
LEMMA TakeReads ==
    ASSUME IInv, NEW c \in Command, Take(c)
    PROVE  /\ toDev' \in Seq(Command) /\ Ordered(toDev')
           /\ c \in Says(toDev) /\ Says(toDev') \subseteq Says(toDev)
           /\ c = "override" => "table" \notin Says(toDev')
           /\ ~late /\ ~refused /\ logs = 0 =>
                 sent /\ c = pc /\ toHost = <<>> /\ toDev' = <<>>
           /\ UNCHANGED <<pc, sent, timeout, late, same, logs>>
<1>1. /\ toDev \in Seq(Command) /\ toDev # <<>> /\ Head(toDev) = c
      /\ toDev' = Tail(toDev) /\ Ordered(toDev)
      /\ UNCHANGED <<pc, sent, timeout, late, same, logs>>
  BY DEF IInv, TypeOK, LineInv, Take, hostVars
<1>2. /\ toDev' \in Seq(Command) /\ Ordered(toDev')
      /\ c \in Says(toDev) /\ Says(toDev') \subseteq Says(toDev)
      /\ c = "override" => "table" \notin Says(toDev')
  BY <1>1, TailSays
<1>3. ASSUME ~late, ~refused, logs = 0
      PROVE  sent /\ c = pc /\ toHost = <<>> /\ toDev' = <<>>
  <2>1. sent /\ toDev = <<pc>> /\ toHost = <<>>
    BY <1>1, <1>3 DEF IInv, CalmInv, Calm
  <2> QED BY <1>1, <2>1, ShortLines
<1> QED BY <1>1, <1>2, <1>3

(* The steps of the programmer.                                            *)
LEMMA ProgrammerKeeps == IInv /\ Programmer => IInv'
<1> SUFFICES ASSUME IInv, Programmer PROVE IInv'
  OBVIOUS
<1> USE DEF IInv
<1>1. CASE DevHello
  <2>1. Take("hello") /\ Say("hello") /\ flag' = TRUE /\ UNCHANGED <<trusted, accepted, refused>>
    BY <1>1 DEF DevHello
  <2>2. "hello" \in Command /\ "hello" \in Answers
    BY DEF Command, Answers
  <2> QED BY <2>1, <2>2, TakeReads, SayAdds DEF TypeOK, LineInv, CalmInv, Calm
<1>2. CASE DevSecurity
  <2>1. Take("security") /\ Say("trusted") /\ trusted' = TRUE /\ UNCHANGED <<accepted, flag, refused>>
    BY <1>2 DEF DevSecurity
  <2>2. "security" \in Command /\ "trusted" \in Answers
    BY DEF Command, Answers
  <2> QED BY <2>1, <2>2, TakeReads, SayAdds DEF TypeOK, LineInv, CalmInv, Calm
<1>3. CASE DevTable
  <2>1. /\ Take("table") /\ accepted' = same
        /\ Say(IF same THEN "tableOk" ELSE "tableBad")
        /\ UNCHANGED <<trusted, flag, refused>>
    BY <1>3 DEF DevTable
  <2>2. "table" \in Command /\ (IF same THEN "tableOk" ELSE "tableBad") \in Answers
    BY DEF Command, Answers
  <2>3. /\ toHost' \in Seq(Answers)
        /\ Says(toHost') \subseteq Says(toHost) \cup {IF same THEN "tableOk" ELSE "tableBad"}
    BY <2>1, <2>2, SayAdds
  <2>4. accepted => same
    BY <2>1, <2>2, TakeReads DEF LineInv
  <2>5. TypeOK'
    BY <2>1, <2>2, <2>3, TakeReads DEF TypeOK
  <2>6. LineInv'
    BY <2>1, <2>2, <2>3, <2>4, TakeReads DEF LineInv, TypeOK
  <2>7. CalmInv'
    BY <2>1, <2>2, TakeReads DEF CalmInv, Calm
  <2> QED BY <2>5, <2>6, <2>7
<1>4. CASE DevOverride
  <2>1. /\ Take("override") /\ Say("tableOk")
        /\ flag' = FALSE /\ accepted' = TRUE /\ UNCHANGED <<trusted, refused>>
    BY <1>4 DEF DevOverride
  <2>2. "override" \in Command /\ "tableOk" \in Answers
    BY DEF Command, Answers
  <2>3. pc \notin {"hello", "security", "table"}
    BY <2>1, <2>2, TakeReads DEF LineInv
  <2> QED BY <2>1, <2>2, <2>3, TakeReads, SayAdds DEF TypeOK, LineInv, CalmInv, Calm
<1>5. CASE DevSetFlag
  <2>1. Take("setflag") /\ Say("flagOk") /\ flag' = TRUE /\ UNCHANGED <<trusted, accepted, refused>>
    BY <1>5 DEF DevSetFlag
  <2>2. "setflag" \in Command /\ "flagOk" \in Answers
    BY DEF Command, Answers
  <2> QED BY <2>1, <2>2, TakeReads, SayAdds DEF TypeOK, LineInv, CalmInv, Calm
<1>6. CASE DevRefuse
  <2>1. PICK c \in Command, r \in {"tableBad", "flagBad", "invalid"} :
           Take(c) /\ Say(r) /\ refused' = TRUE /\ UNCHANGED <<trusted, accepted, flag>>
    BY <1>6 DEF DevRefuse
  <2>2. r \in Answers
    BY DEF Answers
  <2> QED BY <2>1, <2>2, TakeReads, SayAdds DEF TypeOK, LineInv, CalmInv, Calm
<1>7. CASE DevLog
  <2>1. /\ toHost' = Append(toHost, "log") /\ logs' = logs + 1 /\ logs < MaxLogs
        /\ UNCHANGED <<pc, sent, timeout, late, toDev, same, trusted, accepted, flag, refused>>
    BY <1>7 DEF DevLog, hostVars
  <2>2. /\ toHost' \in Seq(Answers)
        /\ Says(toHost') = Says(toHost) \cup {"log"}
    BY <2>1, AppendSays DEF TypeOK, Answers
  <2>3. logs' \in 0..MaxLogs /\ logs' # 0
    BY <2>1, HandshakeAssumption DEF TypeOK
  <2>4. TypeOK'
    BY <2>1, <2>2, <2>3 DEF TypeOK
  <2>5. LineInv' /\ CalmInv'
    BY <2>1, <2>2, <2>3 DEF LineInv, CalmInv, Calm
  <2> QED BY <2>4, <2>5
<1> QED BY <1>1, <1>2, <1>3, <1>4, <1>5, <1>6, <1>7 DEF Programmer

(* Nothing changes.                                                        *)
LEMMA StutterKeeps == IInv /\ UNCHANGED vars => IInv'
BY DEF vars, hostVars, devVars, IInv, TypeOK, LineInv, CalmInv, Calm

-----------------------------------------------------------------------------
(* The invariant holds in every reachable state, for every number of tries *)
(* and of log packets, with and without refusals.                          *)
THEOREM Invariant == Spec => []IInv
<1>1. IInv /\ [Next]_vars => IInv'
  BY SendKeeps, WaitKeeps, AnswerKeeps, ProgrammerKeeps, StutterKeeps DEF Next, Host
<1> QED BY InitHolds, <1>1, PTL DEF Spec

(* The types; a handler has tries left exactly while it waits.             *)
THEOREM TypeCorrect == Spec => []TypeOK
<1>1. IInv => TypeOK
  BY DEF IInv
<1> QED BY <1>1, Invariant, PTL

(* Nothing is flashed to a programmer that has not been told to trust the  *)
(* host and has not accepted the table of this package.                    *)
THEOREM FlashingIsAccepted == Spec => []FlashIsAccepted
<1>1. IInv => FlashIsAccepted
  BY DEF IInv, LineInv, FlashIsAccepted
<1> QED BY <1>1, Invariant, PTL

(* A programmer that is never late, refuses nothing and logs nothing has   *)
(* its download flag set when it is flashed.                               *)
THEOREM PromptIsFlagged == Spec => []PromptFlashIsFlagged
<1>1. IInv => PromptFlashIsFlagged
  BY DEF IInv, CalmInv, Calm, PromptFlashIsFlagged
<1> QED BY <1>1, Invariant, PTL
=============================================================================
