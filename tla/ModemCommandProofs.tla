------------------------- MODULE ModemCommandProofs -------------------------
(***************************************************************************)
(* TLAPS proofs about ModemCommand: its types, and AloneOwnAnswer for any  *)
(* set of callers, any commands, late answers or not, and any number of    *)
(* unsolicited lines; and, for one caller and a modem that answers in time *)
(* or never, OwnAnswer, NoNullCall and NoStaleCompletion, and that         *)
(* ModemCommand implements CommandService.                                 *)
(***************************************************************************)
EXTENDS ModemCommand, SequenceTheorems, FiniteSetTheorems, TLAPS

-----------------------------------------------------------------------------
(* Sequences as sets of lines.                                             *)

(* The lines of an appended sequence.                                      *)
LEMMA LinesOfAppend ==
  ASSUME NEW S, NEW s \in Seq(S), NEW e \in S
  PROVE  /\ Append(s, e) \in Seq(S)
         /\ LinesOf(Append(s, e)) = LinesOf(s) \cup {e}
  BY AppendProperties DEF LinesOf

(* The lines of a concatenation.                                           *)
LEMMA LinesOfConcat ==
  ASSUME NEW S, NEW s \in Seq(S), NEW t \in Seq(S)
  PROVE  /\ s \o t \in Seq(S)
         /\ LinesOf(s \o t) = LinesOf(s) \cup LinesOf(t)
<1>1. /\ s \o t \in Seq(S)
      /\ Len(s \o t) = Len(s) + Len(t)
      /\ \A i \in 1..(Len(s) + Len(t)) :
           (s \o t)[i] = IF i <= Len(s) THEN s[i] ELSE t[i - Len(s)]
  BY ConcatProperties
<1>2. LinesOf(s \o t) \subseteq LinesOf(s) \cup LinesOf(t)
  BY <1>1 DEF LinesOf
<1>3. LinesOf(s) \subseteq LinesOf(s \o t)
  BY <1>1 DEF LinesOf
<1>4. ASSUME NEW i \in DOMAIN t  PROVE t[i] \in LinesOf(s \o t)
  <2>1. /\ i + Len(s) \in DOMAIN (s \o t)
        /\ (s \o t)[i + Len(s)] = t[i]
    BY <1>1
  <2> QED BY <2>1 DEF LinesOf
<1> QED BY <1>1, <1>2, <1>3, <1>4 DEF LinesOf

(* A read takes a prefix and leaves the rest; both only hold lines that    *)
(* had arrived, and a read of at least one line is not empty.              *)
LEMMA LinesOfSplit ==
  ASSUME NEW S, NEW s \in Seq(S), NEW n \in 1..Len(s)
  PROVE  /\ SubSeq(s, n + 1, Len(s)) \in Seq(S)
         /\ LinesOf(SubSeq(s, 1, n)) \subseteq LinesOf(s)
         /\ LinesOf(SubSeq(s, n + 1, Len(s))) \subseteq LinesOf(s)
         /\ LinesOf(SubSeq(s, 1, n)) # {}
<1>0. Len(s) \in Nat /\ n \in Nat /\ n >= 1 /\ n <= Len(s)
  BY LenProperties
<1>1. /\ SubSeq(s, 1, n) \in Seq(S)
      /\ Len(SubSeq(s, 1, n)) = n
      /\ \A i \in 1..n : SubSeq(s, 1, n)[i] = s[i]
  <2>1. \A i \in 1..n : s[i] \in S
    BY <1>0, ElementOfSeq
  <2>2. /\ SubSeq(s, 1, n) \in Seq(S)
        /\ Len(SubSeq(s, 1, n)) = IF 1 <= n THEN n - 1 + 1 ELSE 0
        /\ \A i \in 1..(n - 1 + 1) : SubSeq(s, 1, n)[i] = s[1 + i - 1]
    BY <1>0, <2>1, SubSeqProperties
  <2> QED BY <1>0, <2>2
<1>2. /\ SubSeq(s, n + 1, Len(s)) \in Seq(S)
      /\ Len(SubSeq(s, n + 1, Len(s))) = Len(s) - n
      /\ \A i \in 1..(Len(s) - n) : SubSeq(s, n + 1, Len(s))[i] = s[n + i]
  <2>1. \A i \in (n + 1)..Len(s) : s[i] \in S
    BY <1>0, ElementOfSeq
  <2>2. /\ SubSeq(s, n + 1, Len(s)) \in Seq(S)
        /\ Len(SubSeq(s, n + 1, Len(s))) =
             IF n + 1 <= Len(s) THEN Len(s) - (n + 1) + 1 ELSE 0
        /\ \A i \in 1..(Len(s) - (n + 1) + 1) :
             SubSeq(s, n + 1, Len(s))[i] = s[(n + 1) + i - 1]
    BY <1>0, <2>1, SubSeqProperties
  <2> QED BY <1>0, <2>2
<1>3. LinesOf(SubSeq(s, 1, n)) \subseteq LinesOf(s)
  BY <1>0, <1>1 DEF LinesOf
<1>4. LinesOf(SubSeq(s, n + 1, Len(s))) \subseteq LinesOf(s)
  <2>1. ASSUME NEW i \in 1..(Len(s) - n)
        PROVE  SubSeq(s, n + 1, Len(s))[i] \in LinesOf(s)
    <3>1. n + i \in DOMAIN s
      BY <1>0
    <3> QED BY <1>2, <3>1 DEF LinesOf
  <2>2. DOMAIN SubSeq(s, n + 1, Len(s)) = 1..(Len(s) - n)
    BY <1>0, <1>2, LenProperties
  <2> QED BY <2>1, <2>2 DEF LinesOf
<1>5. SubSeq(s, 1, n)[1] \in LinesOf(SubSeq(s, 1, n))
  <2>1. 1 \in DOMAIN SubSeq(s, 1, n)
    BY <1>0, <1>1, LenProperties
  <2> QED BY <2>1 DEF LinesOf
<1> QED BY <1>2, <1>3, <1>4, <1>5

(* Taking the head leaves only commands that were pending.                 *)
LEMMA LinesOfTail ==
  ASSUME NEW S, NEW s \in Seq(S), s # <<>>
  PROVE  /\ Head(s) \in S
         /\ Head(s) \in LinesOf(s)
         /\ Tail(s) \in Seq(S)
         /\ LinesOf(Tail(s)) \subseteq LinesOf(s)
<1>1. Len(s) \in Nat /\ Len(s) >= 1
  BY EmptySeq, LenProperties
<1> QED BY <1>1, HeadTailProperties DEF LinesOf

-----------------------------------------------------------------------------
(* Type correctness.                                                       *)

(* Every line the modem sends in reply is well formed.                     *)
LEMMA ReplyLines ==
  ASSUME NEW cmd \in Issued, NEW reply \in Replies(cmd.kind)
  PROVE  LET lines == [i \in DOMAIN reply |-> [id |-> cmd.id, word |-> reply[i]]]
         IN  /\ lines \in Seq(Line)
             /\ IdsOf(LinesOf(lines)) \subseteq {cmd.id}
<1> DEFINE lines == [i \in DOMAIN reply |-> [id |-> cmd.id, word |-> reply[i]]]
<1>1. reply \in Seq(Words)
  <2>1. cmd.kind \in AllKinds
    BY DEF Issued
  <2>2. reply \in {<<>>, <<"ERROR">>, <<"OK">>, <<"NO CARRIER">>,
                   <<"CONNECT">>, <<"OK", "PB DONE">>}
    BY <2>1 DEF Replies, AllKinds
  <2>3. /\ <<>> \in Seq(Words)
        /\ <<"ERROR">> \in Seq(Words)
        /\ <<"OK">> \in Seq(Words)
        /\ <<"NO CARRIER">> \in Seq(Words)
        /\ <<"CONNECT">> \in Seq(Words)
        /\ <<"OK", "PB DONE">> \in Seq(Words)
    BY DEF Words
  <2> QED BY <2>2, <2>3
<1>2. lines \in Seq(Line)
  <2>1. /\ Len(reply) \in Nat
        /\ DOMAIN reply = 1..Len(reply)
        /\ \A i \in DOMAIN reply : reply[i] \in Words
    BY <1>1, LenProperties, ElementOfSeq
  <2>2. \A i \in 1..Len(reply) : [id |-> cmd.id, word |-> reply[i]] \in Line
    BY <2>1 DEF Line, Issued
  <2>3. lines = [i \in 1..Len(reply) |-> [id |-> cmd.id, word |-> reply[i]]]
    BY <2>1
  <2>4. [i \in 1..Len(reply) |-> [id |-> cmd.id, word |-> reply[i]]] \in Seq(Line)
    BY <2>1, <2>2, IsASeq
  <2> QED BY <2>3, <2>4
<1>3. IdsOf(LinesOf(lines)) \subseteq {cmd.id}
  BY DEF IdsOf, LinesOf
<1> QED BY <1>2, <1>3

(* A caller between commands holds a well-formed command too.              *)
LEMMA NoCommandType == NoCommand \in Issued
  BY DEF NoCommand, Issued, AllKinds

(* Each step keeps the types of the shared words and of both tasks.        *)
LEMMA TypeStep == TypeOK /\ [Next]_vars => TypeOK'
<1> SUFFICES ASSUME TypeOK, [Next]_vars PROVE TypeOK'
  OBVIOUS
<1> USE DEF TypeOK, callerVars, recvVars
<1>1. ASSUME NEW c \in Callers, InstallHandler(c)  PROVE TypeOK'
  BY <1>1, KindsAssumption DEF InstallHandler, Issued, LineQuiet
<1>2. ASSUME NEW c \in Callers, WriteCommand(c)  PROVE TypeOK'
  BY <1>2, LinesOfAppend DEF WriteCommand
<1>3. ASSUME NEW c \in Callers, WaitSatisfied(c)  PROVE TypeOK'
  BY <1>3 DEF WaitSatisfied
<1>4. ASSUME NEW c \in Callers, WaitTimeout(c)  PROVE TypeOK'
  BY <1>4 DEF WaitTimeout
<1>5. ASSUME NEW c \in Callers, RemoveHandler(c)  PROVE TypeOK'
  BY <1>5, NoCommandType DEF RemoveHandler
<1>6. ASSUME NEW c \in Callers, Judge(c)  PROVE TypeOK'
  BY <1>6, NoCommandType DEF Judge
<1>7. CASE ReadLines
  <2>1. PICK n \in 1..Len(rx) :
          /\ rx' = SubSeq(rx, n + 1, Len(rx))
          /\ buffer' \in {buffer, LinesOf(SubSeq(rx, 1, n))}
    BY <1>7 DEF ReadLines
  <2>2. LinesOf(rx) \subseteq Line
    BY DEF LinesOf
  <2>3. rx' \in Seq(Line) /\ buffer' \in SUBSET Line
    BY <2>1, <2>2, LinesOfSplit
  <2> QED BY <1>7, <2>3 DEF ReadLines
<1>8. CASE CallHandler
  <2>1. IdsOf(buffer) \in SUBSET (Ids \cup {NoId})
    BY DEF IdsOf, Line
  <2>2. Outcome(handleLine, WordsOf(buffer)) \in {"none", "SUCCESS", "FAIL"}
    BY DEF Outcome
  <2> QED BY <1>8, <2>1, <2>2 DEF CallHandler
<1>9. CASE CallNullHandler
  BY <1>9, NoCommandType, EmptySeq DEF CallNullHandler
<1>10. CASE SetCommandBit
  BY <1>10 DEF SetCommandBit
<1>11. CASE Answer
  <2>1. /\ Head(pending) \in Issued
        /\ Tail(pending) \in Seq(Issued)
    BY <1>11, LinesOfTail DEF Answer
  <2>2. rx' \in Seq(Line)
    BY SMTT(30), <1>11, <2>1, ReplyLines, LinesOfConcat DEF Answer
  <2> QED BY <1>11, <2>1, <2>2 DEF Answer
<1>12. CASE ReportCarrierLost
  BY <1>12, LinesOfAppend DEF ReportCarrierLost, Line, Words
<1>13. CASE UNCHANGED vars
  BY <1>13 DEF vars
<1> QED
  BY <1>1, <1>2, <1>3, <1>4, <1>5, <1>6, <1>7, <1>8, <1>9, <1>10, <1>11,
     <1>12, <1>13 DEF Next, Caller, Finish, Receiver, Modem

(* The shared words and the state of both tasks always have their types.   *)
THEOREM TypeCorrect == Spec => []TypeOK
<1>1. Init => TypeOK
  BY NoCommandType, EmptySeq DEF Init, TypeOK
<1> QED BY <1>1, TypeStep, PTL DEF Spec

-----------------------------------------------------------------------------
(* A command that has the line for itself gets its own verdict.            *)

(* What holds between the two ends while caller c's command is alone.      *)
LineServes(c) ==
  /\ \A d \in Callers \ {c} : callerPc[d] = "idle"
  /\ IdsOf(LinesOf(rx)) \subseteq {command[c].id}
  /\ IdsOf(LinesOf(pending)) \subseteq {command[c].id}
  /\ IdsOf(buffer) \subseteq {command[c].id}
  /\ callerPc[c] = "installed" => rx = <<>> /\ pending = <<>> /\ recvPc = "loop"
  /\ callerPc[c] \in {"installed", "waiting"} => ~commandBit
  /\ recvPc = "marking" => VerdictIsOwn(c)
  /\ callerPc[c] = "returning" /\ completed[c] => VerdictIsOwn(c)
  /\ callerPc[c] = "judging" => VerdictIsOwn(c)

BufferInv == (recvPc = "calling") <=> (buffer # {})

AloneInv ==
  /\ BufferInv
  /\ \A c \in Callers : alone[c] /\ callerPc[c] # "idle" => LineServes(c)

(* The identities of a set of lines or commands.                           *)
LEMMA IdsProperties ==
  /\ \A A, B : A \subseteq B => IdsOf(A) \subseteq IdsOf(B)
  /\ \A A, B : IdsOf(A \cup B) = IdsOf(A) \cup IdsOf(B)
  /\ \A A : \A l \in A : l.id \in IdsOf(A)
  /\ \A l : IdsOf({l}) = {l.id}
  /\ IdsOf({}) = {}
  BY DEF IdsOf

(* Each step keeps the line to the one command that is alone on it.        *)
LEMMA AloneStep == TypeOK /\ AloneInv /\ [Next]_vars => AloneInv'
<1> SUFFICES ASSUME TypeOK, AloneInv, [Next]_vars  PROVE AloneInv'
  OBVIOUS
<1>a. BufferInv'
  <2>1. CASE ReadLines
    <3> SUFFICES ASSUME handleLine # NoHandler  PROVE BufferInv'
      BY <2>1 DEF ReadLines, recvVars, AloneInv, BufferInv
    <3>1. PICK n \in 1..Len(rx) : buffer' = LinesOf(SubSeq(rx, 1, n))
      BY <2>1 DEF ReadLines
    <3> QED BY <2>1, <3>1, LinesOfSplit DEF ReadLines, TypeOK, BufferInv
  <2>2. CASE CallHandler \/ CallNullHandler \/ SetCommandBit
    BY <2>2 DEF CallHandler, CallNullHandler, SetCommandBit, AloneInv, BufferInv
  <2>3. CASE Modem
    BY <2>3 DEF Modem, Answer, ReportCarrierLost, recvVars, AloneInv, BufferInv
  <2>4. ASSUME NEW c \in Callers, Caller(c)  PROVE BufferInv'
    BY <2>4 DEF Caller, Finish, InstallHandler, WriteCommand, WaitSatisfied,
                WaitTimeout, RemoveHandler, Judge, recvVars, AloneInv, BufferInv
  <2>5. CASE UNCHANGED vars
    BY <2>5 DEF vars, recvVars, AloneInv, BufferInv
  <2> QED BY <2>1, <2>2, <2>3, <2>4, <2>5 DEF Next, Receiver
<1>b. ASSUME NEW e \in Callers, alone'[e], callerPc'[e] # "idle"
      PROVE  LineServes(e)'
  <2> USE <1>b DEF TypeOK, AloneInv
  <2>1. ASSUME NEW c \in Callers, InstallHandler(c)  PROVE LineServes(e)'
    <3>1. e = c /\ LineQuiet
      BY <2>1 DEF InstallHandler
    <3>2. buffer = {}
      BY <3>1 DEF LineQuiet, BufferInv
    <3> QED BY <2>1, <3>1, <3>2 DEF InstallHandler, LineQuiet, LineServes,
                                    recvVars, IdsOf, LinesOf
  <2>2. ASSUME NEW c \in Callers, WriteCommand(c)  PROVE LineServes(e)'
    <3>1. e = c /\ alone[e] /\ callerPc[e] = "installed" /\ LineServes(e)
      BY <2>2 DEF WriteCommand, LineServes
    <3>2. LinesOf(pending') = {command[e]}
      <4>1. LinesOf(pending') = LinesOf(pending) \cup {command[e]}
        BY <2>2, <3>1, LinesOfAppend DEF WriteCommand
      <4>2. LinesOf(pending) = {}
        BY <3>1 DEF LineServes, LinesOf
      <4> QED BY <4>1, <4>2
    <3>3. IdsOf(LinesOf(pending')) = {command[e].id}
      BY <3>2, IdsProperties
    <3> QED BY <2>2, <3>1, <3>3 DEF WriteCommand, LineServes, recvVars
  <2>3. ASSUME NEW c \in Callers, WaitSatisfied(c)  PROVE LineServes(e)'
    BY <2>3 DEF WaitSatisfied, LineServes, recvVars
  <2>4. ASSUME NEW c \in Callers, WaitTimeout(c)  PROVE LineServes(e)'
    BY <2>4 DEF WaitTimeout, LineServes, recvVars, VerdictIsOwn
  <2>5. ASSUME NEW c \in Callers, RemoveHandler(c)  PROVE LineServes(e)'
    BY <2>5 DEF RemoveHandler, LineServes, recvVars, VerdictIsOwn
  <2>6. ASSUME NEW c \in Callers, Judge(c)  PROVE LineServes(e)'
    BY <2>6 DEF Judge, LineServes, recvVars
  <2>7. CASE ReadLines
    <3>1. alone[e] /\ LineServes(e) /\ UNCHANGED callerVars
      BY <2>7 DEF ReadLines, callerVars
    <3>2. PICK n \in 1..Len(rx) :
            /\ rx' = SubSeq(rx, n + 1, Len(rx))
            /\ buffer' \in {buffer, LinesOf(SubSeq(rx, 1, n))}
      BY <2>7 DEF ReadLines, recvVars
    <3>3. /\ IdsOf(LinesOf(rx')) \subseteq {command[e].id}
          /\ IdsOf(buffer') \subseteq {command[e].id}
      BY <3>1, <3>2, LinesOfSplit, IdsProperties DEF LineServes
    <3>4. callerPc[e] # "installed"
      BY <2>7, <3>1, <3>2 DEF LineServes
    <3>5. recvPc' # "marking"
      BY <2>7 DEF ReadLines, recvVars
    <3> QED BY <2>7, <3>1, <3>3, <3>4, <3>5
            DEF ReadLines, LineServes, callerVars, VerdictIsOwn
  <2>8. CASE CallHandler
    <3>1. alone[e] /\ LineServes(e) /\ UNCHANGED callerVars
      BY <2>8 DEF CallHandler, callerVars
    <3>2. buffer # {} /\ IdsOf(buffer) = {command[e].id}
      <4>1. buffer # {} /\ IdsOf(buffer) \subseteq {command[e].id}
        BY <2>8, <3>1 DEF CallHandler, LineServes, BufferInv
      <4>2. PICK l \in buffer : TRUE
        BY <4>1
      <4>3. l.id \in IdsOf(buffer)
        BY IdsProperties
      <4> QED BY <4>1, <4>3
    <3>3. IdsOf(buffer') = {}
      BY <2>8, IdsProperties DEF CallHandler
    <3>4. Outcome(handleLine, WordsOf(buffer)) \in {"none", "SUCCESS", "FAIL"}
      BY DEF Outcome
    <3> QED BY <2>8, <3>1, <3>2, <3>3, <3>4
            DEF CallHandler, LineServes, callerVars, VerdictIsOwn
  <2>9. CASE CallNullHandler
    BY <2>9 DEF CallNullHandler
  <2>10. CASE SetCommandBit
    BY <2>10 DEF SetCommandBit, LineServes, VerdictIsOwn
  <2>11. CASE Answer
    <3>1. alone[e] /\ LineServes(e) /\ UNCHANGED <<callerVars, recvVars>>
      BY <2>11 DEF Answer, callerVars
    <3>2. /\ Head(pending) \in Issued
          /\ Head(pending) \in LinesOf(pending)
          /\ LinesOf(pending') \subseteq LinesOf(pending)
      BY <2>11, LinesOfTail DEF Answer
    <3>3. /\ IdsOf(LinesOf(pending')) \subseteq {command[e].id}
          /\ Head(pending).id = command[e].id
      BY <3>1, <3>2, IdsProperties DEF LineServes
    <3>4. PICK reply \in Replies(Head(pending).kind) :
            rx' = rx \o [i \in DOMAIN reply |->
                           [id |-> Head(pending).id, word |-> reply[i]]]
      BY <2>11 DEF Answer
    <3>5. IdsOf(LinesOf(rx')) \subseteq {command[e].id}
      <4> DEFINE lines == [i \in DOMAIN reply |->
                             [id |-> Head(pending).id, word |-> reply[i]]]
      <4>1. lines \in Seq(Line) /\ IdsOf(LinesOf(lines)) \subseteq {command[e].id}
        BY <3>2, <3>3, ReplyLines
      <4>2. rx' = rx \o lines
        BY <3>4
      <4> HIDE DEF lines
      <4>3. LinesOf(rx') = LinesOf(rx) \cup LinesOf(lines)
        BY <4>1, <4>2, LinesOfConcat
      <4>4. IdsOf(LinesOf(rx')) = IdsOf(LinesOf(rx)) \cup IdsOf(LinesOf(lines))
        BY <4>3, IdsProperties
      <4> QED BY <3>1, <4>1, <4>4 DEF LineServes
    <3>6. callerPc[e] # "installed"
      BY <2>11, <3>1 DEF Answer, LineServes
    <3> QED BY <2>11, <3>1, <3>3, <3>5, <3>6
            DEF Answer, LineServes, callerVars, recvVars, VerdictIsOwn
  <2>12. CASE ReportCarrierLost
    BY <2>12 DEF ReportCarrierLost
  <2>13. CASE UNCHANGED vars
    BY <2>13 DEF vars, callerVars, recvVars, LineServes, VerdictIsOwn
  <2> QED
    BY <2>1, <2>2, <2>3, <2>4, <2>5, <2>6, <2>7, <2>8, <2>9, <2>10, <2>11,
       <2>12, <2>13 DEF Next, Caller, Finish, Receiver, Modem
<1> QED BY <1>a, <1>b DEF AloneInv

(* A command that starts on a quiet line and has it for itself returns the *)
(* verdict its own answer gave, whatever the timing of the answers.        *)
THEOREM AloneCorrect == Spec => []AloneOwnAnswer
<1>1. Init => AloneInv
  BY DEF Init, AloneInv, BufferInv
<1>2. AloneInv => AloneOwnAnswer
  BY DEF AloneInv, LineServes, AloneOwnAnswer
<1> QED BY <1>1, <1>2, AloneStep, TypeCorrect, PTL DEF Spec

-----------------------------------------------------------------------------
(* One caller, and a modem that answers in time or never: nothing that     *)
(* belongs to a command outlives it.                                       *)

Prompt == /\ ~LateAnswers
          /\ MaxUnsolicited = 0
          /\ \A c, d \in Callers : c = d

(* An answer of two lines is that of a reset; the first decides nothing.   *)
TwoLines(c) == /\ Len(rx) = 2
               /\ command[c].kind = "AT+RESET"
               /\ rx[1].word = "OK"

(* The command that is waited for is in one place between the two ends:    *)
(* written, answered, before its handler, or judged.                       *)
OnItsWay(c) ==
  /\ IdsOf(LinesOf(rx)) \cup IdsOf(LinesOf(pending)) \subseteq {command[c].id}
  /\ IdsOf(buffer) \subseteq {command[c].id}
  /\ pending # <<>> =>
       pending = <<command[c]>> /\ rx = <<>> /\ recvPc = "loop"
  /\ recvPc = "loop" => Len(rx) <= 1 \/ TwoLines(c)
  /\ recvPc = "calling" /\ rx # <<>> =>
       /\ Len(rx) = 1 /\ command[c].kind = "AT+RESET"
       /\ "OK" \in WordsOf(buffer)
  /\ recvPc = "marking" => rx = <<>> /\ VerdictIsOwn(c)

Waiting == \E c \in Callers : callerPc[c] = "waiting"

PromptInv ==
  /\ BufferInv
  /\ ~commandBit
  /\ ~Waiting => rx = <<>> /\ pending = <<>> /\ recvPc = "loop"
  /\ \A c \in Callers :
       /\ callerPc[c] \in {"installed", "waiting", "returning"} =>
            handleLine = command[c].kind
       /\ callerPc[c] = "waiting" => OnItsWay(c)
       /\ callerPc[c] = "returning" /\ completed[c] => VerdictIsOwn(c)
       /\ callerPc[c] = "judging" => VerdictIsOwn(c)

(* The modem sends nothing on its own.                                     *)
LEMMA NoUnsolicited ==
  ASSUME TypeOK, MaxUnsolicited = 0
  PROVE  ~ReportCarrierLost
<1> DEFINE own == {i \in DOMAIN rx : rx[i].id = NoId}
<1>1. Len(rx) \in Nat /\ DOMAIN rx = 1..Len(rx)
  BY LenProperties DEF TypeOK
<1>2. IsFiniteSet(DOMAIN rx)
  BY <1>1, FS_Interval
<1>3. IsFiniteSet(own)
  BY <1>2, FS_Subset
<1>4. Cardinality(own) \in Nat
  BY <1>3, FS_CardinalityType
<1>5. ~(Cardinality(own) < MaxUnsolicited)
  BY <1>4
<1> QED BY <1>5, Zenon DEF ReportCarrierLost

(* A command is answered by one line, or by two when it is a reset.        *)
LEMMA ReplyLength ==
  ASSUME NEW cmd \in Issued, NEW reply \in Replies(cmd.kind)
  PROVE  LET lines == [i \in DOMAIN reply |-> [id |-> cmd.id, word |-> reply[i]]]
         IN  \/ Len(lines) <= 1
             \/ /\ Len(lines) = 2 /\ cmd.kind = "AT+RESET"
                /\ lines[1].word = "OK"
<1> DEFINE lines == [i \in DOMAIN reply |-> [id |-> cmd.id, word |-> reply[i]]]
<1>1. lines \in Seq(Line)
  BY ReplyLines
<1>2. \/ reply \in {<<>>, <<"ERROR">>, <<"OK">>, <<"NO CARRIER">>, <<"CONNECT">>}
      \/ reply = <<"OK", "PB DONE">> /\ cmd.kind = "AT+RESET"
  BY DEF Replies, Issued, AllKinds
<1>3. /\ Len(lines) \in Nat
      /\ DOMAIN lines = 1..Len(lines)
  BY <1>1, LenProperties
<1>4. DOMAIN lines = DOMAIN reply
  OBVIOUS
<1>5. ASSUME reply \in {<<>>, <<"ERROR">>, <<"OK">>, <<"NO CARRIER">>, <<"CONNECT">>}
      PROVE  Len(lines) <= 1
  <2>0. CASE reply = <<>>
    BY <1>3, <1>4, <2>0
  <2>1. ASSUME NEW w, reply = <<w>>  PROVE Len(lines) <= 1
    <3>1. Len(<<w>>) = 1 /\ DOMAIN <<w>> = 1..1
      OBVIOUS
    <3> QED BY <1>3, <1>4, <2>1, <3>1
  <2> QED BY <1>5, <2>0, <2>1
<1>6. ASSUME reply = <<"OK", "PB DONE">>
      PROVE  Len(lines) = 2 /\ lines[1].word = "OK"
  <2>0. /\ Len(<<"OK", "PB DONE">>) = 2
        /\ DOMAIN <<"OK", "PB DONE">> = 1..2
        /\ <<"OK", "PB DONE">>[1] = "OK"
    OBVIOUS
  <2>1. Len(reply) = 2 /\ DOMAIN reply = 1..2 /\ reply[1] = "OK"
    BY <1>6, <2>0
  <2>2. 1 \in DOMAIN reply
    BY <2>1
  <2>3. lines[1].word = "OK"
    BY <2>1, <2>2
  <2> QED BY <1>3, <1>4, <2>1, <2>3
<1> QED BY <1>2, <1>5, <1>6

(* A line that is there names its command.                                 *)
LEMMA NothingThere ==
  ASSUME NEW S, NEW s \in Seq(S), NEW id,
         IdsOf(LinesOf(s)) \subseteq {id}, id \notin IdsOf(LinesOf(s))
  PROVE  s = <<>>
<1>1. LinesOf(s) = {}
  <2>1. \A l \in LinesOf(s) : l.id \in {id} /\ l.id \in IdsOf(LinesOf(s))
    BY IdsProperties
  <2> QED BY <2>1
<1>2. DOMAIN s = 1..Len(s) /\ Len(s) \in Nat
  BY LenProperties
<1>3. Len(s) = 0
  <2> SUFFICES ASSUME 1 \in DOMAIN s  PROVE FALSE
    BY <1>2
  <2>1. s[1] \in LinesOf(s)
    BY DEF LinesOf
  <2> QED BY <1>1, <2>1
<1> QED BY <1>3, EmptySeq

(* What the receive task reads of an answer it had waited for: the whole   *)
(* answer, or the first of two lines.                                      *)
LEMMA ReadOfAnswer ==
  ASSUME NEW S, NEW s \in Seq(S), NEW n \in 1..Len(s), Len(s) <= 2
  PROVE  /\ Len(s) = 1 => SubSeq(s, n + 1, Len(s)) = <<>>
         /\ Len(s) = 2 => \/ SubSeq(s, n + 1, Len(s)) = <<>>
                          \/ /\ Len(SubSeq(s, n + 1, Len(s))) = 1
                             /\ n = 1
         /\ s[1] \in LinesOf(SubSeq(s, 1, n))
<1>0. Len(s) \in Nat /\ n \in Nat /\ n >= 1 /\ n <= Len(s)
  BY LenProperties
<1>1. /\ SubSeq(s, 1, n) \in Seq(S)
      /\ Len(SubSeq(s, 1, n)) = n
      /\ SubSeq(s, 1, n)[1] = s[1]
  <2>1. \A i \in 1..n : s[i] \in S
    BY <1>0, ElementOfSeq
  <2>2. /\ SubSeq(s, 1, n) \in Seq(S)
        /\ Len(SubSeq(s, 1, n)) = IF 1 <= n THEN n - 1 + 1 ELSE 0
        /\ \A i \in 1..(n - 1 + 1) : SubSeq(s, 1, n)[i] = s[1 + i - 1]
    BY <1>0, <2>1, SubSeqProperties
  <2> QED BY <1>0, <2>2
<1>2. /\ SubSeq(s, n + 1, Len(s)) \in Seq(S)
      /\ Len(SubSeq(s, n + 1, Len(s))) = Len(s) - n
  <2>1. \A i \in (n + 1)..Len(s) : s[i] \in S
    BY <1>0, ElementOfSeq
  <2>2. /\ SubSeq(s, n + 1, Len(s)) \in Seq(S)
        /\ Len(SubSeq(s, n + 1, Len(s))) =
             IF n + 1 <= Len(s) THEN Len(s) - (n + 1) + 1 ELSE 0
    BY <1>0, <2>1, SubSeqProperties
  <2> QED BY <1>0, <2>2
<1>3. 1 \in DOMAIN SubSeq(s, 1, n)
  BY <1>0, <1>1, LenProperties
<1>4. s[1] \in LinesOf(SubSeq(s, 1, n))
  BY <1>1, <1>3 DEF LinesOf
<1>5. Len(s) - n = 0 => SubSeq(s, n + 1, Len(s)) = <<>>
  BY <1>2, EmptySeq
<1> QED BY <1>0, <1>2, <1>4, <1>5

(* Nothing is between the two ends.                                        *)
LEMMA NothingOnItsWay ==
  /\ LinesOf(<<>>) = {}
  /\ IdsOf(LinesOf(<<>>)) = {}
  BY DEF LinesOf, IdsOf

(* The steps of the caller keep the promise.                               *)
LEMMA PromptCallerStep ==
  ASSUME Prompt, TypeOK, PromptInv, NEW c \in Callers, Caller(c)
  PROVE  PromptInv'
<1> USE DEF TypeOK, PromptInv, callerVars, recvVars
<1>1. \A d \in Callers : d = c
  BY DEF Prompt
<1>2. Waiting <=> callerPc[c] = "waiting"
  BY <1>1 DEF Waiting
<1>3. Waiting' <=> callerPc'[c] = "waiting"
  BY <1>1 DEF Waiting
<1>4. CASE InstallHandler(c)
  BY <1>1, <1>2, <1>3, <1>4 DEF InstallHandler, BufferInv
<1>5. CASE WriteCommand(c)
  <2>1. /\ rx = <<>> /\ pending = <<>> /\ recvPc = "loop" /\ buffer = {}
    BY <1>2, <1>5 DEF WriteCommand, BufferInv
  <2>2. pending' = <<command[c]>>
    BY <1>5, <2>1 DEF WriteCommand
  <2>3. IdsOf(LinesOf(pending')) = {command[c].id}
    <3>1. LinesOf(pending') = LinesOf(pending) \cup {command[c]}
      BY <1>5, LinesOfAppend DEF WriteCommand
    <3> QED BY <2>1, <3>1, NothingOnItsWay, IdsProperties
  <2>4. Len(rx') = 0 /\ IdsOf(LinesOf(rx')) = {} /\ IdsOf(buffer') = {}
    <3>1. Len(<<>>) = 0
      OBVIOUS
    <3> QED BY <1>5, <2>1, <3>1, NothingOnItsWay, IdsProperties DEF WriteCommand
  <2>5. OnItsWay(c)'
    BY <1>5, <2>1, <2>2, <2>3, <2>4 DEF WriteCommand, OnItsWay
  <2> QED BY <1>1, <1>3, <1>5, <2>1, <2>5 DEF WriteCommand, BufferInv
<1>6. CASE WaitSatisfied(c)
  BY <1>6 DEF WaitSatisfied
<1>7. CASE WaitTimeout(c)
  <2>1. OnItsWay(c) /\ ~AnswerStillDue(c)
    BY <1>7 DEF WaitTimeout, Prompt
  <2>2. rx = <<>> /\ pending = <<>> /\ recvPc = "loop"
    BY <2>1, NothingThere, IdsProperties DEF OnItsWay, AnswerStillDue
  <2> QED BY <1>1, <1>2, <1>3, <1>7, <2>2 DEF WaitTimeout, BufferInv
<1>8. CASE RemoveHandler(c)
  BY <1>1, <1>2, <1>3, <1>8 DEF RemoveHandler, BufferInv, VerdictIsOwn
<1>9. CASE Judge(c)
  BY <1>1, <1>2, <1>3, <1>9 DEF Judge, BufferInv
<1> QED BY <1>4, <1>5, <1>6, <1>7, <1>8, <1>9 DEF Caller, Finish

(* The steps of the receive task and of the modem keep the promise.        *)
LEMMA PromptOtherStep ==
  ASSUME Prompt, TypeOK, PromptInv, Receiver \/ Modem
  PROVE  PromptInv'
<1> USE DEF TypeOK, PromptInv
<1>1. BufferInv'
  <2>1. CASE ReadLines
    <3> SUFFICES ASSUME handleLine # NoHandler  PROVE BufferInv'
      BY <2>1 DEF ReadLines, recvVars, BufferInv
    <3>1. PICK n \in 1..Len(rx) : buffer' = LinesOf(SubSeq(rx, 1, n))
      BY <2>1 DEF ReadLines
    <3> QED BY <2>1, <3>1, LinesOfSplit DEF ReadLines, BufferInv
  <2>2. CASE CallHandler \/ CallNullHandler \/ SetCommandBit
    BY <2>2 DEF CallHandler, CallNullHandler, SetCommandBit, BufferInv
  <2>3. CASE Modem
    BY <2>3 DEF Modem, Answer, ReportCarrierLost, recvVars, BufferInv
  <2> QED BY <2>1, <2>2, <2>3 DEF Receiver
<1>2. PICK c \in Callers : callerPc[c] = "waiting"
  <2>1. ~ReportCarrierLost
    BY NoUnsolicited DEF Prompt
  <2>2. rx # <<>> \/ pending # <<>> \/ recvPc # "loop"
    <3>1. Len(<<>>) = 0
      OBVIOUS
    <3> QED BY <2>1, <3>1, LenProperties
            DEF Receiver, Modem, ReadLines, CallHandler, CallNullHandler,
                SetCommandBit, Answer
  <2> QED BY <2>2 DEF Waiting
<1>3. \A d \in Callers : d = c
  BY DEF Prompt
<1>4. /\ OnItsWay(c) /\ handleLine = command[c].kind /\ handleLine # NoHandler
      /\ ~commandBit
  BY <1>2 DEF Issued, AllKinds, NoHandler
<1>5. CASE ReadLines
  <2>1. recvPc = "loop" /\ recvPc' = "calling"
        /\ UNCHANGED <<handleLine, dceState, commandBit, callerVars, pending,
                       stateBy>>
    BY <1>4, <1>5 DEF ReadLines
  <2>2. PICK n \in 1..Len(rx) :
          /\ rx' = SubSeq(rx, n + 1, Len(rx))
          /\ buffer' = LinesOf(SubSeq(rx, 1, n))
    BY <1>4, <1>5 DEF ReadLines
  <2>3. Len(rx) \in Nat /\ Len(rx) >= 1 /\ rx # <<>> /\ pending = <<>>
    BY <1>4, <2>2, LenProperties, EmptySeq DEF OnItsWay
  <2>a. Len(rx) <= 1 \/ TwoLines(c)
    BY <1>4, <2>1, Zenon DEF OnItsWay
  <2>b. Len(rx) <= 1 => Len(rx) = 1
    <3> HIDE DEF TypeOK, PromptInv
    <3>1. PICK m \in Nat : m = Len(rx) /\ m >= 1
      BY <2>3
    <3> QED BY <3>1
  <2>4. Len(rx) = 1 \/ TwoLines(c)
    BY <2>a, <2>b, Zenon
  <2>5. rx' # <<>> =>
          Len(rx') = 1 /\ command[c].kind = "AT+RESET" /\ "OK" \in WordsOf(buffer')
    <3>1. Len(rx) <= 2
      <4>1. CASE Len(rx) = 1
        BY <4>1
      <4>2. CASE TwoLines(c)
        <5>1. Len(rx) = 2
          BY <4>2 DEF TwoLines
        <5> QED BY <5>1
      <4> QED BY <2>4, <4>1, <4>2
    <3>2. rx[1] \in buffer'
      BY <2>2, <3>1, ReadOfAnswer
    <3>3. rx[1].word \in WordsOf(buffer')
      BY <3>2 DEF WordsOf
    <3> QED BY <2>2, <2>4, <3>1, <3>3, ReadOfAnswer DEF TwoLines
  <2>6. /\ IdsOf(LinesOf(rx')) \subseteq {command[c].id}
        /\ IdsOf(buffer') \subseteq {command[c].id}
    <3>1. LinesOf(rx') \subseteq LinesOf(rx) /\ buffer' \subseteq LinesOf(rx)
      BY <2>2, LinesOfSplit
    <3>2. IdsOf(LinesOf(rx')) \subseteq IdsOf(LinesOf(rx))
          /\ IdsOf(buffer') \subseteq IdsOf(LinesOf(rx))
      BY <3>1, IdsProperties
    <3> QED BY <1>4, <3>2 DEF OnItsWay
  <2>7. OnItsWay(c)'
    BY <1>4, <2>1, <2>3, <2>5, <2>6 DEF OnItsWay, callerVars
  <2> QED BY <1>1, <1>2, <1>3, <1>4, <2>1, <2>7 DEF callerVars, Waiting
<1>6. CASE CallHandler
  <2>1. /\ recvPc = "calling" /\ buffer # {} /\ buffer' = {}
        /\ UNCHANGED <<handleLine, commandBit, callerVars, rx, pending>>
    BY <1>6 DEF CallHandler, BufferInv
  <2>2. PICK outcome : outcome = Outcome(handleLine, WordsOf(buffer))
    OBVIOUS
  <2>3. IdsOf(buffer) = {command[c].id}
    <3>1. PICK l \in buffer : TRUE
      BY <2>1
    <3>2. l.id \in IdsOf(buffer)
      BY <3>1, IdsProperties
    <3>3. IdsOf(buffer) \subseteq {command[c].id}
      BY <1>4 DEF OnItsWay
    <3> QED BY <3>2, <3>3
  <2>4. pending = <<>>
    BY <1>4, <2>1 DEF OnItsWay
  <2>5. CASE outcome = "none"
    <3>1. recvPc' = "loop" /\ UNCHANGED <<dceState, stateBy>>
      BY <1>6, <2>2, <2>5 DEF CallHandler
    <3>2. Len(rx') <= 1
      <4>1. Len(<<>>) = 0
        OBVIOUS
      <4>2. rx' = <<>> \/ Len(rx') = 1
        BY <1>4, <2>1 DEF OnItsWay
      <4>3. CASE rx' = <<>>
        BY <4>1, <4>3
      <4>4. CASE Len(rx') = 1
        BY <4>4
      <4> QED BY <4>2, <4>3, <4>4
    <3>3. OnItsWay(c)'
      BY <1>4, <2>1, <2>4, <3>1, <3>2, IdsProperties DEF OnItsWay, callerVars
    <3> QED BY <1>1, <1>2, <1>3, <1>4, <2>1, <3>1, <3>3 DEF callerVars, Waiting
  <2>6. CASE outcome # "none"
    <3>1. /\ recvPc' = "marking" /\ dceState' = outcome
          /\ stateBy' = {command[c].id}
      BY <1>6, <2>2, <2>3, <2>6 DEF CallHandler
    <3>2. outcome \in {"SUCCESS", "FAIL"}
      BY <2>2, <2>6 DEF Outcome
    <3>3. rx = <<>>
      BY <1>4, <2>1, <2>2, <2>6 DEF OnItsWay, Outcome
    <3>4. OnItsWay(c)'
      BY <1>4, <2>1, <2>4, <3>1, <3>2, <3>3, IdsProperties
         DEF OnItsWay, VerdictIsOwn, callerVars
    <3> QED BY <1>1, <1>2, <1>3, <1>4, <2>1, <3>1, <3>4 DEF callerVars, Waiting
  <2> QED BY <2>5, <2>6
<1>7. CASE CallNullHandler
  BY <1>4, <1>7 DEF CallNullHandler
<1>8. CASE SetCommandBit
  <2>1. rx = <<>> /\ pending = <<>> /\ VerdictIsOwn(c)
    BY <1>4, <1>8 DEF SetCommandBit, OnItsWay
  <2>2. /\ commandBit' = FALSE
        /\ callerPc'[c] = "returning" /\ recvPc' = "loop"
        /\ UNCHANGED <<handleLine, dceState, command, buffer, rx, pending, stateBy>>
    BY <1>2, <1>8 DEF SetCommandBit
  <2> QED BY <1>1, <1>3, <1>4, <2>1, <2>2 DEF VerdictIsOwn
<1>9. CASE Answer
  <2>1. /\ pending = <<command[c]>> /\ rx = <<>> /\ recvPc = "loop"
        /\ UNCHANGED <<handleLine, dceState, commandBit, callerVars, recvVars,
                       stateBy>>
    BY <1>4, <1>9 DEF Answer, OnItsWay
  <2>2. Head(pending) = command[c] /\ pending' = <<>>
    BY <1>9, <2>1 DEF Answer
  <2>3. PICK reply \in Replies(command[c].kind) :
          rx' = rx \o [i \in DOMAIN reply |->
                         [id |-> command[c].id, word |-> reply[i]]]
    BY <1>9, <2>2 DEF Answer
  <2> DEFINE lines == [i \in DOMAIN reply |->
                         [id |-> command[c].id, word |-> reply[i]]]
  <2>4. command[c] \in Issued
    OBVIOUS
  <2>5. /\ lines \in Seq(Line)
        /\ IdsOf(LinesOf(lines)) \subseteq {command[c].id}
    BY <2>4, ReplyLines
  <2>6. \/ Len(lines) <= 1
        \/ /\ Len(lines) = 2 /\ command[c].kind = "AT+RESET"
           /\ lines[1].word = "OK"
    BY <2>4, ReplyLength
  <2>7. rx' = rx \o lines
    BY <2>3
  <2> HIDE DEF lines
  <2>8. rx' = lines
    BY <2>1, <2>5, <2>7, ConcatEmptySeq
  <2>9. OnItsWay(c)'
    BY <1>4, <2>1, <2>2, <2>5, <2>6, <2>8, NothingOnItsWay
       DEF OnItsWay, TwoLines, callerVars, recvVars
  <2> QED BY <1>1, <1>2, <1>3, <1>4, <2>1, <2>9 DEF callerVars, Waiting
<1>10. ~ReportCarrierLost
  BY NoUnsolicited DEF Prompt
<1> QED BY <1>5, <1>6, <1>7, <1>8, <1>9, <1>10 DEF Receiver, Modem

(* Every step keeps the promise.                                           *)
LEMMA PromptStep ==
  ASSUME Prompt
  PROVE  TypeOK /\ PromptInv /\ [Next]_vars => PromptInv'
<1> SUFFICES ASSUME TypeOK, PromptInv, [Next]_vars  PROVE PromptInv'
  OBVIOUS
<1>1. CASE UNCHANGED vars
  BY <1>1 DEF vars, callerVars, recvVars, PromptInv, BufferInv, Waiting,
              OnItsWay, TwoLines, VerdictIsOwn
<1> QED BY <1>1, PromptCallerStep, PromptOtherStep DEF Next

(* The promise holds before the first command.                             *)
LEMMA PromptInit == Init => PromptInv
  BY DEF Init, PromptInv, BufferInv, Waiting

(* PromptInv gives the three guarantees of a single, prompt caller.        *)
LEMMA PromptGives ==
  ASSUME Prompt, TypeOK, PromptInv
  PROVE  OwnAnswer /\ NoNullCall /\ NoStaleCompletion
<1>1. OwnAnswer
  BY DEF PromptInv, OwnAnswer
<1>2. NoNullCall
  <2> SUFFICES ASSUME recvPc = "calling"  PROVE handleLine # NoHandler
    BY DEF NoNullCall
  <2>1. PICK c \in Callers : callerPc[c] = "waiting"
    BY DEF PromptInv, Waiting
  <2>2. handleLine = command[c].kind /\ command[c] \in Issued
    BY <2>1 DEF PromptInv, TypeOK
  <2> QED BY <2>2 DEF Issued, AllKinds, NoHandler
<1>3. NoStaleCompletion
  BY DEF PromptInv, NoStaleCompletion, Waiting
<1> QED BY <1>1, <1>2, <1>3

(* With one caller and answers that arrive in time or never, a command     *)
(* that returns a verdict returns that of its own answer.                  *)
THEOREM OwnAnswerCorrect == ASSUME Prompt PROVE Spec => []OwnAnswer
<1>1. TypeOK /\ PromptInv => OwnAnswer
  BY PromptGives
<1> QED BY <1>1, PromptInit, PromptStep, TypeCorrect, PTL DEF Spec

(* Under the same conditions the receive task never calls a handler that   *)
(* the caller has cleared.                                                 *)
THEOREM NoNullCallCorrect == ASSUME Prompt PROVE Spec => []NoNullCall
<1>1. TypeOK /\ PromptInv => NoNullCall
  BY PromptGives
<1> QED BY <1>1, PromptInit, PromptStep, TypeCorrect, PTL DEF Spec

(* Under the same conditions no completion survives the command it was     *)
(* for, so the next wait cannot end on it.                                 *)
THEOREM NoStaleCompletionCorrect ==
  ASSUME Prompt PROVE Spec => []NoStaleCompletion
<1>1. TypeOK /\ PromptInv => NoStaleCompletion
  BY PromptGives
<1> QED BY <1>1, PromptInit, PromptStep, TypeCorrect, PTL DEF Spec

-----------------------------------------------------------------------------
(* Under the same conditions ModemCommand implements CommandService.       *)

(* The words that end an answer to each kind of command.                   *)
Decisive(kind) ==
  CASE kind = "AT"       -> {"OK", "ERROR"}
    [] kind = "+++"      -> {"OK", "NO CARRIER", "ERROR"}
    [] kind = "ATD"      -> {"CONNECT", "NO CARRIER", "ERROR"}
    [] kind = "AT+RESET" -> {"PB DONE", "ERROR"}

(* The last line on its way ends the answer; before its handler it may be  *)
(* together with the first of a reset.                                     *)
AnswerEnds(c) ==
  /\ rx # <<>> => rx[Len(rx)].word \in Decisive(command[c].kind)
  /\ recvPc = "calling" /\ rx = <<>> =>
       \E w \in Decisive(command[c].kind) :
         \/ WordsOf(buffer) = {w}
         \/ WordsOf(buffer) = {"OK", w} /\ command[c].kind = "AT+RESET"

ServiceInv ==
  \A c \in Callers :
    /\ callerPc[c] = "waiting" => AnswerEnds(c)
    /\ callerPc[c] = "waiting" /\ recvPc # "marking" =>
         stateBy # {command[c].id}
    /\ callerPc[c] = "returning" /\ ~completed[c] => stateBy # {command[c].id}

(* What a step does to the call of the only caller.                        *)
Moves(c) ==
  \/ UNCHANGED <<Stage(c), AnswerTo(c)>>
  \/ /\ Stage(c) = "idle"
     /\ Stage(c)' = "called" /\ AnswerTo(c)' = "due"
  \/ /\ Stage(c) = "called" /\ AnswerTo(c) = "due"
     /\ Stage(c)' = "called" /\ AnswerTo(c)' \in {"SUCCESS", "FAIL", "none"}
  \/ /\ Stage(c) = "called" /\ AnswerTo(c) \in {"SUCCESS", "FAIL"}
     /\ Stage(c)' = "called" /\ AnswerTo(c)' = "none"
  \/ /\ Stage(c) = "called" /\ AnswerTo(c) \in {"SUCCESS", "FAIL"}
     /\ Stage(c)' = "returns" /\ AnswerTo(c)' = AnswerTo(c)
  \/ /\ Stage(c) = "returns"
     /\ Stage(c)' = "idle" /\ AnswerTo(c)' = "none"
  \/ /\ Stage(c) = "called" /\ AnswerTo(c) = "none"
     /\ Stage(c)' = "idle" /\ AnswerTo(c)' = "none"

(* Every one of them is a step of the service.                             *)
LEMMA MovesServe ==
  ASSUME Prompt, NEW c \in Callers, Moves(c)
  PROVE  [Service!Next]_(Service!vars)
<1> DEFINE st == [d \in Callers |-> Stage(d)]
           an == [d \in Callers |-> AnswerTo(d)]
<1>1. \A d \in Callers : d = c
  BY DEF Prompt
<1>2. st[c] = Stage(c) /\ an[c] = AnswerTo(c)
  OBVIOUS
<1>3. /\ \A v : Stage(c)' = v => st' = [st EXCEPT ![c] = v]
      /\ \A v : AnswerTo(c)' = v => an' = [an EXCEPT ![c] = v]
  BY <1>1
<1>4. /\ Stage(c)' = Stage(c) => st' = st
      /\ AnswerTo(c)' = AnswerTo(c) => an' = an
  BY <1>1
<1>5. /\ Service!vars = <<st, an>>
      /\ \A d : Service!Call(d) <=>
           /\ st[d] = "idle"
           /\ st' = [st EXCEPT ![d] = "called"]
           /\ an' = [an EXCEPT ![d] = "due"]
      /\ \A d : Service!Serve(d) <=>
           /\ st[d] = "called" /\ an[d] = "due"
           /\ \E v \in {"SUCCESS", "FAIL", "none"} : an' = [an EXCEPT ![d] = v]
           /\ st' = st
      /\ \A d : Service!Lose(d) <=>
           /\ st[d] = "called" /\ an[d] \in {"SUCCESS", "FAIL"}
           /\ an' = [an EXCEPT ![d] = "none"] /\ st' = st
      /\ \A d : Service!Complete(d) <=>
           /\ st[d] = "called" /\ an[d] \in {"SUCCESS", "FAIL"}
           /\ st' = [st EXCEPT ![d] = "returns"] /\ an' = an
      /\ \A d : Service!Return(d) <=>
           /\ st[d] = "returns" /\ st' = [st EXCEPT ![d] = "idle"]
           /\ an' = [an EXCEPT ![d] = "none"]
      /\ \A d : Service!TimeOut(d) <=>
           /\ st[d] = "called" /\ an[d] = "none"
           /\ st' = [st EXCEPT ![d] = "idle"] /\ an' = an
  BY DEF Service!vars, Service!Call, Service!Serve, Service!Lose,
         Service!Complete, Service!Return, Service!TimeOut, Service!Verdicts
<1>6. Moves(c) =>
        \/ st' = st /\ an' = an
        \/ Service!Call(c) \/ Service!Serve(c) \/ Service!Lose(c)
        \/ Service!Complete(c) \/ Service!Return(c) \/ Service!TimeOut(c)
  <2> HIDE DEF st, an
  <2> QED
    BY <1>2, <1>3, <1>4, <1>5 DEF Moves
<1>7. st' = st /\ an' = an => UNCHANGED Service!vars
  <2>1. Service!vars' = <<st', an'>>
    BY DEF Service!vars
  <2> HIDE DEF st, an
  <2> QED
    BY <1>5, <2>1
<1>8. /\ \/ Service!Call(c) \/ Service!Serve(c) \/ Service!Lose(c)
         \/ Service!Complete(c) \/ Service!Return(c) \/ Service!TimeOut(c)
      => Service!Next
  BY DEF Service!Next
<1> HIDE DEF st, an
<1> QED
  BY <1>6, <1>7, <1>8

(* The last line of a reply decides it.                                    *)
LEMMA ReplyEnds ==
  ASSUME NEW cmd \in Issued, NEW reply \in Replies(cmd.kind)
  PROVE  LET lines == [i \in DOMAIN reply |->
                         [id |-> cmd.id, word |-> reply[i]]]
         IN  lines # <<>> => lines[Len(lines)].word \in Decisive(cmd.kind)
<1> DEFINE lines == [i \in DOMAIN reply |-> [id |-> cmd.id, word |-> reply[i]]]
<1> SUFFICES ASSUME lines # <<>>
             PROVE  lines[Len(lines)].word \in Decisive(cmd.kind)
  OBVIOUS
<1>1. lines \in Seq(Line) /\ Len(lines) \in Nat
  BY ReplyLines, LenProperties
<1>2. cmd.kind \in AllKinds
  BY DEF Issued
<1>3. CASE reply = <<>>
  <2>1. DOMAIN lines = {} /\ DOMAIN lines = 1..Len(lines)
    BY <1>1, <1>3, LenProperties
  <2>2. Len(lines) = 0
    BY <1>1, <2>1
  <2> QED
    BY <1>1, <2>2, EmptySeq
<1>4. ASSUME NEW w \in Decisive(cmd.kind), reply = <<w>>
      PROVE  lines[Len(lines)].word \in Decisive(cmd.kind)
  <2>1. DOMAIN reply = 1..1 /\ reply[1] = w
    BY <1>4
  <2>2. DOMAIN lines = 1..1 /\ lines[1].word = w
    BY <2>1
  <2>3. Len(lines) = 1
    BY <1>1, <2>2, LenProperties
  <2> QED
    BY <2>2, <2>3
<1>5. ASSUME reply = <<"OK", "PB DONE">>, cmd.kind = "AT+RESET"
      PROVE  lines[Len(lines)].word \in Decisive(cmd.kind)
  <2>0. /\ Len(<<"OK", "PB DONE">>) = 2 /\ DOMAIN <<"OK", "PB DONE">> = 1..2
        /\ <<"OK", "PB DONE">>[2] = "PB DONE"
    OBVIOUS
  <2>1. DOMAIN reply = 1..2 /\ reply[2] = "PB DONE"
    BY <1>5, <2>0
  <2>2. 2 \in DOMAIN reply
    <3>1. 2 \in 1..2
      OBVIOUS
    <3> QED
      BY <2>1, <3>1
  <2>3. DOMAIN lines = 1..2 /\ lines[2].word = "PB DONE"
    BY <2>1, <2>2
  <2>4. Len(lines) = 2
    <3>1. DOMAIN lines = 1..Len(lines)
      BY <1>1, LenProperties
    <3> DEFINE n == Len(lines)
    <3>2. n \in Nat /\ 1..n = 1..2
      BY <1>1, <2>3, <3>1
    <3> HIDE DEF n
    <3>3. n = 2
      <4>1. 2 \in 1..2 /\ (n >= 1 => n \in 1..n)
        BY <3>2
      <4>2. 2 <= n
        BY <3>2, <4>1
      <4>3. n <= 2
        BY <3>2, <4>1, <4>2, SMTT(30)
      <4> QED
        BY <3>2, <4>2, <4>3
    <3> QED
      BY <3>3 DEF n
  <2>5. "PB DONE" \in Decisive(cmd.kind)
    BY <1>5 DEF Decisive
  <2> QED
    BY <2>3, <2>4, <2>5
<1>6. \/ reply = <<>>
      \/ \E w \in Decisive(cmd.kind) : reply = <<w>>
      \/ reply = <<"OK", "PB DONE">> /\ cmd.kind = "AT+RESET"
  BY <1>2 DEF Replies, AllKinds, Decisive
<1> QED
  BY <1>3, <1>4, <1>5, <1>6

(* What is left of an answer behind the lines that are read.               *)
LEMMA ReadEnds ==
  ASSUME NEW S, NEW s \in Seq(S), NEW n \in 1..Len(s)
  PROVE  LET left == SubSeq(s, n + 1, Len(s))
         IN  /\ n < Len(s) => left # <<>> /\ left[Len(left)] = s[Len(s)]
             /\ n = Len(s) => left = <<>>
<1> DEFINE left == SubSeq(s, n + 1, Len(s))
<1>1. Len(s) \in Nat /\ n \in Nat /\ n >= 1 /\ n <= Len(s)
  BY LenProperties
<1>2. /\ left \in Seq(S) /\ Len(left) = Len(s) - n
      /\ \A i \in 1..(Len(s) - n) : left[i] = s[n + i]
  <2>1. \A i \in (n + 1)..Len(s) : s[i] \in S
    BY <1>1, ElementOfSeq
  <2>2. /\ left \in Seq(S)
        /\ Len(left) = IF n + 1 <= Len(s) THEN Len(s) - (n + 1) + 1 ELSE 0
        /\ \A i \in 1..(Len(s) - (n + 1) + 1) : left[i] = s[(n + 1) + i - 1]
    BY <1>1, <2>1, SubSeqProperties
  <2> HIDE DEF left
  <2> QED
    BY <1>1, <2>2
<1> HIDE DEF left
<1>3. ASSUME n < Len(s)  PROVE left # <<>> /\ left[Len(left)] = s[Len(s)]
  <2>1. Len(s) - n \in 1..(Len(s) - n) /\ n + (Len(s) - n) = Len(s)
    BY <1>1, <1>3
  <2>2. left[Len(left)] = s[Len(s)]
    BY <1>2, <2>1
  <2>3. Len(left) # 0
    BY <1>1, <1>2, <1>3
  <2>4. Len(<<>>) = 0
    OBVIOUS
  <2> QED
    BY <2>2, <2>3, <2>4
<1>4. n = Len(s) => left = <<>>
  BY <1>1, <1>2, EmptySeq
<1> QED
  BY <1>3, <1>4 DEF left

(* The handlers agree with the modem on the words of an answer.            *)
LEMMA MeantLone ==
  ASSUME NEW kind \in AllKinds, NEW w \in Decisive(kind)
  PROVE  Outcome(kind, {w}) = Meant(kind, {w})
<1>1. \A v : {w} = {v} <=> w = v
  OBVIOUS
<1>2. /\ {w} \in {{"OK"}, {"CONNECT"}, {"PB DONE"}}
           <=> w \in {"OK", "CONNECT", "PB DONE"}
      /\ {w} = {"NO CARRIER"} <=> w = "NO CARRIER"
      /\ {w} = {"ERROR"} <=> w = "ERROR"
      /\ \A T : {w} \cap T # {} <=> w \in T
      /\ "OK" \in {w} <=> w = "OK"
      /\ "ERROR" \in {w} <=> w = "ERROR"
  BY <1>1
<1> DEFINE W == {w}
<1>3. /\ W \in {{"OK"}, {"CONNECT"}, {"PB DONE"}}
           <=> w \in {"OK", "CONNECT", "PB DONE"}
      /\ W = {"NO CARRIER"} <=> w = "NO CARRIER"
      /\ W = {"ERROR"} <=> w = "ERROR"
      /\ \A T : W \cap T # {} <=> w \in T
      /\ "OK" \in W <=> w = "OK"
      /\ "ERROR" \in W <=> w = "ERROR"
  BY <1>2
<1> HIDE DEF W
<1>4. Outcome(kind, W) = Meant(kind, W)
  <2>1. CASE kind = "AT"
    BY <1>3, <2>1 DEF Outcome, Meant, Decisive
  <2>2. CASE kind = "+++"
    BY <1>3, <2>2 DEF Outcome, Meant, Decisive
  <2>3. CASE kind = "ATD"
    BY <1>3, <2>3 DEF Outcome, Meant, Decisive
  <2>4. CASE kind = "AT+RESET"
    BY <1>3, <2>4 DEF Outcome, Meant, Decisive
  <2> QED
    BY <2>1, <2>2, <2>3, <2>4 DEF AllKinds
<1> QED
  BY <1>4 DEF W

(* With the first line of a reset, the last one decides nothing.           *)
LEMMA MeantPair ==
  ASSUME NEW w \in Decisive("AT+RESET")
  PROVE  Meant("AT+RESET", {"OK", w}) = "none"
<1>1. w # "OK"
  BY DEF Decisive
<1>2. \A v : {"OK", w} # {v}
  <2> SUFFICES ASSUME NEW v, {"OK", w} = {v}  PROVE FALSE
    OBVIOUS
  <2>1. "OK" \in {v} /\ w \in {v}
    OBVIOUS
  <2> QED
    BY <1>1, <2>1
<1> DEFINE W == {"OK", w}
<1>3. \A v : W # {v}
  BY <1>2
<1> HIDE DEF W
<1>4. Meant("AT+RESET", W) = "none"
  BY <1>3 DEF Meant
<1> QED
  BY <1>4 DEF W

(* Nothing means nothing.                                                  *)
LEMMA MeantNothing == \A kind : Meant(kind, {}) = "none"
<1>1. \A v : {} # {v}
  OBVIOUS
<1> QED
  BY <1>1 DEF Meant

(* The meanings there are.                                                 *)
LEMMA MeantTyped ==
  \A kind, said : Meant(kind, said) \in {"SUCCESS", "FAIL", "none"}
BY DEF Meant

(* What the caller does to its call.                                       *)
LEMMA CallerServes ==
  ASSUME Prompt, TypeOK, PromptInv, ServiceInv, NEW c \in Callers, Caller(c)
  PROVE  ServiceInv' /\ Moves(c)
<1>1. \A d \in Callers : d = c
  BY DEF Prompt
<1>2. Waiting <=> callerPc[c] = "waiting"
  BY <1>1 DEF Waiting
<1>3. /\ callerPc \in [Callers -> {"idle", "installed", "waiting",
                                   "returning", "judging"}]
      /\ completed \in [Callers -> BOOLEAN] /\ command \in [Callers -> Issued]
      /\ ~commandBit /\ (recvPc = "loop" => buffer = {})
  BY DEF TypeOK, PromptInv, BufferInv
<1>4. callerPc[c] # "waiting" => rx = <<>> /\ pending = <<>> /\ recvPc = "loop"
  BY <1>2 DEF PromptInv
<1>5. CASE InstallHandler(c)
  <2>1. callerPc[c] = "idle" /\ callerPc'[c] = "installed"
    BY <1>3, <1>5 DEF InstallHandler
  <2> QED
    BY <1>1, <2>1 DEF ServiceInv, Moves, Stage, AnswerTo
<1>6. CASE WriteCommand(c)
  <2>1. /\ callerPc[c] = "installed" /\ callerPc'[c] = "waiting"
        /\ rx = <<>> /\ recvPc = "loop"
        /\ UNCHANGED <<rx, recvPc, completed>> /\ stateBy' = {}
    BY <1>3, <1>4, <1>6 DEF WriteCommand, recvVars
  <2>2. pending' # <<>>
    BY <1>3, <1>4, <1>6, <2>1 DEF WriteCommand
  <2>3. {} # {command'[c].id}
    OBVIOUS
  <2> QED
    BY <1>1, <2>1, <2>2, <2>3
    DEF ServiceInv, AnswerEnds, Moves, Stage, AnswerTo
<1>7. CASE WaitSatisfied(c)
  BY <1>3, <1>7 DEF WaitSatisfied
<1>8. CASE WaitTimeout(c)
  <2>1. /\ callerPc[c] = "waiting" /\ callerPc'[c] = "returning"
        /\ completed'[c] = FALSE
        /\ UNCHANGED <<dceState, command, buffer, rx, pending, stateBy>>
    BY <1>3, <1>8 DEF WaitTimeout, recvVars
  <2>2. OnItsWay(c) /\ ~AnswerStillDue(c)
    BY <1>8 DEF WaitTimeout, Prompt, PromptInv
  <2>3. recvPc = "loop"
    BY <2>2 DEF AnswerStillDue
  <2> QED
    BY <1>1, <2>1, <2>3 DEF ServiceInv, Moves, Stage, AnswerTo
<1>9. CASE RemoveHandler(c)
  <2>1. /\ callerPc[c] = "returning" /\ rx = <<>> /\ pending = <<>>
        /\ buffer = {}
        /\ UNCHANGED <<dceState, completed, buffer, rx, pending, stateBy>>
    BY <1>3, <1>4, <1>9 DEF RemoveHandler, recvVars
  <2>2. CASE completed[c]
    <3>1. callerPc'[c] = "judging" /\ command'[c] = command[c]
      BY <1>3, <1>9, <2>2 DEF RemoveHandler
    <3> QED
      BY <1>1, <2>1, <2>2, <3>1 DEF ServiceInv, Moves, Stage, AnswerTo
  <2>3. CASE ~completed[c]
    <3>1. callerPc'[c] = "idle"
      BY <1>3, <1>9, <2>3 DEF RemoveHandler
    <3>2. WordsOf({}) = {}
      BY DEF WordsOf
    <3>3. stateBy # {command[c].id}
      BY <2>1, <2>3 DEF ServiceInv
    <3>4. AnswerTo(c) = "none" /\ Stage(c) = "called"
      BY <2>1, <2>3, <3>2, <3>3, MeantNothing DEF AnswerTo, Stage
    <3>5. AnswerTo(c)' = "none" /\ Stage(c)' = "idle"
      BY <3>1 DEF AnswerTo, Stage
    <3>6. ServiceInv'
      BY <1>1, <3>1 DEF ServiceInv
    <3> QED
      BY <3>4, <3>5, <3>6 DEF Moves
  <2> QED
    BY <2>2, <2>3
<1>10. CASE Judge(c)
  <2>1. callerPc[c] = "judging" /\ callerPc'[c] = "idle"
    BY <1>3, <1>10 DEF Judge
  <2> QED
    BY <1>1, <2>1 DEF ServiceInv, Moves, Stage, AnswerTo
<1> QED
  BY <1>5, <1>6, <1>7, <1>8, <1>9, <1>10 DEF Caller, Finish

(* What the receive task and the modem do to the call that is waited for.  *)
LEMMA OtherServes ==
  ASSUME Prompt, TypeOK, PromptInv, ServiceInv, NEW c \in Callers,
         callerPc[c] = "waiting", Receiver \/ Modem
  PROVE  ServiceInv' /\ Moves(c)
<1>1. \A d \in Callers : d = c
  BY DEF Prompt
<1>2. /\ OnItsWay(c) /\ handleLine = command[c].kind
      /\ command[c] \in Issued /\ command[c].kind \in AllKinds
      /\ handleLine # NoHandler
      /\ dceState \in {"PROCESSING", "SUCCESS", "FAIL"}
  BY DEF TypeOK, PromptInv, Issued, AllKinds, NoHandler
<1>3. /\ AnswerEnds(c)
      /\ recvPc # "marking" => stateBy # {command[c].id}
      /\ recvPc = "loop" => buffer = {}
  BY DEF ServiceInv, PromptInv, BufferInv
<1>4. /\ rx \in Seq(Line) /\ callerPc \in [Callers -> {"idle", "installed",
                               "waiting", "returning", "judging"}]
  BY DEF TypeOK
<1> DEFINE kind == command[c].kind
           Said == IF rx # <<>> THEN {rx[Len(rx)].word} ELSE WordsOf(buffer)
<1>5. Stage(c) = "called"
  BY DEF Stage
<1>6. pending = <<>> /\ stateBy # {command[c].id} =>
        AnswerTo(c) = Meant(kind, Said)
  BY DEF AnswerTo
<1>7. callerPc'[c] = "waiting" => Stage(c)' = "called"
  BY DEF Stage
<1>8. ASSUME callerPc'[c] = "waiting", pending' = <<>>,
             stateBy' # {command'[c].id}
      PROVE  AnswerTo(c)' = Meant(kind', Said')
  BY <1>8 DEF AnswerTo
<1>9. WordsOf({}) = {} /\ WordsOf(buffer) = {l.word : l \in buffer}
  BY DEF WordsOf
<1>10. ASSUME callerPc' = callerPc, command' = command, recvPc' # "marking",
              AnswerEnds(c)', stateBy' = stateBy, recvPc # "marking"
       PROVE  ServiceInv'
  BY <1>1, <1>3, <1>10 DEF ServiceInv
<1>11. CASE ReadLines
  <2>1. /\ recvPc = "loop" /\ recvPc' = "calling"
        /\ UNCHANGED <<dceState, callerPc, command, pending, stateBy>>
    BY <1>2, <1>11 DEF ReadLines, callerVars
  <2>2. PICK n \in 1..Len(rx) :
          /\ rx' = SubSeq(rx, n + 1, Len(rx))
          /\ buffer' = LinesOf(SubSeq(rx, 1, n))
    BY <1>2, <1>11 DEF ReadLines
  <2>3. /\ Len(rx) \in Nat /\ n \in Nat /\ n >= 1 /\ n <= Len(rx)
        /\ rx # <<>>
    BY <1>4, <2>2, LenProperties, EmptySeq
  <2>4. pending = <<>> /\ (Len(rx) = 1 \/ TwoLines(c))
    <3>1. Len(rx) <= 1 \/ TwoLines(c)
      BY <1>2, <2>1 DEF OnItsWay
    <3> DEFINE m == Len(rx)
    <3>0. m \in Nat /\ m # 0
      BY <1>4, <2>3
    <3> HIDE DEF m
    <3>2. m <= 1 => m = 1
      BY <3>0
    <3>3. pending = <<>>
      BY <1>2, <2>3 DEF OnItsWay
    <3> QED
      BY <3>1, <3>2, <3>3 DEF m
  <2>5. /\ n < Len(rx) => rx' # <<>> /\ rx'[Len(rx')] = rx[Len(rx)]
        /\ n = Len(rx) => rx' = <<>>
    BY <1>4, <2>2, ReadEnds
  <2> DEFINE w == rx[Len(rx)].word
  <2>6. w \in Decisive(kind) /\ AnswerTo(c) = Meant(kind, {w})
    BY <1>3, <1>6, <2>1, <2>3, <2>4 DEF AnswerEnds
  <2>7. CASE n < Len(rx)
    <3>1. rx' # <<>> /\ rx'[Len(rx')].word = w
      BY <2>5, <2>7
    <3>2. AnswerEnds(c)'
      BY <2>1, <2>6, <3>1 DEF AnswerEnds
    <3>3. Said' = {w} /\ kind' = kind
      BY <2>1, <3>1
    <3>4. AnswerTo(c)' = AnswerTo(c) /\ Stage(c)' = Stage(c)
      BY <1>3, <1>5, <1>7, <1>8, <2>1, <2>4, <2>6, <3>3
    <3> QED
      BY <1>10, <2>1, <3>2, <3>4 DEF Moves
  <2>8. CASE n = Len(rx)
    <3>1. rx' = <<>> /\ buffer' = LinesOf(rx)
      <4>1. SubSeq(rx, 1, Len(rx)) = rx
        BY <1>4, <2>3
      <4> QED
        BY <2>2, <2>5, <2>8, <4>1
    <3>2. \/ WordsOf(buffer') = {w}
          \/ WordsOf(buffer') = {"OK", w} /\ kind = "AT+RESET"
      <4>1. CASE Len(rx) = 1
        <5>1. DOMAIN rx = {1}
          BY <1>4, <4>1
        <5>2. LinesOf(rx) = {rx[1]} /\ w = rx[1].word
          BY <4>1, <5>1 DEF LinesOf
        <5> QED
          BY <3>1, <5>2 DEF WordsOf
      <4>2. CASE TwoLines(c)
        <5>1. DOMAIN rx = {1, 2} /\ Len(rx) = 2
          BY <1>4, <4>2 DEF TwoLines
        <5>2. LinesOf(rx) = {rx[1], rx[2]} /\ w = rx[2].word
          BY <5>1 DEF LinesOf
        <5>3. rx[1].word = "OK" /\ kind = "AT+RESET"
          BY <4>2 DEF TwoLines
        <5> QED
          BY <3>1, <5>2, <5>3 DEF WordsOf
      <4> QED
        BY <2>4, <4>1, <4>2
    <3>3. AnswerEnds(c)'
      BY <2>1, <2>6, <3>1, <3>2 DEF AnswerEnds
    <3>4. ServiceInv'
      BY <1>10, <2>1, <3>3
    <3>5. AnswerTo(c)' = Meant(kind, WordsOf(buffer'))
      BY <1>3, <1>8, <2>1, <2>4, <3>1
    <3>6. \/ AnswerTo(c)' = AnswerTo(c)
          \/ AnswerTo(c)' = "none"
      BY <2>6, <3>2, <3>5, MeantPair
    <3>7. AnswerTo(c) \in {"SUCCESS", "FAIL", "none"} /\ Stage(c)' = "called"
      BY <1>7, <2>1, <2>6, MeantTyped
    <3> QED
      BY <1>5, <3>4, <3>6, <3>7 DEF Moves
  <2> QED
    BY <2>3, <2>7, <2>8
<1>12. CASE CallHandler
  <2>1. /\ recvPc = "calling" /\ buffer' = {}
        /\ UNCHANGED <<handleLine, commandBit, callerPc, command, rx, pending>>
    BY <1>12 DEF CallHandler, callerVars
  <2>2. pending = <<>> /\ kind' = kind
    BY <1>2, <2>1 DEF OnItsWay
  <2> DEFINE outcome == Outcome(kind, WordsOf(buffer))
  <2>3. AnswerTo(c) = Meant(kind, Said)
    BY <1>3, <1>6, <2>1, <2>2
  <2>4. \/ /\ outcome = "none" /\ recvPc' = "loop"
           /\ UNCHANGED <<dceState, stateBy>>
        \/ /\ outcome # "none" /\ recvPc' = "marking" /\ dceState' = outcome
           /\ stateBy' = IdsOf(buffer)
    BY <1>2, <1>12 DEF CallHandler
  <2>5. rx # <<>> => outcome = "none"
    BY <1>2, <2>1 DEF OnItsWay, Outcome
  <2>6. rx = <<>> => outcome = Meant(kind, WordsOf(buffer))
    <3> SUFFICES ASSUME rx = <<>>  PROVE outcome = Meant(kind, WordsOf(buffer))
      OBVIOUS
    <3>1. PICK w \in Decisive(kind) :
            \/ WordsOf(buffer) = {w}
            \/ WordsOf(buffer) = {"OK", w} /\ kind = "AT+RESET"
      BY <1>3, <2>1 DEF AnswerEnds
    <3>2. CASE WordsOf(buffer) = {w}
      BY <1>2, <3>1, <3>2, MeantLone
    <3>3. CASE WordsOf(buffer) = {"OK", w} /\ kind = "AT+RESET"
      <4>1. Meant(kind, WordsOf(buffer)) = "none"
        BY <3>1, <3>3, MeantPair
      <4>2. outcome = "none"
        BY <3>3 DEF Outcome
      <4> QED
        BY <4>1, <4>2
    <3> QED
      BY <3>1, <3>2, <3>3
  <2>7. CASE outcome = "none"
    <3>1. recvPc' = "loop" /\ UNCHANGED <<dceState, stateBy>>
      BY <2>4, <2>7
    <3>2. AnswerEnds(c)'
      BY <1>3, <2>1, <3>1 DEF AnswerEnds
    <3>3. ServiceInv'
      BY <1>10, <2>1, <3>1, <3>2
    <3>4. AnswerTo(c)' = Meant(kind, Said')
      BY <1>3, <1>8, <2>1, <2>2, <3>1
    <3>5. Meant(kind, Said') = Meant(kind, Said)
      <4>1. CASE rx # <<>>
        BY <2>1, <4>1
      <4>2. CASE rx = <<>>
        BY <1>9, <2>1, <2>6, <2>7, <4>2, MeantNothing
      <4> QED
        BY <4>1, <4>2
    <3>6. Stage(c)' = Stage(c)
      BY <1>5, <1>7, <2>1
    <3> QED
      BY <2>3, <3>3, <3>4, <3>5, <3>6 DEF Moves
  <2>8. CASE outcome # "none"
    <3>1. /\ recvPc' = "marking" /\ dceState' = outcome
          /\ stateBy' = IdsOf(buffer) /\ rx = <<>>
      BY <2>4, <2>5, <2>8
    <3>2. stateBy' = {command'[c].id}
      <4>1. PICK l \in buffer : TRUE
        BY <2>1 DEF PromptInv, BufferInv
      <4>2. IdsOf(buffer) \subseteq {command[c].id} /\ l.id \in IdsOf(buffer)
        BY <1>2, <4>1, IdsProperties DEF OnItsWay
      <4> QED
        BY <2>1, <3>1, <4>2
    <3>3. AnswerTo(c)' = outcome
      BY <2>1, <2>2, <3>1, <3>2 DEF AnswerTo
    <3>4. AnswerTo(c)' = AnswerTo(c) /\ Stage(c)' = Stage(c)
      BY <1>5, <1>7, <2>1, <2>3, <2>6, <3>1, <3>3
    <3>5. AnswerEnds(c)'
      BY <2>1, <3>1 DEF AnswerEnds
    <3>6. ServiceInv'
      BY <1>1, <2>1, <3>1, <3>5 DEF ServiceInv
    <3> QED
      BY <3>4, <3>6 DEF Moves
  <2> QED
    BY <2>7, <2>8
<1>13. CASE CallNullHandler
  BY <1>2, <1>13 DEF CallNullHandler
<1>14. CASE SetCommandBit
  <2>1. /\ recvPc = "marking" /\ callerPc'[c] = "returning" /\ completed'[c]
        /\ UNCHANGED <<dceState, command, buffer, rx, pending, stateBy>>
    BY <1>14 DEF SetCommandBit
  <2>2. /\ stateBy = {command[c].id} /\ pending = <<>>
        /\ dceState \in {"SUCCESS", "FAIL"}
    BY <1>2, <2>1 DEF OnItsWay, VerdictIsOwn
  <2>3. AnswerTo(c) = dceState /\ AnswerTo(c)' = dceState
    BY <2>1, <2>2 DEF AnswerTo
  <2>4. Stage(c)' = "returns"
    BY <2>1 DEF Stage
  <2>5. ServiceInv'
    BY <1>1, <2>1 DEF ServiceInv
  <2> QED
    BY <1>5, <2>2, <2>3, <2>4, <2>5 DEF Moves
<1>15. CASE Answer
  <2>1. /\ pending = <<command[c]>> /\ rx = <<>> /\ recvPc = "loop"
        /\ UNCHANGED <<dceState, callerPc, command, recvPc, buffer, stateBy>>
    BY <1>2, <1>15 DEF Answer, OnItsWay, callerVars, recvVars
  <2>2. Head(pending) = command[c] /\ pending' = <<>> /\ pending # <<>>
    BY <1>15, <2>1 DEF Answer
  <2>3. PICK reply \in Replies(command[c].kind) :
          rx' = rx \o [i \in DOMAIN reply |->
                         [id |-> command[c].id, word |-> reply[i]]]
    BY <1>15, <2>2 DEF Answer
  <2> DEFINE lines == [i \in DOMAIN reply |->
                         [id |-> command[c].id, word |-> reply[i]]]
  <2>4. /\ lines \in Seq(Line)
        /\ lines # <<>> => lines[Len(lines)].word \in Decisive(command[c].kind)
    BY <1>2, ReplyLines, ReplyEnds
  <2>5. rx' = rx \o lines
    BY <2>3
  <2> HIDE DEF lines
  <2>6. rx' = lines
    BY <2>1, <2>4, <2>5, ConcatEmptySeq
  <2>7. AnswerEnds(c)'
    BY <2>1, <2>4, <2>6 DEF AnswerEnds
  <2>8. ServiceInv'
    BY <1>10, <2>1, <2>7
  <2>9. AnswerTo(c) = "due" /\ AnswerTo(c)' = Meant(kind', Said')
    BY <1>3, <1>8, <2>1, <2>2 DEF AnswerTo
  <2>10. AnswerTo(c)' \in {"SUCCESS", "FAIL", "none"} /\ Stage(c)' = "called"
    BY <1>7, <2>1, <2>9, MeantTyped
  <2> QED
    BY <1>5, <2>8, <2>9, <2>10 DEF Moves
<1>16. ~ReportCarrierLost
  BY NoUnsolicited DEF Prompt
<1> QED
  BY <1>11, <1>12, <1>13, <1>14, <1>15, <1>16 DEF Receiver, Modem

(* Before the first command nobody is in a call.                           *)
LEMMA ServiceInit == Init => ServiceInv /\ Service!Init
<1> SUFFICES ASSUME Init PROVE ServiceInv /\ Service!Init
  OBVIOUS
<1>1. \A c \in Callers : callerPc[c] = "idle"
  BY DEF Init
<1>2. ServiceInv
  BY <1>1 DEF ServiceInv
<1>3. \A c \in Callers : Stage(c) = "idle" /\ AnswerTo(c) = "none"
  BY <1>1 DEF Stage, AnswerTo
<1> QED
  BY <1>2, <1>3 DEF Service!Init

(* Every step is one of the service, or none.                              *)
LEMMA ServiceStep ==
  ASSUME Prompt, TypeOK, PromptInv, ServiceInv, [Next]_vars
  PROVE  ServiceInv' /\ [Service!Next]_(Service!vars)
<1>1. CASE \E c \in Callers : Caller(c)
  BY <1>1, CallerServes, MovesServe
<1>2. CASE (Receiver \/ Modem) /\ Waiting
  <2>1. PICK c \in Callers : callerPc[c] = "waiting"
    BY <1>2 DEF Waiting
  <2> QED
    BY <1>2, <2>1, OtherServes, MovesServe
<1>3. CASE (Receiver \/ Modem) /\ ~Waiting
  <2>1. ~ReportCarrierLost
    BY NoUnsolicited DEF Prompt
  <2>2. rx = <<>> /\ pending = <<>> /\ recvPc = "loop" /\ Len(<<>>) = 0
    BY <1>3 DEF PromptInv
  <2>3. 1..Len(rx) = {}
    BY <2>2
  <2> QED
    BY <1>3, <2>1, <2>2, <2>3
    DEF Receiver, Modem, ReadLines, CallHandler, CallNullHandler,
        SetCommandBit, Answer
<1>4. CASE UNCHANGED vars
  <2>1. ServiceInv'
    BY <1>4 DEF ServiceInv, AnswerEnds, vars, callerVars, recvVars
  <2>2. UNCHANGED Service!vars
    <3>1. \A c \in Callers : Stage(c)' = Stage(c)
      BY <1>4 DEF Stage, vars, callerVars
    <3>2. \A c \in Callers : AnswerTo(c)' = AnswerTo(c)
      BY <1>4 DEF AnswerTo, vars, callerVars, recvVars
    <3> QED
      BY <3>1, <3>2 DEF Service!vars
  <2> QED
    BY <2>1, <2>2
<1> QED
  BY <1>1, <1>2, <1>3, <1>4 DEF Next

(* With one caller, and answers in time or never, the unlocked exchange    *)
(* gives a call the verdict of the modem's answer to it and none other.    *)
THEOREM ImplementsServiceCorrect ==
  ASSUME Prompt PROVE Spec => ImplementsService
<1>1. Init => ServiceInv /\ Service!Init
  BY ServiceInit
<1>2. TypeOK /\ PromptInv /\ ServiceInv /\ [Next]_vars
        => ServiceInv' /\ [Service!Next]_(Service!vars)
  BY ServiceStep
<1>3. TypeOK /\ PromptInv /\ [Next]_vars => PromptInv'
  BY PromptStep
<1>4. Spec => []TypeOK
  BY TypeCorrect
<1> QED
  BY <1>1, <1>2, <1>3, <1>4, PromptInit, PTL
  DEF Spec, ImplementsService, Service!Spec
=============================================================================
