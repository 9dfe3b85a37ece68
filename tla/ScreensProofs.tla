--------------------------- MODULE ScreensProofs ---------------------------
(***************************************************************************)
(* The screen locker and the monitors it darkens, two modules that share   *)
(* no variable, each with theorems of its own.                             *)
(*                                                                         *)
(* About Unlocker, for any processes, keys, password, table size and bound *)
(* on the attempts, and for any combination of failing calls.              *)
(*                                                                         *)
(* About Outputs, for any monitors and places and any combination of       *)
(* failing calls, but for the orders of events that Outputs names Races.   *)
(* A handler is a chain of operators on the state of the monitors, some of *)
(* them folds over heads or outputs: each operator has a lemma that says   *)
(* what it leaves alone (`Alike') and what it makes of its monitor         *)
(* (`Good'), each fold one that says the same of its whole walk, and each  *)
(* action one that it keeps the invariant `Sound'.                         *)
(***************************************************************************)
EXTENDS Unlocker, Outputs, FiniteSetTheorems, WellFoundedInduction,
        NaturalsInduction, SequenceTheorems, TLAPS

(* Unlocker *)

\* Removing the head of a queue, or reading only it, invents no entry.
LEMMA TailOfQueue ==
    ASSUME NEW S, NEW q \in Seq(S), q # <<>>
    PROVE  /\ Tail(q) \in Seq(S)
           /\ Head(q) \in S
           /\ Len(q) >= 1
           /\ \A i \in 1..Len(Tail(q)) : i + 1 \in 1..Len(q) /\ Tail(q)[i] = q[i + 1]
           /\ Head(q) = q[1]
  OBVIOUS

\* Adding an entry keeps the ones before it.
LEMMA AppendToQueue ==
    ASSUME NEW S, NEW q \in Seq(S), NEW e \in S
    PROVE  /\ Append(q, e) \in Seq(S)
           /\ \A i \in 1..Len(Append(q, e)) :
                 Append(q, e)[i] = e \/ (i \in 1..Len(q) /\ Append(q, e)[i] = q[i])
  OBVIOUS

\* The entries of a queue are of its element type.
LEMMA QueueElement ==
    ASSUME NEW S, NEW q \in Seq(S), NEW i \in 1..Len(q)
    PROVE  q[i] \in S
  OBVIOUS

LEMMA EmptyText == <<>> \in Text
  BY DEF Text

\* Closing a pipe discards what was in it.
LEMMA Emptied ==
    ASSUME NEW p \in Pids, replies \in [Pids -> Seq(Reply)]
    PROVE  [replies EXCEPT ![p] = <<>>] \in [Pids -> Seq(Reply)]
  OBVIOUS

\* Reaping keeps the compositor's records of its children well typed.
LEMMA ReapType ==
    ASSUME TypeOK, NEW lpid \in Pids \cup {NoPid}, NEW parked \in SUBSET Pids,
           ReapDeferred(lpid, parked)
    PROVE  /\ pending' \subseteq Pids
           /\ reapTimer' \in BOOLEAN
           /\ lockerPid' \in Pids \cup {NoPid}
           /\ proc' \in [Pids -> Status]
  BY DEF TypeOK, ReapDeferred, ReapTimerAfter, AfterReap, Exited, Tracked, Status

\* What an attempt sent, or torn down while it is sent, does to the types.
LEMMA SendType ==
    ASSUME TypeOK, NEW p \in Pids, Send(p), Watched(p) \/ Unwatched(p)
    PROVE  /\ locked' = locked /\ job' = job /\ said' = said
           /\ nextSeq' \in 0..MaxSeq
           /\ attempt' \in Text \cup {NoAttempt}
           /\ buffer' \in Text /\ message' \subseteq 0..MaxSeq
           /\ source' \in BOOLEAN
           /\ pipe' \in Pids \cup {NoPid}
           /\ indicator' \in {"none", "wait", "type", "verify", "deny"}
           /\ requests' \in [Pids -> Seq(Request)]
           /\ replies' \in [Pids -> Seq(Reply)]
<1> DEFINE request == [seq |-> nextSeq + 1, text |-> buffer]
<1>1. nextSeq + 1 \in 0..MaxSeq
  BY SizeAssumption DEF Send, TypeOK
<1>2. Append(requests[p], request) \in Seq(Request)
  <2>1. request \in Request
    BY <1>1 DEF TypeOK, Request
  <2>2. requests[p] \in Seq(Request)
    BY DEF TypeOK
  <2> QED
    BY <2>1, <2>2
<1>3. requests' \in [Pids -> Seq(Request)]
  BY <1>2 DEF Send, Write, TypeOK
<1>4. buffer' \in Text /\ message' \subseteq 0..MaxSeq
  BY EmptyText DEF Send, ClearBuffer
<1>5. replies' \in [Pids -> Seq(Reply)]
  <2>1. replies' = replies \/ replies' = [replies EXCEPT ![p] = <<>>]
    BY DEF Watched, Unwatched
  <2> QED
    BY <2>1, Emptied DEF TypeOK
<1>6. attempt' \in Text \cup {NoAttempt}
  BY DEF Watched, Unwatched, TypeOK
<1> QED
  BY <1>1, <1>3, <1>4, <1>5, <1>6 DEF Send, Watched, Unwatched

\* The verdict is one of the replies read, and it is about the last attempt.
LEMMA VerdictRead ==
    ASSUME NEW read \in Seq(Reply), NEW reply \in Verdict(read)
    PROVE  /\ reply \in Reply
           /\ reply.seq = nextSeq
           /\ \E i \in 1..Len(read) : reply = read[i]
  BY DEF Verdict, Current

LEMMA BlankType ==
    ASSUME TypeOK, KeyPressed
    PROVE  blank' \in {"none", "idle", "armed"} /\ dark' \in BOOLEAN
  BY DEF TypeOK, KeyPressed, ArmBlankTimer

-----------------------------------------------------------------------------
(* Types.                                                                  *)

LEMMA KeyType ==
    ASSUME TypeOK, Key
    PROVE  TypeOK'
<1>1. ASSUME NEW k \in Keys, PutChar(k)
      PROVE  TypeOK'
  <2>1. k \in Text
    BY TextAssumption DEF Text
  <2>2. buffer' \in Text
    <3>1. buffer \in Seq(Bytes) /\ k \in Seq(Bytes)
      BY <2>1 DEF TypeOK, Text
    <3>2. buffer \o k \in Seq(Bytes)
      BY <3>1
    <3> QED
      BY <1>1, <3>1, <3>2 DEF PutChar, Text
  <2> QED
    BY <1>1, <2>2, BlankType
    DEF PutChar, KeyPressed, TypeOK, childVars, helperVars
<1>2. CASE DeleteChar
  <2>1. buffer' \in Text
    <3>1. buffer \in Seq(Bytes)
      BY DEF TypeOK, Text
    <3>2. ASSUME buffer # <<>>
          PROVE  SubSeq(buffer, 1, Len(buffer) - 1) \in Seq(Bytes)
      BY <3>1, <3>2
    <3> QED
      BY <1>2, <3>1, <3>2 DEF DeleteChar, Text
  <2> QED
    BY <1>2, <2>1, BlankType
    DEF DeleteChar, KeyPressed, TypeOK, childVars, helperVars
<1>3. CASE ClearPassword
  BY <1>3, BlankType, EmptyText
  DEF ClearPassword, ClearBuffer, KeyPressed, TypeOK, childVars, helperVars
<1>4. CASE OtherKey
  BY <1>4, BlankType DEF OtherKey, KeyPressed, TypeOK, lockVars, childVars, helperVars
<1>5. CASE BlankByKey
  BY <1>5, EmptyText
  DEF BlankByKey, DisableOutputs, ClearBuffer, TypeOK, childVars, helperVars
<1>6. CASE SubmitTableFull
  <2>1. ReapDeferred(lockerPid, pending)
    BY <1>6 DEF SubmitTableFull
  <2>2. /\ pending' \subseteq Pids /\ reapTimer' \in BOOLEAN
        /\ lockerPid' \in Pids \cup {NoPid} /\ proc' \in [Pids -> Status]
    BY <2>1, ReapType DEF TypeOK
  <2> QED
    BY <1>6, <2>2, BlankType, EmptyText DEF SubmitTableFull, ClearBuffer, KeyPressed, TypeOK
<1>7. CASE SubmitNoHelper
  <2>1. pending \cup {lockerPid} \subseteq Pids \/ lockerPid = NoPid
    BY DEF TypeOK
  <2> QED
    BY <1>7, <2>1, BlankType, ReapType DEF SubmitNoHelper, KeyPressed, TypeOK
<1>8. CASE SubmitToHelper
  <2>1. pipe \in Pids /\ pipe' \in Pids \cup {NoPid}
    BY <1>8 DEF SubmitToHelper, TypeOK, Watched, Unwatched
  <2>2. /\ lockerPid' \in Pids \cup {NoPid} /\ pending' \subseteq Pids
        /\ reapTimer' \in BOOLEAN /\ proc' \in [Pids -> Status]
    BY <1>8, ReapType DEF SubmitToHelper, TypeOK
  <2>3. Send(pipe) /\ (Watched(pipe) \/ Unwatched(pipe))
    BY <1>8 DEF SubmitToHelper
  <2> QED
    BY <1>8, <2>1, <2>2, <2>3, SendType, BlankType DEF SubmitToHelper, KeyPressed, TypeOK
<1>9. CASE SubmitToNewHelper
  <2>1. PICK p \in Pids :
          /\ lockerPid' = p
          /\ Send(p) /\ (Watched(p) \/ Unwatched(p))
          /\ pending' \subseteq Pids
          /\ reapTimer' \in BOOLEAN
          /\ proc' \in [Pids -> Status]
    BY <1>9 DEF SubmitToNewHelper, TypeOK, Tracked, Exited, AfterReap,
                ReapTimerAfter, Status, Alive
  <2> QED
    BY <1>9, <2>1, SendType, BlankType DEF SubmitToNewHelper, KeyPressed, TypeOK
<1> QED
  BY <1>1, <1>2, <1>3, <1>4, <1>5, <1>6, <1>7, <1>8, <1>9 DEF Key

LEMMA ResultType ==
    ASSUME TypeOK, AwaitedAttempt, Result
    PROVE  TypeOK'
<1>1. pipe \in Pids
  BY DEF Result, ResultStale, ResultRefused, ResultHangup, ResultUnlock, Ready,
         AwaitedAttempt, TypeOK
<1>2. \A hangup \in BOOLEAN :
        Ready(hangup) => ReadNow(hangup) \in Seq(Reply)
                         /\ Unread(hangup) \in [Pids -> Seq(Reply)]
  BY <1>1 DEF TypeOK, Ready, ReadNow, Unread
<1>3. ASSUME NEW hangup \in BOOLEAN, Ready(hangup),
             NEW reply \in Verdict(ReadNow(hangup)), ShowRefusal(reply.text)
      PROVE  message' \subseteq 0..MaxSeq
  <2>1. reply \in Reply
    BY <1>2, <1>3, VerdictRead
  <2> QED
    BY <1>3, <2>1 DEF TypeOK, ShowRefusal, Reply
<1>4. CASE ResultStale
  BY ZenonT(60), <1>2, <1>4 DEF ResultStale, TypeOK, lockVars, childVars, screenVars
<1>5. CASE ResultRefused
  BY <1>2, <1>3, <1>5 DEF ResultRefused, ShowRefusal, TypeOK, screenVars
<1>6. CASE ResultHangup
  <2>1. message' \subseteq 0..MaxSeq
    BY <1>3, <1>6 DEF ResultHangup, ShowRefusal, TypeOK
  <2> QED
    BY <1>2, <1>6, <2>1, ReapType DEF ResultHangup, ShowRefusal, TypeOK, screenVars
<1>7. CASE ResultUnlock
  <2>1. replies' \in [Pids -> Seq(Reply)]
    BY <1>1, <1>7, Emptied DEF ResultUnlock, TypeOK
  <2> QED
    BY <1>7, <2>1, ReapType DEF ResultUnlock, TypeOK
<1> QED
  BY <1>4, <1>5, <1>6, <1>7 DEF Result

LEMMA HelperType ==
    ASSUME TypeOK, NEW p \in Pids, Helper(p)
    PROVE  TypeOK'
<1>1. CASE HelperRead(p)
  <2>1. Head(requests[p]) \in Request /\ Tail(requests[p]) \in Seq(Request)
    BY <1>1 DEF HelperRead, TypeOK
  <2> QED
    BY <1>1, <2>1
    DEF HelperRead, TypeOK, Status, Alive, lockVars, childVars, screenVars
<1>2. CASE HelperEof(p)
  BY <1>2 DEF HelperEof, TypeOK, Status, lockVars, childVars, screenVars
<1>3. CASE HelperSay(p)
  BY ZenonT(60), <1>3 DEF HelperSay, TypeOK, Request, lockVars, childVars, screenVars
<1>4. ASSUME NEW verdict \in {"success", "retry", "fatal"}, HelperReply(p, verdict)
      PROVE  TypeOK'
  <2> DEFINE reply == [seq |-> job[p].seq, success |-> verdict = "success",
                       text |-> said[p]]
  <2>1. reply \in Reply
    BY DEF TypeOK, Request, Reply
  <2>2. Append(replies[p], reply) \in Seq(Reply)
    BY <2>1 DEF TypeOK
  <2> QED
    BY <1>4, <2>2
    DEF HelperReply, TypeOK, Status, Alive, lockVars, childVars, screenVars
<1>5. CASE HelperExit(p)
  BY <1>5 DEF HelperExit, TypeOK, Status, lockVars, childVars, screenVars
<1>6. CASE HelperDie(p)
  BY <1>6 DEF HelperDie, TypeOK, Status, lockVars, childVars, screenVars
<1> QED
  BY <1>1, <1>2, <1>3, <1>4, <1>5, <1>6 DEF Helper

LEMMA EnterType ==
    ASSUME TypeOK, Enter
    PROVE  TypeOK'
  BY EmptyText DEF TypeOK, Enter, ClearBuffer, Status, Alive

LEMMA TypeStep ==
    ASSUME TypeOK, AwaitedAttempt, [Next]_vars
    PROVE  TypeOK'
<1>1. CASE Enter
  BY <1>1, EnterType
<1>2. CASE Key
  BY <1>2, KeyType
<1>3. CASE BlankByTimer
  BY <1>3, EmptyText
  DEF BlankByTimer, DisableOutputs, ClearBuffer, TypeOK, childVars, helperVars
<1>4. CASE ResetIndicator
  BY <1>4 DEF ResetIndicator, TypeOK, childVars, screenVars, helperVars
<1>5. CASE Result
  BY <1>5, ResultType
<1>6. CASE ReapTick
  BY <1>6 DEF ReapTick, TypeOK, AfterReap, Exited, Tracked, Status, lockVars, screenVars
<1>7. CASE \E p \in Pids : Helper(p)
  BY <1>7, HelperType
<1>8. CASE UNCHANGED vars
  BY <1>8 DEF vars, lockVars, childVars, screenVars, helperVars, TypeOK
<1> QED
  BY <1>1, <1>2, <1>3, <1>4, <1>5, <1>6, <1>7, <1>8 DEF Next
-----------------------------------------------------------------------------
(* An attempt is awaited exactly while it is undecided.                    *)

LEMMA AwaitedStep ==
    ASSUME TypeOK, AwaitedAttempt, [Next]_vars
    PROVE  AwaitedAttempt'
<1>1. CASE Enter
  BY <1>1 DEF Enter, ClearBuffer, AwaitedAttempt
<1>2. CASE Key
  <2>1. buffer # NoAttempt
    BY TextAssumption DEF TypeOK, Text
  <2>2. CASE \E k \in Keys : PutChar(k)
    BY <2>2 DEF PutChar, KeyPressed, AwaitedAttempt, childVars
  <2>3. CASE DeleteChar
    BY <2>3 DEF DeleteChar, KeyPressed, AwaitedAttempt, childVars
  <2>4. CASE ClearPassword \/ OtherKey \/ BlankByKey
    BY <2>4 DEF ClearPassword, OtherKey, BlankByKey, DisableOutputs, ClearBuffer,
                KeyPressed, AwaitedAttempt, childVars, lockVars
  <2>5. CASE SubmitTableFull
    BY <2>5 DEF SubmitTableFull, KeyPressed, AwaitedAttempt
  <2>6. CASE SubmitNoHelper
    BY <2>6 DEF SubmitNoHelper, KeyPressed, AwaitedAttempt
  <2>7. CASE SubmitToHelper
    BY <2>1, <2>7 DEF SubmitToHelper, Send, Watched, Unwatched, KeyPressed,
                      AwaitedAttempt, TypeOK
  <2>8. CASE SubmitToNewHelper
    BY <2>1, <2>8, PidAssumption
    DEF SubmitToNewHelper, Send, Watched, Unwatched, KeyPressed, AwaitedAttempt
  <2> QED
    BY <1>2, <2>2, <2>3, <2>4, <2>5, <2>6, <2>7, <2>8 DEF Key
<1>3. CASE BlankByTimer \/ ResetIndicator
  BY <1>3 DEF BlankByTimer, DisableOutputs, ClearBuffer, ResetIndicator,
              AwaitedAttempt, childVars
<1>4. CASE Result
  BY <1>4 DEF Result, ResultStale, ResultRefused, ResultHangup, ResultUnlock,
              ShowRefusal, Ready, AwaitedAttempt, lockVars, childVars
<1>5. CASE ReapTick
  BY <1>5 DEF ReapTick, AwaitedAttempt, lockVars
<1>6. CASE \E p \in Pids : Helper(p)
  BY <1>6 DEF Helper, HelperRead, HelperEof, HelperSay, HelperReply, HelperExit,
              HelperDie, AwaitedAttempt, lockVars, childVars
<1>7. CASE UNCHANGED vars
  BY <1>7 DEF vars, lockVars, childVars, AwaitedAttempt
<1> QED
  BY <1>1, <1>2, <1>3, <1>4, <1>5, <1>6, <1>7 DEF Next

LEMMA InitHolds == Init => TypeOK /\ AwaitedAttempt
<1>1. ASSUME Init
      PROVE  TypeOK
  <2>1. 0 \in 0..MaxSeq
    BY SizeAssumption
  <2>2. NoJob \in Request
    BY <2>1, EmptyText DEF NoJob, Request
  <2>3. /\ requests \in [Pids -> Seq(Request)]
        /\ replies \in [Pids -> Seq(Reply)]
    BY <1>1 DEF Init
  <2> QED
    BY <1>1, <2>1, <2>2, <2>3, EmptyText DEF Init, TypeOK, Status
<1>2. Init => AwaitedAttempt
  BY DEF Init, AwaitedAttempt
<1> QED
  BY <1>1, <1>2

\* Every variable keeps its type, whatever fails.
THEOREM TypeCorrect == Spec => []TypeOK
<1>1. TypeOK /\ AwaitedAttempt /\ [Next]_vars
        => (TypeOK /\ AwaitedAttempt)'
  BY TypeStep, AwaitedStep
<1> QED
  BY <1>1, InitHolds, PTL DEF Spec

\* The screen never waits for an attempt nobody will decide, nor for nothing.
THEOREM AttemptIsAwaited == Spec => []AwaitedAttempt
<1>1. TypeOK /\ AwaitedAttempt /\ [Next]_vars
        => (TypeOK /\ AwaitedAttempt)'
  BY TypeStep, AwaitedStep
<1> QED
  BY <1>1, InitHolds, PTL DEF Spec
-----------------------------------------------------------------------------
(* What travels on the open channel.                                       *)

\* Nothing on the channel changes, or what changes is not about it.
LEMMA QuietStep ==
    ASSUME HonestChannel,
           UNCHANGED <<pipe, source, attempt, nextSeq, job, said, requests, replies>>,
           \A p \in Pids : proc'[p] \in {"unused", "checking"} => proc'[p] = proc[p],
           TypeOK
    PROVE  HonestChannel'
  BY DEF HonestChannel, About, Grants, TypeOK

\* What the channel may hold after a step, written without a prime on the entry.
AboutNext(request) ==
    /\ request.seq <= nextSeq'
    /\ source' /\ request.seq = nextSeq' => request.text = attempt'

GrantsNext(reply) ==
    /\ reply.seq <= nextSeq'
    /\ reply.text \subseteq {reply.seq}
    /\ source' /\ reply.seq = nextSeq' /\ reply.success =>
          attempt' = Password /\ attempt' # <<>>

\* A step keeps the channel honest if what it leaves there is.
LEMMA ChannelNext ==
    ASSUME \A p \in Pids : proc'[p] = "unused" =>
              pipe' # p /\ requests'[p] = <<>> /\ replies'[p] = <<>>,
           pipe' # NoPid =>
              /\ \A i \in 1..Len(requests'[pipe']) : AboutNext(requests'[pipe'][i])
              /\ proc'[pipe'] = "checking" =>
                    /\ AboutNext(job'[pipe'])
                    /\ said'[pipe'] \subseteq {job'[pipe'].seq}
              /\ \A i \in 1..Len(replies'[pipe']) : GrantsNext(replies'[pipe'][i])
    PROVE  HonestChannel'
  BY DEF HonestChannel, About, Grants, AboutNext, GrantsNext

\* A new attempt makes every older entry stale, and adds its own.
LEMMA SendStep ==
    ASSUME TypeOK, HonestChannel, NEW p \in Pids,
           pipe = p \/ proc[p] = "unused",
           proc'[p] # "unused", proc'[p] = "checking" => pipe = p /\ proc[p] = "checking",
           \A q \in Pids \ {p} : proc'[q] = "unused" => proc[q] = "unused",
           Send(p), Watched(p)
    PROVE  HonestChannel'
<1> DEFINE request == [seq |-> nextSeq + 1, text |-> buffer]
<1>1. request \in Request /\ nextSeq \in Int
  <2>1. nextSeq + 1 \in 0..MaxSeq /\ nextSeq \in Int
    BY SizeAssumption DEF Send, TypeOK
  <2> QED
    BY <2>1 DEF TypeOK, Request
<1>2. /\ requests[p] \in Seq(Request) /\ replies[p] \in Seq(Reply)
      /\ job[p] \in Request /\ p # NoPid
  BY PidAssumption DEF TypeOK
<1>3. requests'[p] = requests[p] \/ requests'[p] = Append(requests[p], request)
  BY DEF Send, Write, TypeOK
<1>4. \A q \in Pids \ {p} : requests'[q] = requests[q]
  BY DEF Send, Write, TypeOK
<1>5. /\ pipe' = p /\ source' = TRUE /\ attempt' = buffer /\ nextSeq' = nextSeq + 1
      /\ replies' = replies /\ job' = job /\ said' = said
  BY DEF Send, Watched
<1>6. \A i \in 1..Len(requests[p]) :
        requests[p][i].seq <= nextSeq /\ requests[p][i].seq \in Int
  <2>1. \A i \in 1..Len(requests[p]) : requests[p][i].seq \in Int
    <3> SUFFICES ASSUME NEW i \in 1..Len(requests[p])
                 PROVE  requests[p][i].seq \in Int
      OBVIOUS
    <3>1. requests[p][i] \in Request
      BY <1>2, QueueElement
    <3> QED
      BY <3>1 DEF Request
  <2>2. CASE pipe = p
    BY <1>2, <2>1, <2>2 DEF HonestChannel, About
  <2>3. CASE proc[p] = "unused"
    BY <2>3 DEF HonestChannel
  <2> QED
    BY <2>2, <2>3
<1>7. \A i \in 1..Len(requests'[p]) : AboutNext(requests'[p][i])
  <2>1. AboutNext(request)
    BY <1>1, <1>5 DEF AboutNext
  <2>2. \A i \in 1..Len(requests[p]) : AboutNext(requests[p][i])
    BY <1>1, <1>5, <1>6 DEF AboutNext
  <2>3. CASE requests'[p] = requests[p]
    BY <2>2, <2>3
  <2>4. CASE requests'[p] = Append(requests[p], request)
    <3> HIDE DEF request
    <3> QED
      BY <1>1, <1>2, <2>1, <2>2, <2>4, AppendToQueue
  <2> QED
    BY <1>3, <2>3, <2>4
<1>8. proc'[p] = "checking" =>
        AboutNext(job'[p]) /\ said'[p] \subseteq {job'[p].seq}
  <2> SUFFICES ASSUME proc'[p] = "checking"
               PROVE  AboutNext(job'[p]) /\ said'[p] \subseteq {job'[p].seq}
    OBVIOUS
  <2>1. About(job[p]) /\ said[p] \subseteq {job[p].seq}
    BY <1>2 DEF HonestChannel
  <2>2. job[p].seq \in Int
    BY <1>2 DEF Request
  <2> QED
    BY <1>1, <1>5, <2>1, <2>2 DEF About, AboutNext
<1>9. \A i \in 1..Len(replies'[p]) : GrantsNext(replies'[p][i])
  <2>1. \A i \in 1..Len(replies[p]) : replies[p][i].seq \in Int
    <3> SUFFICES ASSUME NEW i \in 1..Len(replies[p])
                 PROVE  replies[p][i].seq \in Int
      OBVIOUS
    <3>1. replies[p][i] \in Reply
      BY <1>2, QueueElement
    <3> QED
      BY <3>1 DEF Reply
  <2>2. CASE pipe = p
    BY SMTT(60), <1>1, <1>2, <1>5, <2>1, <2>2 DEF HonestChannel, Grants, GrantsNext
  <2>3. CASE proc[p] = "unused"
    BY <1>5, <2>3 DEF HonestChannel
  <2> QED
    BY <2>2, <2>3
<1>10. \A q \in Pids : proc'[q] = "unused" =>
          pipe' # q /\ requests'[q] = <<>> /\ replies'[q] = <<>>
  BY <1>4, <1>5 DEF HonestChannel
<1> QED
  BY <1>5, <1>7, <1>8, <1>9, <1>10, ChannelNext

\* Once its pipes are closed a helper can say nothing that matters.
LEMMA CloseStep ==
    ASSUME TypeOK, HonestChannel, pipe' = NoPid,
           \A p \in Pids : proc'[p] = "unused" =>
              /\ proc[p] = "unused"
              /\ requests'[p] = requests[p]
              /\ replies'[p] = replies[p] \/ replies'[p] = <<>>
    PROVE  HonestChannel'
  BY PidAssumption DEF HonestChannel

\* Reaping turns zombies into reaped children and touches no other.
LEMMA ReapKeeps ==
    ASSUME TypeOK, NEW children
    PROVE  \A p \in Pids :
              /\ AfterReap(children)[p] \in {"unused"} \cup Alive => AfterReap(children)[p] = proc[p]
              /\ proc[p] = "unused" => AfterReap(children)[p] = "unused"
  BY DEF AfterReap, Exited, TypeOK, Status, Alive

LEMMA EnterHonest ==
    ASSUME TypeOK, AwaitedAttempt, HonestChannel, Enter
    PROVE  HonestChannel'
<1>1. ~source /\ attempt = NoAttempt
  BY DEF AwaitedAttempt, Enter
<1>2. UNCHANGED <<source, attempt, nextSeq, job, said, requests, replies>>
  BY <1>1 DEF Enter
<1>3. CASE \E p \in Pids : /\ proc[p] = "unused"
                           /\ proc' = [proc EXCEPT ![p] = "reading"]
                           /\ pipe' = p
  <2> PICK p \in Pids : /\ proc[p] = "unused"
                        /\ proc' = [proc EXCEPT ![p] = "reading"]
                        /\ pipe' = p
    BY <1>3
  <2>1. requests[p] = <<>> /\ replies[p] = <<>>
    BY DEF HonestChannel
  <2>2. proc'[p] = "reading" /\ \A q \in Pids \ {p} : proc'[q] = proc[q]
    BY DEF TypeOK
  <2>3. \A q \in Pids : proc'[q] = "unused" =>
           pipe' # q /\ requests'[q] = <<>> /\ replies'[q] = <<>>
    BY <1>2, <2>2 DEF HonestChannel
  <2> QED
    BY <1>2, <2>1, <2>2, <2>3, ChannelNext
<1>4. CASE UNCHANGED <<pipe, proc>>
  BY <1>2, <1>4, QuietStep
<1> QED
  BY <1>3, <1>4 DEF Enter

LEMMA KeyHonest ==
    ASSUME TypeOK, AwaitedAttempt, HonestChannel, Key
    PROVE  HonestChannel'
<1>1. CASE \/ DeleteChar \/ ClearPassword \/ OtherKey \/ BlankByKey
         \/ \E k \in Keys : PutChar(k)
  <2>1. UNCHANGED <<pipe, source, attempt, nextSeq, proc, job, said, requests, replies>>
    BY <1>1 DEF PutChar, DeleteChar, ClearPassword, OtherKey, BlankByKey,
                DisableOutputs, childVars, helperVars, lockVars
  <2> QED
    BY <2>1, QuietStep
<1>2. CASE SubmitTableFull
  <2>1. pipe' = NoPid /\ proc' = AfterReap(Tracked(lockerPid, pending))
    BY <1>2 DEF SubmitTableFull, ReapDeferred
  <2>2. UNCHANGED <<requests, replies>>
    BY <1>2 DEF SubmitTableFull
  <2> QED
    BY <2>1, <2>2, ReapKeeps, CloseStep
<1>3. CASE SubmitNoHelper
  <2>1. /\ pipe' = NoPid
        /\ \/ proc' = proc
           \/ proc' = AfterReap(Tracked(NoPid, pending \cup {lockerPid}))
    BY <1>3 DEF SubmitNoHelper, MayRestart, ReapDeferred
  <2>2. UNCHANGED <<requests, replies>>
    BY <1>3 DEF SubmitNoHelper
  <2> QED
    BY <2>1, <2>2, ReapKeeps, CloseStep
<1>4. CASE SubmitToHelper
  <2>1. pipe \in Pids /\ proc[pipe] # "unused" /\ Send(pipe)
    BY <1>4 DEF SubmitToHelper, TypeOK, HonestChannel
  <2>2. CASE Watched(pipe) /\ UNCHANGED proc
    BY <2>1, <2>2, SendStep
  <2>3. CASE Unwatched(pipe) /\ ReapDeferred(lockerPid, pending)
    <3>1. /\ pipe' = NoPid /\ replies' = [replies EXCEPT ![pipe] = <<>>]
          /\ proc' = AfterReap(Tracked(lockerPid, pending))
      BY <2>3 DEF Unwatched, ReapDeferred
    <3>2. \A q \in Pids \ {pipe} : requests'[q] = requests[q] /\ replies'[q] = replies[q]
      BY <2>1, <3>1 DEF Send, Write, TypeOK
    <3> QED
      BY <2>1, <3>1, <3>2, ReapKeeps, CloseStep
  <2> QED
    BY <1>4, <2>2, <2>3 DEF SubmitToHelper
<1>5. CASE SubmitToNewHelper
  <2>1. PICK p \in Pids : /\ proc[p] = "unused" /\ Send(p)
                          /\ Watched(p) \/ Unwatched(p)
                          /\ \E waited : proc' = [AfterReap(waited) EXCEPT ![p] = "reading"]
    BY <1>5 DEF SubmitToNewHelper
  <2>2. /\ proc'[p] = "reading"
        /\ \A q \in Pids \ {p} : proc'[q] = "unused" => proc[q] = "unused"
    BY <2>1, ReapKeeps DEF AfterReap
  <2>3. CASE Watched(p)
    BY <2>1, <2>2, <2>3, SendStep
  <2>4. CASE Unwatched(p)
    <3>1. pipe' = NoPid /\ replies' = [replies EXCEPT ![p] = <<>>]
      BY <2>4 DEF Unwatched
    <3>2. \A q \in Pids \ {p} : requests'[q] = requests[q] /\ replies'[q] = replies[q]
      BY <2>1, <3>1 DEF Send, Write, TypeOK
    <3> QED
      BY <2>1, <2>2, <3>1, <3>2, CloseStep
  <2> QED
    BY <2>1, <2>3, <2>4
<1> QED
  BY <1>1, <1>2, <1>3, <1>4, <1>5 DEF Key

LEMMA ResultHonest ==
    ASSUME TypeOK, AwaitedAttempt, HonestChannel, Result
    PROVE  HonestChannel'
<1>1. pipe \in Pids /\ proc[pipe] # "unused" /\ pipe # NoPid
  BY PidAssumption DEF Result, ResultStale, ResultRefused, ResultHangup, ResultUnlock,
     Ready, AwaitedAttempt, TypeOK, HonestChannel
<1>2. CASE ResultStale \/ ResultRefused
  <2>1. /\ UNCHANGED <<pipe, nextSeq, proc, job, said, requests>>
        /\ (source' /\ attempt' = attempt /\ source) \/ ~source'
        /\ replies' = [replies EXCEPT ![pipe] = Tail(@)] /\ replies[pipe] # <<>>
    BY <1>2 DEF ResultStale, ResultRefused, Unread, Ready, lockVars, childVars
  <2>2. /\ replies'[pipe] = Tail(replies[pipe])
        /\ \A q \in Pids \ {pipe} : replies'[q] = replies[q]
        /\ replies[pipe] \in Seq(Reply)
    BY <1>1, <2>1 DEF TypeOK
  <2>3. \A i \in 1..Len(requests[pipe]) : AboutNext(requests[pipe][i])
    BY <1>1, <2>1 DEF HonestChannel, About, AboutNext
  <2>4. proc[pipe] = "checking" => AboutNext(job[pipe]) /\ said[pipe] \subseteq {job[pipe].seq}
    BY <1>1, <2>1 DEF HonestChannel, About, AboutNext
  <2>5. \A i \in 1..Len(replies[pipe]) : GrantsNext(replies[pipe][i])
    BY <1>1, <2>1 DEF HonestChannel, Grants, GrantsNext
  <2>6. \A i \in 1..Len(replies'[pipe]) : GrantsNext(replies'[pipe][i])
    BY <2>1, <2>2, <2>5, TailOfQueue
  <2>7. \A q \in Pids : proc'[q] = "unused" =>
           pipe' # q /\ requests'[q] = <<>> /\ replies'[q] = <<>>
    BY <1>1, <2>1, <2>2 DEF HonestChannel
  <2> QED
    BY <2>1, <2>3, <2>4, <2>6, <2>7, ChannelNext
<1>3. CASE ResultHangup \/ ResultUnlock
  <2>1. /\ pipe' = NoPid
        /\ proc' = AfterReap(Tracked(lockerPid, pending))
        /\ requests' = requests
        /\ replies' = [replies EXCEPT ![pipe] = <<>>]
    BY <1>3 DEF ResultHangup, ResultUnlock, ReapDeferred, Unread
  <2>2. \A q \in Pids \ {pipe} : replies'[q] = replies[q]
    BY <2>1 DEF TypeOK
  <2> QED
    BY <1>1, <2>1, <2>2, ReapKeeps, CloseStep
<1> QED
  BY <1>2, <1>3 DEF Result

\* A helper answers for the request it took, and for no other.
LEMMA HelperHonest ==
    ASSUME TypeOK, AwaitedAttempt, HonestChannel, NEW p \in Pids, Helper(p)
    PROVE  HonestChannel'
<1>1. proc[p] # "unused"
  BY DEF Helper, HelperRead, HelperEof, HelperSay, HelperReply, HelperExit,
         HelperDie, Alive
<1>2. CASE HelperEof(p) \/ HelperExit(p) \/ HelperDie(p)
  <2>1. UNCHANGED <<pipe, source, attempt, nextSeq, job, said, requests, replies>>
    BY <1>2 DEF HelperEof, HelperExit, HelperDie, lockVars, childVars
  <2>2. proc' = [proc EXCEPT ![p] = "zombie"]
    BY <1>2 DEF HelperEof, HelperExit, HelperDie
  <2>3. \A q \in Pids : proc'[q] \in {"unused", "checking"} => proc'[q] = proc[q]
    BY <2>2 DEF TypeOK
  <2> QED
    BY <2>1, <2>3, QuietStep
<1>3. CASE HelperRead(p)
  <2>1. /\ UNCHANGED <<pipe, source, attempt, nextSeq, replies>>
        /\ proc' = [proc EXCEPT ![p] = "checking"]
        /\ job' = [job EXCEPT ![p] = Head(requests[p])]
        /\ requests' = [requests EXCEPT ![p] = Tail(@)]
        /\ said' = [said EXCEPT ![p] = {}]
        /\ requests[p] # <<>> /\ requests[p] \in Seq(Request)
    BY <1>3 DEF HelperRead, lockVars, childVars, TypeOK
  <2>2. \A q \in Pids : proc'[q] = "unused" =>
           pipe' # q /\ requests'[q] = <<>> /\ replies'[q] = <<>>
    BY <1>1, <2>1 DEF HonestChannel, TypeOK
  <2>3. \A q \in Pids \ {p} : /\ proc'[q] = proc[q] /\ job'[q] = job[q]
                              /\ said'[q] = said[q] /\ requests'[q] = requests[q]
    BY <2>1 DEF TypeOK
  <2>4. /\ job'[p] = requests[p][1] /\ said'[p] = {}
        /\ requests'[p] = Tail(requests[p])
        /\ 1 \in 1..Len(requests[p])
    BY <2>1, TailOfQueue DEF TypeOK
  <2>5. pipe = p => \A i \in 1..Len(requests[p]) : AboutNext(requests[p][i])
    BY <2>1, PidAssumption DEF HonestChannel, About, AboutNext
  <2>6. pipe = p => \A i \in 1..Len(requests'[p]) : AboutNext(requests'[p][i])
    BY <2>1, <2>4, <2>5, TailOfQueue
  <2>7. pipe # NoPid => \A i \in 1..Len(replies[pipe]) : GrantsNext(replies[pipe][i])
    BY <2>1 DEF HonestChannel, Grants, GrantsNext
  <2>8. pipe # NoPid /\ pipe # p =>
          /\ \A i \in 1..Len(requests'[pipe]) : AboutNext(requests'[pipe][i])
          /\ proc'[pipe] = "checking" => AboutNext(job'[pipe]) /\ said'[pipe] \subseteq {job'[pipe].seq}
    BY <2>1, <2>3 DEF HonestChannel, About, AboutNext, TypeOK
  <2> QED
    BY <2>1, <2>2, <2>4, <2>5, <2>6, <2>7, <2>8, ChannelNext
<1>4. CASE HelperSay(p)
  <2>1. /\ UNCHANGED <<pipe, source, attempt, nextSeq, proc, job, requests, replies>>
        /\ said' = [said EXCEPT ![p] = @ \cup {job[p].seq}]
        /\ proc[p] = "checking"
    BY <1>4 DEF HelperSay, lockVars, childVars
  <2>2. /\ said'[p] = said[p] \cup {job[p].seq}
        /\ \A q \in Pids \ {p} : said'[q] = said[q]
    BY <2>1 DEF TypeOK
  <2>3. \A q \in Pids : proc'[q] = "unused" =>
           pipe' # q /\ requests'[q] = <<>> /\ replies'[q] = <<>>
    BY <2>1 DEF HonestChannel
  <2>4. pipe # NoPid =>
          /\ \A i \in 1..Len(requests[pipe]) : AboutNext(requests[pipe][i])
          /\ proc[pipe] = "checking" => AboutNext(job[pipe]) /\ said[pipe] \subseteq {job[pipe].seq}
          /\ \A i \in 1..Len(replies[pipe]) : GrantsNext(replies[pipe][i])
    BY <2>1 DEF HonestChannel, About, AboutNext, Grants, GrantsNext
  <2> QED
    BY <2>1, <2>2, <2>3, <2>4, ChannelNext DEF TypeOK
<1>5. CASE \E verdict \in {"success", "retry", "fatal"} : HelperReply(p, verdict)
  <2>1. PICK verdict \in {"success", "retry", "fatal"} : HelperReply(p, verdict)
    BY <1>5
  <2> DEFINE reply == [seq |-> job[p].seq, success |-> verdict = "success", text |-> said[p]]
  <2>2. /\ UNCHANGED <<pipe, source, attempt, nextSeq, job, said, requests>>
        /\ proc[p] = "checking"
        /\ replies' = [replies EXCEPT ![p] = IF pipe # p THEN @ ELSE Append(@, reply)]
        /\ proc'[p] \in {"reading", "closing"}
        /\ \A q \in Pids \ {p} : proc'[q] = proc[q]
    BY <2>1 DEF HelperReply, lockVars, childVars, TypeOK
  <2>3. /\ replies'[p] = replies[p] \/ (pipe = p /\ replies'[p] = Append(replies[p], reply))
        /\ \A q \in Pids \ {p} : replies'[q] = replies[q]
    <3> HIDE DEF reply
    <3>1. replies'[p] = IF pipe # p THEN replies[p] ELSE Append(replies[p], reply)
      BY <2>2 DEF TypeOK
    <3>2. \A q \in Pids \ {p} : replies'[q] = replies[q]
      BY <2>2 DEF TypeOK
    <3> QED
      BY <3>1, <3>2
  <2>4. \A q \in Pids : proc'[q] = "unused" =>
           pipe' # q /\ requests'[q] = <<>> /\ replies'[q] = <<>>
    BY <1>1, <2>2, <2>3 DEF HonestChannel
  <2>5. pipe # NoPid =>
          /\ \A i \in 1..Len(requests[pipe]) : AboutNext(requests[pipe][i])
          /\ proc[pipe] = "checking" => AboutNext(job[pipe]) /\ said[pipe] \subseteq {job[pipe].seq}
          /\ \A i \in 1..Len(replies[pipe]) : GrantsNext(replies[pipe][i])
    BY <2>2 DEF HonestChannel, About, AboutNext, Grants, GrantsNext
  <2>6. pipe = p => GrantsNext(reply)
    <3> SUFFICES ASSUME pipe = p
                 PROVE  GrantsNext(reply)
      OBVIOUS
    <3>1. AboutNext(job[p]) /\ said[p] \subseteq {job[p].seq}
      BY <2>2, <2>5, PidAssumption
    <3>2. verdict = "success" => job[p].text = Password /\ job[p].text # <<>>
      BY <2>1 DEF HelperReply, PamVerdicts
    <3> QED
      BY <3>1, <3>2 DEF AboutNext, GrantsNext
  <2>7. reply \in Reply /\ replies[p] \in Seq(Reply)
    <3>1. job[p] \in Request /\ said[p] \in SUBSET (0..MaxSeq) /\ replies[p] \in Seq(Reply)
      BY DEF TypeOK
    <3> QED
      BY <3>1 DEF Request, Reply
  <2>8. pipe = p => \A i \in 1..Len(replies'[p]) : GrantsNext(replies'[p][i])
    <3> HIDE DEF reply
    <3>1. CASE replies'[p] = replies[p]
      BY <2>5, <3>1, PidAssumption
    <3>2. CASE replies'[p] = Append(replies[p], reply)
      BY <2>5, <2>6, <2>7, <3>2, PidAssumption, AppendToQueue
    <3> QED
      BY <2>3, <3>1, <3>2
  <2>9. pipe # NoPid => \A i \in 1..Len(replies'[pipe]) : GrantsNext(replies'[pipe][i])
    BY <2>3, <2>5, <2>8 DEF TypeOK
  <2>10. pipe # NoPid /\ proc'[pipe] = "checking" => proc[pipe] = "checking"
    BY <2>2 DEF TypeOK
  <2> HIDE DEF reply
  <2> QED
    BY <2>2, <2>4, <2>5, <2>9, <2>10, ChannelNext
<1> QED
  BY <1>2, <1>3, <1>4, <1>5 DEF Helper

LEMMA HonestStep ==
    ASSUME TypeOK, AwaitedAttempt, HonestChannel, [Next]_vars
    PROVE  HonestChannel'
<1>1. CASE BlankByTimer \/ ResetIndicator \/ UNCHANGED vars
  <2>1. UNCHANGED <<pipe, source, attempt, nextSeq, proc, job, said, requests, replies>>
    BY <1>1 DEF BlankByTimer, DisableOutputs, ResetIndicator, vars, lockVars,
                childVars, helperVars
  <2> QED
    BY <2>1, QuietStep
<1>2. CASE ReapTick
  <2>1. /\ UNCHANGED <<pipe, source, attempt, nextSeq, job, said, requests, replies>>
        /\ proc' = AfterReap(Tracked(lockerPid, pending))
    BY <1>2 DEF ReapTick, lockVars
  <2> QED
    BY <2>1, ReapKeeps, QuietStep DEF Alive
<1> QED
  BY <1>1, <1>2, EnterHonest, KeyHonest, ResultHonest, HelperHonest DEF Next

LEMMA InitHonest == Init => HonestChannel
  BY PidAssumption DEF Init, HonestChannel

\* Nothing that travels between the compositor and its current helper is
\* about another attempt than the one it is numbered for.
THEOREM ChannelIsHonest == Spec => []HonestChannel
<1>1. TypeOK /\ AwaitedAttempt /\ HonestChannel /\ [Next]_vars
        => (TypeOK /\ AwaitedAttempt /\ HonestChannel)'
  BY TypeStep, AwaitedStep, HonestStep
<1> QED
  BY <1>1, InitHolds, InitHonest, PTL DEF Spec
-----------------------------------------------------------------------------
(* The refinement.                                                         *)

\* A verdict is one of the replies read, and answers the current attempt.
LEMMA VerdictIsCurrent ==
    ASSUME TypeOK, NEW p \in Pids, replies[p] # <<>>, p = pipe, NEW hangup \in BOOLEAN,
           NEW reply \in Verdict(ReadNow(hangup))
    PROVE  reply.seq = nextSeq /\ \E i \in 1..Len(replies[p]) : reply = replies[p][i]
<1>1. replies[p] \in Seq(Reply)
  BY DEF TypeOK
<1>2. PICK i \in DOMAIN ReadNow(hangup) :
         reply = ReadNow(hangup)[i] /\ ReadNow(hangup)[i].seq = nextSeq
  BY DEF Verdict, Current
<1>3. CASE hangup
  <2>1. ReadNow(hangup) = replies[p]
    BY <1>3 DEF ReadNow
  <2> QED
    BY <1>1, <1>2, <2>1
<1>4. CASE ~hangup
  <2>1. ReadNow(hangup) = <<Head(replies[p])>> /\ Head(replies[p]) = replies[p][1]
        /\ 1 \in 1..Len(replies[p])
    BY <1>1, <1>4, TailOfQueue DEF ReadNow
  <2>2. i = 1
    BY <1>2, <2>1
  <2> QED
    BY <1>2, <2>1, <2>2
<1> QED
  BY <1>3, <1>4

\* A verdict read from an empty pipe does not exist.
LEMMA NothingRead ==
    ASSUME replies[pipe] = <<>>, NEW reply \in Verdict(ReadNow(TRUE))
    PROVE  FALSE
  BY DEF Verdict, Current, ReadNow

\* Unlocking grants the attempt that is undecided, and its text is the password.
LEMMA UnlockIsGranted ==
    ASSUME TypeOK, AwaitedAttempt, HonestChannel, ResultUnlock
    PROVE  locked /\ attempt = Password
<1>1. PICK hangup \in BOOLEAN :
         /\ Ready(hangup)
         /\ \E reply \in Verdict(ReadNow(hangup)) : reply.success
  BY DEF ResultUnlock
<1>2. PICK reply \in Verdict(ReadNow(hangup)) : reply.success
  BY <1>1
<1>3. source /\ locked /\ pipe \in Pids /\ pipe # NoPid
  BY <1>1 DEF Ready, AwaitedAttempt, TypeOK
<1>4. replies[pipe] # <<>>
  BY <1>1, <1>2, NothingRead DEF Ready
<1>5. reply.seq = nextSeq /\ \E i \in 1..Len(replies[pipe]) : reply = replies[pipe][i]
  BY <1>2, <1>3, <1>4, VerdictIsCurrent
<1> QED
  BY <1>2, <1>3, <1>5 DEF HonestChannel, Grants

LEMMA PromiseStep ==
    ASSUME TypeOK, AwaitedAttempt, HonestChannel, [Next]_vars
    PROVE  [Promise!Next]_<<locked, attempt>>
<1> USE DEF Promise!Next, Promise!Lock, Promise!Submit, Promise!Deny, Promise!Unlock
<1>1. CASE Enter
  BY <1>1 DEF Enter
<1>2. CASE Key
  <2>1. CASE SubmitToHelper \/ SubmitToNewHelper
    <3>1. /\ locked /\ locked' = locked
          /\ attempt' = buffer \/ attempt' = NoAttempt
      BY <2>1 DEF SubmitToHelper, SubmitToNewHelper, KeyPressed, Send, Watched, Unwatched
    <3> QED
      BY <3>1 DEF TypeOK
  <2>2. CASE ~(SubmitToHelper \/ SubmitToNewHelper)
    <3>1. UNCHANGED <<locked, attempt>>
      BY <1>2, <2>2 DEF Key, PutChar, DeleteChar, ClearPassword, OtherKey, BlankByKey,
            DisableOutputs, SubmitTableFull, SubmitNoHelper, lockVars
    <3> QED
      BY <3>1
  <2> QED
    BY <2>1, <2>2
<1>3. CASE BlankByTimer \/ ResetIndicator \/ ReapTick \/ UNCHANGED vars
  BY <1>3 DEF BlankByTimer, DisableOutputs, ResetIndicator, ReapTick, vars, lockVars
<1>4. CASE Result
  <2>1. CASE ResultUnlock
    BY <2>1, UnlockIsGranted DEF ResultUnlock
  <2>2. CASE ResultStale \/ ResultRefused \/ ResultHangup
    BY <2>2 DEF ResultStale, ResultRefused, ResultHangup, Ready, AwaitedAttempt, lockVars
  <2> QED
    BY <1>4, <2>1, <2>2 DEF Result
<1>5. CASE \E p \in Pids : Helper(p)
  BY <1>5 DEF Helper, HelperRead, HelperEof, HelperSay, HelperReply, HelperExit,
              HelperDie, lockVars
<1> QED
  BY <1>1, <1>2, <1>3, <1>4, <1>5 DEF Next

\* The screen locker keeps its promise: pipes, helper processes, restarts,
\* late and stale replies, crashes and failing calls included, the session
\* opens only for the password, submitted last and in this lock.
THEOREM LockerKeepsItsPromise == Spec => Implements
<1>1. Init => Promise!Init
  BY DEF Init, Promise!Init
<1>2. TypeOK /\ AwaitedAttempt /\ HonestChannel /\ [Next]_vars
        => [Promise!Next]_<<locked, attempt>>
  BY PromiseStep
<1> QED
  BY <1>1, <1>2, TypeCorrect, AttemptIsAwaited, ChannelIsHonest, PTL
     DEF Spec, Implements, Promise!Spec
-----------------------------------------------------------------------------
(* The screen, and the children.                                           *)

ScreenInv == DarkScreenHoldsNoText /\ LitScreenWillBlank

LEMMA ScreenStep ==
    ASSUME TypeOK, ScreenInv, [Next]_vars
    PROVE  ScreenInv'
<1> USE DEF ScreenInv, DarkScreenHoldsNoText, LitScreenWillBlank
<1>1. CASE Enter
  <2>1. dark' = dark /\ buffer' = <<>>
    BY <1>1 DEF Enter, ClearBuffer
  <2>2. 0 \notin BlankTimeouts => blank' # "idle"
    BY <1>1, TimeoutAssumption DEF Enter
  <2> QED
    BY <2>1, <2>2
<1>2. CASE Key
  <2>1. CASE BlankByKey
    BY <2>1 DEF BlankByKey, DisableOutputs, ClearBuffer
  <2>2. CASE ~BlankByKey
    <3>1. KeyPressed
      BY <1>2, <2>2 DEF Key, PutChar, DeleteChar, ClearPassword, OtherKey,
            SubmitTableFull, SubmitNoHelper, SubmitToHelper, SubmitToNewHelper
    <3> QED
      BY <3>1, TimeoutAssumption DEF KeyPressed, ArmBlankTimer
  <2> QED
    BY <2>1, <2>2
<1>3. CASE BlankByTimer
  BY <1>3 DEF BlankByTimer, DisableOutputs, ClearBuffer
<1>4. CASE ResetIndicator \/ ReapTick \/ UNCHANGED vars
  BY <1>4 DEF ResetIndicator, ReapTick, vars, lockVars, screenVars
<1>5. CASE Result
  <2>1. CASE ResultUnlock
    <3>1. ~dark' /\ ~locked'
      BY <2>1 DEF ResultUnlock
    <3> QED
      BY <3>1
  <2>2. CASE ResultStale \/ ResultRefused \/ ResultHangup
    <3>1. UNCHANGED <<locked, buffer, dark, blank>>
      BY <2>2 DEF ResultStale, ResultRefused, ResultHangup, lockVars, screenVars
    <3> QED
      BY <3>1
  <2> QED
    BY <1>5, <2>1, <2>2 DEF Result
<1>6. CASE \E p \in Pids : Helper(p)
  BY <1>6 DEF Helper, HelperRead, HelperEof, HelperSay, HelperReply, HelperExit,
              HelperDie, lockVars, screenVars
<1> QED
  BY <1>1, <1>2, <1>3, <1>4, <1>5, <1>6 DEF Next

LEMMA ScreenHolds == Spec => []ScreenInv
<1>1. Init => ScreenInv
  BY DEF Init, ScreenInv, DarkScreenHoldsNoText, LitScreenWillBlank
<1> QED
  BY <1>1, TypeCorrect, ScreenStep, PTL DEF Spec

\* The lock screen is sound: the assertion of enable_outputs() never fails, and
\* with a positive timeout and a timer, a lit lock screen will go dark.
THEOREM ScreenIsSound == Spec => []ScreenSound
  BY TypeCorrect, ScreenHolds, PTL DEF ScreenSound, ScreenInv

\* What a decided attempt leaves on the screen is about that attempt.
LEMMA RefusalIsCurrent ==
    ASSUME TypeOK, HonestChannel, pipe \in Pids, MessageOfLastAttempt,
           NEW hangup \in BOOLEAN, Ready(hangup),
           NEW reply \in Verdict(ReadNow(hangup)), ShowRefusal(reply.text)
    PROVE  message' \subseteq {nextSeq}
<1>1. replies[pipe] # <<>>
  BY NothingRead DEF Ready
<1>2. reply.seq = nextSeq /\ \E i \in 1..Len(replies[pipe]) : reply = replies[pipe][i]
  BY <1>1, VerdictIsCurrent
<1>3. reply.text \subseteq {nextSeq}
  BY <1>2, PidAssumption DEF HonestChannel, Grants
<1> QED
  BY <1>3 DEF ShowRefusal, MessageOfLastAttempt

LEMMA MessageStep ==
    ASSUME TypeOK, AwaitedAttempt, HonestChannel, MessageOfLastAttempt, [Next]_vars
    PROVE  MessageOfLastAttempt'
<1>1. CASE Enter
  BY <1>1 DEF Enter, ClearBuffer, MessageOfLastAttempt
<1>2. CASE Key
  <2>1. message' = {} \/ UNCHANGED <<message, nextSeq, source>>
    BY <1>2 DEF Key, PutChar, DeleteChar, ClearPassword, OtherKey, BlankByKey,
          DisableOutputs, SubmitTableFull, SubmitNoHelper, SubmitToHelper,
          SubmitToNewHelper, Send, ClearBuffer, lockVars, childVars
  <2> QED
    BY <2>1 DEF MessageOfLastAttempt
<1>3. CASE BlankByTimer \/ ResetIndicator \/ ReapTick \/ UNCHANGED vars
  BY <1>3 DEF BlankByTimer, DisableOutputs, ClearBuffer, ResetIndicator, ReapTick,
        vars, lockVars, childVars, MessageOfLastAttempt
<1>4. CASE Result
  <2>1. CASE ResultStale \/ ResultUnlock
    <3>1. message' = {} \/ UNCHANGED <<message, nextSeq, source>>
      BY <2>1 DEF ResultStale, ResultUnlock, lockVars, childVars
    <3> QED
      BY <3>1 DEF MessageOfLastAttempt
  <2>2. CASE ResultRefused \/ ResultHangup
    <3>1. pipe \in Pids /\ ~source' /\ nextSeq' = nextSeq
      BY <2>2 DEF ResultRefused, ResultHangup, Ready, AwaitedAttempt, TypeOK
    <3>2. message' \subseteq {nextSeq}
      <4>1. CASE \E hangup \in BOOLEAN : /\ Ready(hangup)
                                         /\ \E reply \in Verdict(ReadNow(hangup)) :
                                               ShowRefusal(reply.text)
        BY <3>1, <4>1, RefusalIsCurrent
      <4>2. CASE ShowRefusal({})
        BY <4>2 DEF ShowRefusal, MessageOfLastAttempt
      <4> QED
        BY <2>2, <4>1, <4>2 DEF ResultRefused, ResultHangup
    <3> QED
      BY <3>1, <3>2 DEF MessageOfLastAttempt
  <2> QED
    BY <1>4, <2>1, <2>2 DEF Result
<1>5. CASE \E p \in Pids : Helper(p)
  BY <1>5 DEF Helper, HelperRead, HelperEof, HelperSay, HelperReply, HelperExit,
              HelperDie, lockVars, childVars, MessageOfLastAttempt
<1> QED
  BY <1>1, <1>2, <1>3, <1>4, <1>5 DEF Next

\* PAM's words stand only under the attempt they are about.
THEOREM MessageIsCurrent == Spec => []MessageOfLastAttempt
<1>1. Init => MessageOfLastAttempt
  BY DEF Init, MessageOfLastAttempt
<1>2. TypeOK /\ AwaitedAttempt /\ HonestChannel /\ MessageOfLastAttempt /\ [Next]_vars
        => MessageOfLastAttempt'
  BY MessageStep
<1> QED
  BY <1>1, <1>2, TypeCorrect, AttemptIsAwaited, ChannelIsHonest, PTL DEF Spec

Kept(p) == p \in Tracked(lockerPid, pending)' \/ proc'[p] = "reaped"

\* A round of reaping forgets only what it has collected.
LEMMA ReapForgetsNone ==
    ASSUME TypeOK, NEW lpid \in Pids \cup {NoPid}, NEW parked \in SUBSET Pids,
           ReapDeferred(lpid, parked), NEW p \in Tracked(lpid, parked)
    PROVE  Kept(p)
<1>1. p \in Pids
  BY DEF Tracked
<1>2. CASE proc[p] = "zombie"
  BY <1>1, <1>2 DEF ReapDeferred, AfterReap, Exited, Kept
<1>3. CASE proc[p] # "zombie"
  BY <1>1, <1>3, PidAssumption DEF ReapDeferred, Exited, Tracked, Kept
<1> QED
  BY <1>2, <1>3

LEMMA KeptStep ==
    ASSUME TypeOK, [Next]_vars, locked
    PROVE  \A p \in Tracked(lockerPid, pending) : Kept(p)
<1> SUFFICES ASSUME NEW p \in Tracked(lockerPid, pending)
             PROVE  Kept(p)
  OBVIOUS
<1>1. /\ p \in Pids
      /\ lockerPid \in Pids \cup {NoPid} /\ pending \in SUBSET Pids
      /\ NoPid \in Pids \cup {NoPid}
  BY DEF Tracked, TypeOK
<1>2. ASSUME UNCHANGED <<lockerPid, pending>>
      PROVE  Kept(p)
  BY <1>2 DEF Kept, Tracked
<1>3. ASSUME ReapDeferred(lockerPid, pending)
      PROVE  Kept(p)
  BY <1>1, <1>3, ReapForgetsNone
<1>4. CASE Key
  <2>1. CASE SubmitNoHelper
    <3>1. CASE lockerPid # NoPid
      <4>1. ReapDeferred(NoPid, pending \cup {lockerPid})
        BY <2>1, <3>1 DEF SubmitNoHelper
      <4>2. pending \cup {lockerPid} \in SUBSET Pids /\ p \in Tracked(NoPid, pending \cup {lockerPid})
        BY <1>1, <3>1 DEF Tracked
      <4> QED
        BY <1>1, <4>1, <4>2, ReapForgetsNone
    <3>2. CASE lockerPid = NoPid
      BY <1>2, <2>1, <3>2 DEF SubmitNoHelper
    <3> QED
      BY <3>1, <3>2
  <2>2. CASE SubmitToNewHelper
    <3>1. PICK q \in Pids :
             /\ proc[q] = "unused" /\ lockerPid' = q
             /\ \E waited \in SUBSET Pids :
                   /\ pending' = Tracked(lockerPid, pending) \ Exited(waited)
                   /\ proc' = [AfterReap(waited) EXCEPT ![q] = "reading"]
      <4>1. Tracked(lockerPid, pending) \in SUBSET Pids /\ {} \in SUBSET Pids
        BY <1>1 DEF Tracked
      <4> QED
        BY <2>2, <4>1 DEF SubmitToNewHelper
    <3>2. PICK waited \in SUBSET Pids :
             /\ pending' = Tracked(lockerPid, pending) \ Exited(waited)
             /\ proc' = [AfterReap(waited) EXCEPT ![q] = "reading"]
      BY <3>1
    <3>3. CASE p \in Exited(waited)
      BY <1>1, <3>1, <3>2, <3>3 DEF Exited, AfterReap, Kept
    <3>4. CASE p \notin Exited(waited)
      BY <3>1, <3>2, <3>4 DEF Kept, Tracked
    <3> QED
      BY <3>3, <3>4
  <2>3. CASE ~SubmitNoHelper /\ ~SubmitToNewHelper
    <3>1. UNCHANGED <<lockerPid, pending>> \/ ReapDeferred(lockerPid, pending)
      BY <1>4, <2>3 DEF Key, PutChar, DeleteChar, ClearPassword, OtherKey, BlankByKey,
            DisableOutputs, SubmitTableFull, SubmitToHelper, childVars
    <3> QED
      BY <1>2, <1>3, <3>1
  <2> QED
    BY <2>1, <2>2, <2>3
<1>5. CASE Result
  <2>1. UNCHANGED <<lockerPid, pending>> \/ ReapDeferred(lockerPid, pending)
    BY <1>5 DEF Result, ResultStale, ResultRefused, ResultHangup, ResultUnlock, childVars
  <2> QED
    BY <1>2, <1>3, <2>1
<1>6. CASE ReapTick
  <2>1. CASE proc[p] = "zombie"
    BY <1>1, <1>6, <2>1 DEF ReapTick, AfterReap, Exited, Kept
  <2>2. CASE proc[p] # "zombie"
    BY <1>1, <1>6, <2>2, PidAssumption DEF ReapTick, Exited, Tracked, Kept
  <2> QED
    BY <2>1, <2>2
<1>7. CASE BlankByTimer \/ ResetIndicator \/ (\E q \in Pids : Helper(q)) \/ UNCHANGED vars
  <2>1. UNCHANGED <<lockerPid, pending>>
    BY <1>7 DEF BlankByTimer, DisableOutputs, ResetIndicator, Helper, HelperRead,
          HelperEof, HelperSay, HelperReply, HelperExit, HelperDie, vars, childVars
  <2> QED
    BY <1>2, <2>1
<1> QED
  BY <1>4, <1>5, <1>6, <1>7 DEF Next, Enter

\* While the screen is locked no child is forgotten before it is collected.
THEOREM NoChildForgottenWhileLocked == Spec => ChildrenKept
<1>1. TypeOK /\ [Next]_vars =>
        [locked => \A p \in Tracked(lockerPid, pending) :
                      \/ p \in Tracked(lockerPid, pending)'
                      \/ proc'[p] = "reaped"]_vars
  BY KeptStep DEF Kept
<1> QED
  BY <1>1, TypeCorrect, PTL DEF Spec, ChildrenKept
-----------------------------------------------------------------------------
(* The table of parked children and the text buffer.                       *)

\* One more child needs one more slot at most.
LEMMA OneMore ==
    ASSUME NEW parked, IsFiniteSet(parked), NEW child, NEW after \in SUBSET (parked \cup {child})
    PROVE  /\ IsFiniteSet(after)
           /\ Cardinality(after) \in Int /\ Cardinality(parked) \in Int
           /\ Cardinality(after) <= Cardinality(parked) + 1
           /\ after \subseteq parked => Cardinality(after) <= Cardinality(parked)
<1>1. /\ IsFiniteSet(parked \cup {child})
      /\ Cardinality(parked \cup {child}) <= Cardinality(parked) + 1
      /\ Cardinality(parked) \in Int /\ Cardinality(parked \cup {child}) \in Int
  BY FS_AddElement, FS_CardinalityType
<1>2. IsFiniteSet(after) /\ Cardinality(after) <= Cardinality(parked \cup {child})
  BY <1>1, FS_Subset
<1>3. Cardinality(after) \in Int
  BY <1>2, FS_CardinalityType
<1>4. after \subseteq parked => Cardinality(after) <= Cardinality(parked)
  BY FS_Subset
<1> QED
  BY <1>1, <1>2, <1>3, <1>4

\* The table grows by the child that is parked, if there is room for it.
LEMMA ParkedStep ==
    ASSUME TypeOK, [Next]_vars
    PROVE  \/ pending' \subseteq pending
           \/ /\ Cardinality(pending) < PendingSlots
              /\ pending' \subseteq pending \cup {lockerPid}
<1>1. CASE Key
  <2>1. CASE SubmitNoHelper
    BY <2>1 DEF SubmitNoHelper, MayRestart, ReapDeferred
  <2>2. CASE SubmitToNewHelper
    BY <2>2 DEF SubmitToNewHelper, MayRestart, Tracked
  <2>3. CASE ~(SubmitNoHelper \/ SubmitToNewHelper)
    BY <1>1, <2>3 DEF Key, PutChar, DeleteChar, ClearPassword, OtherKey, BlankByKey,
          DisableOutputs, SubmitTableFull, SubmitToHelper, ReapDeferred, childVars
  <2> QED
    BY <2>1, <2>2, <2>3
<1>2. CASE Result
  BY <1>2 DEF Result, ResultStale, ResultRefused, ResultHangup, ResultUnlock,
        ReapDeferred, childVars
<1>3. CASE ~Key /\ ~Result
  BY <1>3 DEF Next, Enter, ReapTick, BlankByTimer, DisableOutputs, ResetIndicator,
        Helper, HelperRead, HelperEof, HelperSay, HelperReply, HelperExit, HelperDie,
        vars, childVars
<1> QED
  BY <1>1, <1>2, <1>3

LEMMA TextStep ==
    ASSUME TypeOK, Len(buffer) < BufferSize, [Next]_vars
    PROVE  Len(buffer') < BufferSize
<1> USE SizeAssumption
<1>1. ASSUME buffer' = buffer \/ buffer' = <<>>
      PROVE  Len(buffer') < BufferSize
  BY <1>1
<1>2. ASSUME NEW k \in Keys, PutChar(k)
      PROVE  Len(buffer') < BufferSize
  <2>1. CASE Len(buffer) + Len(k) < BufferSize
    <3>1. buffer' = buffer \o k
      BY <1>2, <2>1 DEF PutChar
    <3>2. buffer \in Seq(Bytes) /\ k \in Seq(Bytes)
      BY TextAssumption DEF TypeOK, Text
    <3> QED
      BY <2>1, <3>1, <3>2
  <2>2. CASE ~(Len(buffer) + Len(k) < BufferSize)
    BY <1>1, <1>2, <2>2 DEF PutChar
  <2> QED
    BY <2>1, <2>2
<1>3. ASSUME DeleteChar
      PROVE  Len(buffer') < BufferSize
  <2>1. CASE buffer = <<>>
    BY <1>1, <1>3, <2>1 DEF DeleteChar
  <2>2. CASE buffer # <<>>
    <3>1. buffer \in Seq(Bytes) /\ buffer' = SubSeq(buffer, 1, Len(buffer) - 1)
      BY <1>3, <2>2 DEF DeleteChar, TypeOK, Text
    <3> QED
      BY <2>2, <3>1
  <2> QED
    BY <2>1, <2>2
<1>4. CASE Key
  <2>1. CASE \E k \in Keys : PutChar(k)
    BY <1>2, <2>1
  <2>2. CASE DeleteChar
    BY <1>3, <2>2
  <2>3. CASE ~DeleteChar /\ ~\E k \in Keys : PutChar(k)
    BY <1>1, <1>4, <2>3 DEF Key, ClearPassword, OtherKey, BlankByKey, DisableOutputs,
          SubmitTableFull, SubmitNoHelper, SubmitToHelper, SubmitToNewHelper, Send,
          ClearBuffer, lockVars
  <2> QED
    BY <2>1, <2>2, <2>3
<1>5. CASE Result
  BY <1>1, <1>5 DEF Result, ResultStale, ResultRefused, ResultHangup, ResultUnlock, lockVars
<1>6. CASE ~Key /\ ~Result
  BY <1>1, <1>6 DEF Next, Enter, ReapTick, BlankByTimer, DisableOutputs, ClearBuffer,
        ResetIndicator, Helper, HelperRead, HelperEof, HelperSay, HelperReply,
        HelperExit, HelperDie, vars, lockVars
<1> QED
  BY <1>4, <1>5, <1>6

\* The buffer and the table are never overrun, however often a helper has to
\* be replaced and however many of its predecessors linger.
THEOREM NothingOverrun == Spec => []LimitsKept
<1>1. Init => LimitsKept
  BY FS_EmptySet, SizeAssumption DEF Init, LimitsKept
<1>2. TypeOK /\ LimitsKept /\ [Next]_vars => LimitsKept'
  <2> SUFFICES ASSUME TypeOK, LimitsKept, [Next]_vars
               PROVE  LimitsKept'
    OBVIOUS
  <2>1. Len(buffer') < BufferSize
    BY TextStep DEF LimitsKept
  <2>2. IsFiniteSet(pending) /\ Cardinality(pending) <= PendingSlots
    BY DEF LimitsKept
  <2>3. pending' \in SUBSET (pending \cup {lockerPid})
    BY ParkedStep
  <2>4. /\ IsFiniteSet(pending')
        /\ Cardinality(pending') \in Int /\ Cardinality(pending) \in Int
        /\ Cardinality(pending') <= Cardinality(pending) + 1
        /\ pending' \subseteq pending => Cardinality(pending') <= Cardinality(pending)
    BY <2>2, <2>3, OneMore
  <2>5. Cardinality(pending') <= PendingSlots
    BY <2>2, <2>4, ParkedStep, SizeAssumption
  <2> QED
    BY <2>1, <2>4, <2>5 DEF LimitsKept
<1> QED
  BY <1>1, <1>2, TypeCorrect, PTL DEF Spec

-----------------------------------------------------------------------------
(* Outputs *)

(* What a fold computes.  The theorems of the library about induction take *)
(* an operator; these take a set or a function.                            *)

\* A set of numbers that has 0, and the next one of each, has all up to a bound.
LEMMA Climbs ==
    ASSUME NEW n \in Nat, NEW B, 0 \in B, \A i \in 1 .. n : i - 1 \in B => i \in B
    PROVE  \A i \in 0 .. n : i \in B
  <1> DEFINE D == {i \in 0 .. n : i \notin B}
  <1> SUFFICES ASSUME D # {} PROVE FALSE
    OBVIOUS
  <1>1. D \subseteq Nat
    OBVIOUS
  <1>2. PICK x \in D : \A y \in D : <<y, x>> \notin OpToRel(<, Nat)
    BY <1>1, WFMin, NatLessThanWellFounded, Zenon
  <1>3. x \in 1 .. n
    OBVIOUS
  <1>4. x - 1 \in 0 .. n /\ x - 1 \in Nat /\ x \in Nat
    BY <1>3
  <1>5. <<x - 1, x>> \in OpToRel(<, Nat)
    BY <1>4 DEF OpToRel
  <1>6. x - 1 \in B
    BY <1>2, <1>4, <1>5
  <1> QED
    BY <1>2, <1>3, <1>6

\* The sets that a fold comes to are its elements less one at a time.
LEMMA Shrinks ==
    ASSUME NEW S, IsFiniteSet(S), NEW B, {} \in B,
           \A s \in SUBSET S : s # {} /\ (\A x \in s : s \ {x} \in B) => s \in B
    PROVE  S \in B
  <1> DEFINE K == {k \in Nat : \A s \in SUBSET S : Cardinality(s) = k => s \in B}
             n == Cardinality(S)
  <1>1. n \in Nat /\ \A s \in SUBSET S : IsFiniteSet(s) /\ Cardinality(s) \in Nat
    BY FS_Subset, FS_CardinalityType
  <1>2. 0 \in K
    BY <1>1, FS_EmptySet
  <1>3. ASSUME NEW k \in 1 .. n, k - 1 \in K PROVE k \in K
    <2> SUFFICES ASSUME NEW s \in SUBSET S, Cardinality(s) = k PROVE s \in B
      OBVIOUS
    <2>1. s # {}
      <3>1. Cardinality({}) = 0
        BY FS_EmptySet
      <3>2. k # 0
        BY <1>1
      <3> QED
        BY <3>1, <3>2
    <2>2. ASSUME NEW x \in s PROVE s \ {x} \in B
      <3>1. Cardinality(s \ {x}) = k - 1
        BY <1>1, FS_RemoveElement
      <3> QED
        BY <1>3, <3>1
    <2> QED
      BY <2>1, <2>2
  <1> HIDE DEF K, n
  <1>4. n \in K
    <2>1. \A k \in 1 .. n : k - 1 \in K => k \in K
      BY <1>3
    <2>2. \A k \in 0 .. n : k \in K
      BY <1>1, <1>2, <2>1, Climbs
    <2> QED
      BY <1>1, <2>2
  <1> QED
    BY <1>4 DEF K, n

\* The function a fold is defined by exists: pick says which element comes last.
Iterated(g, S, pick, base, step, T) ==
    \A s \in T : g[s] = IF s = {} THEN base ELSE step[<<g[s \ {pick[s]}], pick[s]>>]

LEMMA Iterates ==
    ASSUME NEW S, IsFiniteSet(S),
           NEW pick, \A s \in SUBSET S : s # {} => pick[s] \in s,
           NEW A, NEW base \in A, NEW step \in [A \X S -> A]
    PROVE  \E g \in [SUBSET S -> A] : Iterated(g, S, pick, base, step, SUBSET S)
  <1> DEFINE Sub(k) == {s \in SUBSET S : Cardinality(s) <= k}
             Has(k) == \E g \in [Sub(k) -> A] : Iterated(g, S, pick, base, step, Sub(k))
             K == {k \in Nat : Has(k)}
             n == Cardinality(S)
  <1>1. n \in Nat /\ \A s \in SUBSET S : IsFiniteSet(s) /\ Cardinality(s) \in Nat
    BY FS_Subset, FS_CardinalityType
  <1>2. Has(0)
    <2>1. \A s \in Sub(0) : s = {}
      <3>1. \A s \in SUBSET S : Cardinality(s) <= 0 => s = {}
        BY <1>1, FS_EmptySet
      <3> QED
        BY <3>1
    <2> DEFINE g == [s \in Sub(0) |-> base]
    <2>2. g \in [Sub(0) -> A] /\ Iterated(g, S, pick, base, step, Sub(0))
      BY <2>1 DEF Iterated
    <2> QED
      BY <2>2
  <1>3. ASSUME NEW k \in 1 .. n, Has(k - 1) PROVE Has(k)
    <2>1. PICK f \in [Sub(k - 1) -> A] : Iterated(f, S, pick, base, step, Sub(k - 1))
      BY <1>3
    <2> DEFINE Next1(s) == IF s = {} THEN base ELSE step[<<f[s \ {pick[s]}], pick[s]>>]
               g == [s \in Sub(k) |-> Next1(s)]
    <2>2. ASSUME NEW s \in Sub(k), s # {}
          PROVE  /\ pick[s] \in S /\ s \ {pick[s]} \in Sub(k - 1) /\ s \ {pick[s]} \in Sub(k)
                 /\ Next1(s) \in A
      <3>1. pick[s] \in s /\ s \in SUBSET S
        BY <2>2
      <3>2. Cardinality(s \ {pick[s]}) = Cardinality(s) - 1
        BY <1>1, <3>1, FS_RemoveElement
      <3>3. s \ {pick[s]} \in Sub(k - 1) /\ s \ {pick[s]} \in Sub(k)
        BY <1>1, <3>1, <3>2
      <3> QED
        BY <2>1, <2>2, <3>1, <3>3
    <2>3. g \in [Sub(k) -> A]
      BY <2>2
    <2>4. ASSUME NEW s \in Sub(k - 1) PROVE s \in Sub(k) /\ g[s] = f[s]
      <3>1. s \in Sub(k)
        BY <1>1
      <3>2. f[s] = Next1(s)
        BY <2>1 DEF Iterated
      <3> QED
        BY <3>1, <3>2
    <2>5. Iterated(g, S, pick, base, step, Sub(k))
      <3> SUFFICES ASSUME NEW s \in Sub(k)
                   PROVE  g[s] = IF s = {} THEN base ELSE step[<<g[s \ {pick[s]}], pick[s]>>]
        BY DEF Iterated
      <3>1. g[s] = Next1(s)
        BY DEF g
      <3>2. s # {} => g[s \ {pick[s]}] = f[s \ {pick[s]}]
        BY <2>2, <2>4
      <3> QED
        BY <3>1, <3>2
    <2> HIDE DEF g, Sub
    <2> QED
      BY <2>3, <2>5
  <1> HIDE DEF Has, n
  <1>4. n \in K
    <2>1. \A k \in 1 .. n : k - 1 \in K => k \in K
      BY <1>1, <1>3
    <2>2. 0 \in K
      BY <1>2
    <2> HIDE DEF K
    <2>3. \A k \in 0 .. n : k \in K
      BY <1>1, <2>1, <2>2, Climbs
    <2> QED
      BY <1>1, <2>3
  <1>5. Sub(n) = SUBSET S
    BY <1>1, FS_Subset DEF n
  <1> HIDE DEF Sub
  <1>6. Has(n)
    BY <1>4
  <1>7. PICK g \in [Sub(n) -> A] : Iterated(g, S, pick, base, step, Sub(n))
    BY <1>6 DEF Has
  <1> QED
    BY <1>5, <1>7

\* Max of a set of numbers up to a bound is in it, and Max(1 .. i) is i.
LEMMA MaxUpTo ==
    ASSUME NEW n \in Nat
    PROVE  /\ \A s \in SUBSET (1 .. n) : s # {} => Max(s) \in s
           /\ \A i \in 1 .. n : Max(1 .. i) = i
  <1>1. ASSUME NEW s \in SUBSET (1 .. n), s # {} PROVE Max(s) \in s
    <2> DEFINE D == {n - i : i \in s}
    <2>1. D \subseteq Nat /\ D # {}
      <3>1. PICK i \in s : TRUE
        BY <1>1
      <3>2. n - i \in D
        BY <3>1
      <3> QED
        BY <3>2
    <2>2. PICK x \in D : \A y \in D : <<y, x>> \notin OpToRel(<, Nat)
      BY <2>1, WFMin, NatLessThanWellFounded, Zenon
    <2>3. PICK m \in s : x = n - m
      BY <2>2
    <2>4. ASSUME NEW j \in s PROVE m >= j
      <3>1. n - j \in D /\ n - j \in Nat /\ x \in Nat
        BY <2>1, <2>2
      <3>2. ~(n - j < x)
        BY <2>2, <3>1 DEF OpToRel
      <3> QED
        BY <2>3, <3>2
    <2> QED
      BY <2>4 DEF Max
  <1>2. ASSUME NEW i \in 1 .. n PROVE Max(1 .. i) = i
    <2> DEFINE m == Max(1 .. i)
    <2>1. i \in 1 .. i /\ \A j \in 1 .. i : i >= j
      OBVIOUS
    <2>2. m \in 1 .. i /\ \A j \in 1 .. i : m >= j
      BY <2>1 DEF Max
    <2> QED
      BY <2>1, <2>2
  <1> QED
    BY <1>1, <1>2

\* What FoldLeft computes from a sequence of n elements, one after the other.
Folding(h, n, A, d, step) ==
    /\ h[{}] = d
    /\ \A s \in SUBSET (1 .. n) : s # {} /\ h[s \ {Max(s)}] \in A
           => h[s] = step[<<h[s \ {Max(s)}], Max(s)>>]

Chain(c, n, d, e, step) ==
    /\ c[0] = d /\ c[n] = e
    /\ \A i \in 1 .. n : c[i] = step[<<c[i - 1], i>>]

LEMMA FoldsUp ==
    ASSUME NEW n \in Nat, NEW A, NEW d \in A, NEW step \in [A \X (1 .. n) -> A],
           NEW h, Folding(h, n, A, d, step)
    PROVE  \E c \in [0 .. n -> A] : Chain(c, n, d, h[1 .. n], step)
  <1> DEFINE c == [i \in 0 .. n |-> h[1 .. i]]
             B == {i \in 0 .. n : h[1 .. i] \in A}
  <1>0. /\ h[{}] = d
        /\ \A s \in SUBSET (1 .. n) : s # {} /\ h[s \ {Max(s)}] \in A
               => h[s] = step[<<h[s \ {Max(s)}], Max(s)>>]
    BY DEF Folding
  <1>1. 1 .. 0 = {}
    OBVIOUS
  <1>2. ASSUME NEW i \in 1 .. n
        PROVE  /\ 1 .. i \in SUBSET (1 .. n) /\ 1 .. i # {} /\ Max(1 .. i) = i
               /\ (1 .. i) \ {i} = 1 .. (i - 1)
    <2>1. i \in 1 .. i /\ 1 .. i \in SUBSET (1 .. n)
      OBVIOUS
    <2>2. \A j : j \in (1 .. i) \ {i} <=> j \in 1 .. (i - 1)
      OBVIOUS
    <2>3. (1 .. i) \ {i} = 1 .. (i - 1)
      BY <2>2
    <2> QED
      BY <2>1, <2>3, MaxUpTo
  <1>3. ASSUME NEW i \in 1 .. n, h[1 .. (i - 1)] \in A
        PROVE  h[1 .. i] = step[<<h[1 .. (i - 1)], i>>] /\ h[1 .. i] \in A
    <2>1. h[1 .. i] = step[<<h[1 .. (i - 1)], i>>]
      BY <1>0, <1>2, <1>3
    <2>2. <<h[1 .. (i - 1)], i>> \in A \X (1 .. n)
      BY <1>3
    <2> QED
      BY <2>1, <2>2
  <1>4. \A i \in 0 .. n : i \in B
    <2>1. 0 \in B
      BY <1>0, <1>1
    <2>2. ASSUME NEW i \in 1 .. n, i - 1 \in B PROVE i \in B
      <3>1. h[1 .. (i - 1)] \in A
        BY <2>2
      <3>2. h[1 .. i] \in A
        BY <1>3, <3>1
      <3> QED
        BY <3>2
    <2> HIDE DEF B
    <2> QED
      BY <2>1, <2>2, Climbs
  <1>5. c \in [0 .. n -> A]
    BY <1>4
  <1>6. c[0] = d /\ c[n] = h[1 .. n]
    BY <1>0, <1>1
  <1>7. ASSUME NEW i \in 1 .. n PROVE c[i] = step[<<c[i - 1], i>>]
    <2>1. i - 1 \in 0 .. n /\ i \in 0 .. n
      OBVIOUS
    <2> QED
      BY <1>3, <1>4, <2>1
  <1> HIDE DEF c
  <1>8. Chain(c, n, d, h[1 .. n], step)
    BY <1>6, <1>7 DEF Chain
  <1> QED
    BY <1>5, <1>8

-----------------------------------------------------------------------------
(* States of the outputs *)

Records == [lit : BOOLEAN, enabled : BOOLEAN, wants : BOOLEAN, link : Links, scene : BOOLEAN,
            x : Xs \cup {Nowhere}, gx : Xs \cup {Nowhere}, bar : BOOLEAN, stuck : BOOLEAN]

States == [Outputs -> Records]

Desktops == [out : States, home : Places \cup {"closed"}, current : Places, news : Nat,
             crash : BOOLEAN]

LEMMA Numbers == 0 \in Xs /\ Nowhere \notin Xs /\ Xs \subseteq Nat
  BY OutputsAssumption DEF Xs, Nowhere

LEMMA GeometryXType ==
    ASSUME NEW s \in States, NEW o \in Outputs
    PROVE  GeometryX(s, o) \in Xs
  BY Numbers DEF GeometryX, States, Records

\* The same output but for its bar, which is drawn only if it was or the output is lit.
Alike(q, r) ==
    /\ q.lit = r.lit /\ q.enabled = r.enabled /\ q.wants = r.wants /\ q.link = r.link
    /\ q.scene = r.scene /\ q.x = r.x /\ q.gx = r.gx /\ q.stuck = r.stuck
    /\ q.bar => r.bar \/ r.enabled

LEMMA AlikeIsUnbarred ==
    ASSUME NEW q \in Records, NEW r \in Records, Alike(q, r)
    PROVE  Unbarred(q) = Unbarred(r)
  BY DEF Alike, Unbarred, Records

LEMMA UpdatedIs ==
    ASSUME NEW r \in Records
    PROVE  /\ UpdateGeometry(r) \in Records
           /\ Alike(UpdateGeometry(r), [r EXCEPT !.gx = r.x])
  BY DEF UpdateGeometry, RefreshBar, Alike, Records

\* An output keeps its geometry and its place in step.
InStep(r) == r.x # Nowhere => r.gx = r.x

LEMMA LayoutChangeIs ==
    ASSUME NEW s \in States, NEW ls
    PROVE  /\ LayoutChange(s, ls) \in States
           /\ \A o \in Outputs : InStep(s[o]) => Alike(LayoutChange(s, ls)[o], s[o])
           /\ \A o \in Outputs : o \in ToSet(ls) => InStep(LayoutChange(s, ls)[o])
           /\ \A o \in Outputs : o \notin ToSet(ls) => LayoutChange(s, ls)[o] = s[o]
           /\ \A o \in Outputs : s[o].x = Nowhere => LayoutChange(s, ls)[o] = s[o]
           /\ \A o \in Outputs : o \in ToSet(ls) /\ s[o].x # Nowhere
                  => Alike(LayoutChange(s, ls)[o], [s[o] EXCEPT !.gx = s[o].x])
  <1> DEFINE q(o) == IF o \in ToSet(ls) /\ s[o].x # Nowhere THEN UpdateGeometry(s[o]) ELSE s[o]
  <1>1. LayoutChange(s, ls) = [o \in Outputs |-> q(o)]
    BY DEF LayoutChange
  <1>2. ASSUME NEW o \in Outputs
        PROVE  /\ q(o) \in Records /\ (InStep(s[o]) => Alike(q(o), s[o]))
               /\ o \in ToSet(ls) => InStep(q(o))
               /\ o \in ToSet(ls) /\ s[o].x # Nowhere => Alike(q(o), [s[o] EXCEPT !.gx = s[o].x])
    <2> DEFINE r == s[o]
    <2>1. r \in Records
      BY DEF States
    <2> HIDE DEF r
    <2>2. /\ UpdateGeometry(r) \in Records
          /\ Alike(UpdateGeometry(r), [r EXCEPT !.gx = r.x])
      BY <2>1, UpdatedIs
    <2>3. InStep(r) /\ r.x # Nowhere => Alike(UpdateGeometry(r), r)
      BY <2>1, <2>2 DEF InStep, Alike, Records
    <2>4. r.x # Nowhere => InStep(UpdateGeometry(r))
      BY <2>1, <2>2 DEF InStep, Alike, Records
    <2>5. Alike(r, r)
      BY DEF Alike
    <2> QED
      BY <2>1, <2>2, <2>3, <2>4, <2>5 DEF r, InStep
  <1> QED
    BY <1>1, <1>2 DEF States

-----------------------------------------------------------------------------
(* The list of outputs *)

\* The list of outputs has each once.
Lists == {ls \in Seq(Outputs) : IsInjective(ls)}

LEMMA FirstOf ==
    ASSUME NEW n \in Nat, NEW I \in SUBSET (1 .. n), I # {}
    PROVE  Min(I) \in I
  <1>1. I \subseteq Nat
    OBVIOUS
  <1>2. PICK x \in I : \A y \in I : <<y, x>> \notin OpToRel(<, Nat)
    BY <1>1, WFMin, NatLessThanWellFounded, Zenon
  <1>3. ASSUME NEW y \in I PROVE x <= y
    <2>1. x \in Nat /\ y \in Nat /\ ~(y < x)
      BY <1>1, <1>2 DEF OpToRel
    <2> QED
      BY <2>1
  <1> QED
    BY <1>2, <1>3 DEF Min

LEMMA SetOfSeq ==
    ASSUME NEW ls \in Seq(Outputs)
    PROVE  /\ Len(ls) \in Nat /\ DOMAIN ls = 1 .. Len(ls)
           /\ \A i \in 1 .. Len(ls) : ls[i] \in Outputs /\ ls[i] \in ToSet(ls)
           /\ \A o \in ToSet(ls) : o \in Outputs /\ \E i \in 1 .. Len(ls) : ls[i] = o
           /\ ls = <<>> <=> ToSet(ls) = {}
  <1>1. Len(ls) \in Nat /\ DOMAIN ls = 1 .. Len(ls) /\ \A i \in 1 .. Len(ls) : ls[i] \in Outputs
    BY LenProperties, ElementOfSeq
  <1>2. \A i \in 1 .. Len(ls) : ls[i] \in ToSet(ls)
    BY <1>1 DEF ToSet
  <1>3. \A o \in ToSet(ls) : o \in Outputs /\ \E i \in 1 .. Len(ls) : ls[i] = o
    BY <1>1 DEF ToSet
  <1>4. ls = <<>> <=> ToSet(ls) = {}
    <2>1. ls = <<>> => Len(ls) = 0
      OBVIOUS
    <2>2. ls # <<>> => Len(ls) \in Nat \ {0}
      BY EmptySeq
    <2>3. ls = <<>> => ToSet(ls) = {}
      BY <1>3, <2>1
    <2>4. ls # <<>> => 1 \in 1 .. Len(ls)
      BY <2>2
    <2> QED
      BY <1>2, <2>3, <2>4
  <1> QED
    BY <1>1, <1>2, <1>3, <1>4

LEMMA Prepended ==
    ASSUME NEW ls \in Lists, NEW o \in Outputs
    PROVE  /\ <<o>> \o ls \in Seq(Outputs) /\ ToSet(<<o>> \o ls) = {o} \cup ToSet(ls)
           /\ <<o>> \o ls # <<>>
           /\ o \notin ToSet(ls) => <<o>> \o ls \in Lists
  <1> DEFINE r == <<o>> \o ls
  <1>1. ls \in Seq(Outputs) /\ <<o>> \in Seq(Outputs) /\ Len(<<o>>) = 1 /\ <<o>>[1] = o
    BY DEF Lists
  <1>2. /\ r \in Seq(Outputs) /\ Len(r) = 1 + Len(ls)
        /\ \A i \in 1 .. 1 + Len(ls) : r[i] = IF i <= 1 THEN o ELSE ls[i - 1]
    BY <1>1, ConcatProperties
  <1> HIDE DEF r
  <1>3. /\ Len(ls) \in Nat /\ DOMAIN ls = 1 .. Len(ls) /\ DOMAIN r = 1 .. Len(r)
        /\ \A i \in 1 .. Len(ls) : ls[i] \in ToSet(ls)
        /\ \A p \in ToSet(ls) : \E i \in 1 .. Len(ls) : ls[i] = p
        /\ \A i \in 1 .. Len(r) : r[i] \in ToSet(r)
        /\ \A p \in ToSet(r) : \E i \in 1 .. Len(r) : r[i] = p
        /\ r = <<>> <=> ToSet(r) = {}
    BY <1>1, <1>2, SetOfSeq
  <1>4. ASSUME NEW p \in ToSet(r) PROVE p \in {o} \cup ToSet(ls)
    <2>1. PICK i \in 1 .. Len(r) : r[i] = p
      BY <1>3
    <2>2. i > 1 => i - 1 \in 1 .. Len(ls)
      BY <1>2, <1>3
    <2> QED
      BY <1>2, <1>3, <2>1, <2>2
  <1>5. o \in ToSet(r)
    <2>1. 1 \in 1 .. Len(r) /\ r[1] = o
      BY <1>2, <1>3
    <2> QED
      BY <1>3, <2>1
  <1>6. ASSUME NEW p \in ToSet(ls) PROVE p \in ToSet(r)
    <2>1. PICK i \in 1 .. Len(ls) : ls[i] = p
      BY <1>3
    <2>2. i + 1 \in 1 .. Len(r) /\ r[i + 1] = p
      BY <1>2, <1>3, <2>1
    <2> QED
      BY <1>3, <2>2
  <1>7. ASSUME o \notin ToSet(ls) PROVE IsInjective(r)
    <2> SUFFICES ASSUME NEW i \in 1 .. Len(r), NEW j \in 1 .. Len(r), r[i] = r[j] PROVE i = j
      BY <1>3 DEF IsInjective
    <2>1. i > 1 => i - 1 \in 1 .. Len(ls) /\ r[i] = ls[i - 1] /\ r[i] # o
      BY <1>2, <1>3, <1>7
    <2>2. j > 1 => j - 1 \in 1 .. Len(ls) /\ r[j] = ls[j - 1] /\ r[j] # o
      BY <1>2, <1>3, <1>7
    <2>3. i > 1 /\ j > 1 => i - 1 = j - 1
      BY <1>3, <2>1, <2>2 DEF Lists, IsInjective
    <2>4. (i = 1 => r[i] = o) /\ (j = 1 => r[j] = o)
      BY <1>2, <1>3
    <2> QED
      BY <2>1, <2>2, <2>3, <2>4
  <1>8. ToSet(r) = {o} \cup ToSet(ls)
    BY <1>4, <1>5, <1>6
  <1> QED
    BY <1>2, <1>3, <1>5, <1>7, <1>8 DEF Lists, r

LEMMA Removed ==
    ASSUME NEW ls \in Lists, NEW o \in Outputs
    PROVE  RemoveFirst(ls, o) \in Lists /\ ToSet(RemoveFirst(ls, o)) = ToSet(ls) \ {o}
  <1>1. /\ ls \in Seq(Outputs) /\ Len(ls) \in Nat /\ DOMAIN ls = 1 .. Len(ls)
        /\ \A i \in 1 .. Len(ls) : ls[i] \in ToSet(ls) /\ ls[i] \in Outputs
        /\ \A p \in ToSet(ls) : \E i \in 1 .. Len(ls) : ls[i] = p
        /\ \A i, j \in 1 .. Len(ls) : ls[i] = ls[j] => i = j
    BY SetOfSeq DEF Lists, IsInjective
  <1>2. CASE ~\E i \in 1 .. Len(ls) : ls[i] = o
    <2>1. RemoveFirst(ls, o) = ls
      BY <1>2 DEF RemoveFirst
    <2>2. o \notin ToSet(ls)
      BY <1>1, <1>2
    <2> QED
      BY <2>1, <2>2
  <1>3. CASE \E i \in 1 .. Len(ls) : ls[i] = o
    <2> DEFINE I == {i \in 1 .. Len(ls) : ls[i] = o}
               k == Min(I)
               a == SubSeq(ls, 1, k - 1)
               b == SubSeq(ls, k + 1, Len(ls))
               r == a \o b
    <2>1. I # {}
      BY <1>3
    <2>2. RemoveFirst(ls, o) = r
      BY <1>3, <2>1 DEF RemoveFirst, RemoveAt, SelectInSeq
    <2>3. k \in 1 .. Len(ls) /\ ls[k] = o
      <3>1. I \in SUBSET (1 .. Len(ls))
        OBVIOUS
      <3>2. Min(I) \in I
        BY <1>1, <2>1, <3>1, FirstOf
      <3> QED
        BY <3>2
    <2> HIDE DEF k, I
    <2>4. /\ a \in Seq(Outputs) /\ Len(a) = k - 1 /\ \A i \in 1 .. k - 1 : a[i] = ls[i]
      <3>1. 1 \in Int /\ k - 1 \in Int /\ \A i \in 1 .. k - 1 : ls[i] \in Outputs
        BY <1>1, <2>3
      <3>2. /\ SubSeq(ls, 1, k - 1) \in Seq(Outputs)
            /\ Len(SubSeq(ls, 1, k - 1)) = IF 1 <= k - 1 THEN (k - 1) - 1 + 1 ELSE 0
            /\ \A i \in 1 .. (k - 1) - 1 + 1 : SubSeq(ls, 1, k - 1)[i] = ls[1 + i - 1]
        BY <3>1, SubSeqProperties
      <3> HIDE DEF a
      <3>3. a \in Seq(Outputs) /\ Len(a) = k - 1
        BY <2>3, <3>2 DEF a
      <3>4. ASSUME NEW i \in 1 .. k - 1 PROVE a[i] = ls[i]
        BY <2>3, <3>2 DEF a
      <3> QED
        BY <3>3, <3>4
    <2>5. /\ b \in Seq(Outputs) /\ Len(b) = Len(ls) - k /\ \A i \in 1 .. Len(ls) - k : b[i] = ls[k + i]
      <3>1. k + 1 \in Int /\ Len(ls) \in Int /\ \A i \in k + 1 .. Len(ls) : ls[i] \in Outputs
        BY <1>1, <2>3
      <3>2. /\ SubSeq(ls, k + 1, Len(ls)) \in Seq(Outputs)
            /\ Len(SubSeq(ls, k + 1, Len(ls))) = IF k + 1 <= Len(ls) THEN Len(ls) - (k + 1) + 1 ELSE 0
            /\ \A i \in 1 .. Len(ls) - (k + 1) + 1 : SubSeq(ls, k + 1, Len(ls))[i] = ls[(k + 1) + i - 1]
        BY <3>1, SubSeqProperties
      <3> HIDE DEF b
      <3>3. b \in Seq(Outputs) /\ Len(b) = Len(ls) - k
        <4>1. Len(b) = IF k + 1 <= Len(ls) THEN Len(ls) - (k + 1) + 1 ELSE 0
          BY <3>2 DEF b
        <4>2. k \in Nat /\ Len(ls) \in Nat /\ k <= Len(ls)
          BY <1>1, <2>3
        <4>3. b \in Seq(Outputs)
          BY <3>2 DEF b
        <4> QED
          BY <4>1, <4>2, <4>3
      <3>4. ASSUME NEW i \in 1 .. Len(ls) - k PROVE b[i] = ls[k + i]
        BY <1>1, <2>3, <3>2 DEF b
      <3> QED
        BY <3>3, <3>4
    <2> HIDE DEF a, b
    <2>6. /\ r \in Seq(Outputs) /\ Len(r) = Len(a) + Len(b)
          /\ \A i \in 1 .. Len(a) + Len(b) : r[i] = IF i <= Len(a) THEN a[i] ELSE b[i - Len(a)]
      BY <2>4, <2>5, ConcatProperties
    <2> HIDE DEF r
    <2>7. Len(r) = Len(ls) - 1
      BY <1>1, <2>3, <2>4, <2>5, <2>6
    <2>8. ASSUME NEW i \in 1 .. Len(r)
          PROVE  \E j \in 1 .. Len(ls) : r[i] = ls[j] /\ j # k /\ j = IF i < k THEN i ELSE i + 1
      <3>1. CASE i < k
        <4>1. i <= Len(a) /\ i \in 1 .. Len(a) + Len(b) /\ i \in 1 .. k - 1 /\ i \in 1 .. Len(ls)
          BY <1>1, <2>3, <2>4, <2>5, <2>7, <3>1
        <4>2. r[i] = ls[i]
          BY <2>4, <2>6, <4>1
        <4> QED
          BY <3>1, <4>1, <4>2, <2>3
      <3>2. CASE ~(i < k)
        <4>1. /\ ~(i <= Len(a)) /\ i \in 1 .. Len(a) + Len(b) /\ i - Len(a) \in 1 .. Len(ls) - k
              /\ k + (i - Len(a)) = i + 1 /\ i + 1 \in 1 .. Len(ls)
          BY <1>1, <2>3, <2>4, <2>5, <2>7, <3>2
        <4>2. r[i] = ls[i + 1]
          BY <2>5, <2>6, <4>1
        <4> QED
          BY <3>2, <4>1, <4>2, <2>3
      <3> QED
        BY <3>1, <3>2
    <2>9. Len(r) \in Nat /\ DOMAIN r = 1 .. Len(r)
      BY <2>6, SetOfSeq
    <2>10. IsInjective(r)
      <3> SUFFICES ASSUME NEW i \in 1 .. Len(r), NEW j \in 1 .. Len(r), r[i] = r[j] PROVE i = j
        BY <2>9 DEF IsInjective
      <3>1. PICK x \in 1 .. Len(ls) : r[i] = ls[x] /\ x = IF i < k THEN i ELSE i + 1
        BY <2>8
      <3>2. PICK y \in 1 .. Len(ls) : r[j] = ls[y] /\ y = IF j < k THEN j ELSE j + 1
        BY <2>8
      <3>3. x = y
        BY <1>1, <3>1, <3>2
      <3> QED
        BY <2>3, <2>9, <3>1, <3>2, <3>3
    <2>11. ToSet(r) \subseteq ToSet(ls) \ {o}
      <3> SUFFICES ASSUME NEW p \in ToSet(r) PROVE p \in ToSet(ls) \ {o}
        OBVIOUS
      <3>1. PICK i \in 1 .. Len(r) : r[i] = p
        BY <2>6, SetOfSeq
      <3>2. PICK j \in 1 .. Len(ls) : r[i] = ls[j] /\ j # k
        BY <2>8
      <3> QED
        BY <1>1, <2>3, <3>1, <3>2
    <2>12. ToSet(ls) \ {o} \subseteq ToSet(r)
      <3> SUFFICES ASSUME NEW p \in ToSet(ls), p # o PROVE p \in ToSet(r)
        OBVIOUS
      <3>1. PICK j \in 1 .. Len(ls) : ls[j] = p
        BY <1>1
      <3> DEFINE i == IF j < k THEN j ELSE j - 1
      <3>2. j # k /\ i \in 1 .. Len(r)
        BY <1>1, <2>3, <2>7, <3>1
      <3>3. PICK x \in 1 .. Len(ls) : r[i] = ls[x] /\ x = IF i < k THEN i ELSE i + 1
        BY <2>8, <3>2
      <3>4. x = j
        BY <1>1, <2>3, <3>2, <3>3
      <3>5. \A z \in 1 .. Len(r) : r[z] \in ToSet(r)
        BY <2>6, SetOfSeq
      <3> QED
        BY <3>1, <3>2, <3>3, <3>4, <3>5
    <2> QED
      BY <2>2, <2>6, <2>10, <2>11, <2>12 DEF Lists
  <1> QED
    BY <1>2, <1>3

-----------------------------------------------------------------------------
(* The next output and what moves there *)

\* Another output of the list is part of the desktop.
Another(s, ls, o) == \E p \in ToSet(ls) : p # o /\ s[p].wants

Around(ls, k) == SubSeq(ls, k + 1, Len(ls)) \o SubSeq(ls, 1, k - 1)

\* The ring behind an output has the others.
LEMMA AroundIs ==
    ASSUME NEW ls \in Lists, NEW k \in 1 .. Len(ls)
    PROVE  /\ Around(ls, k) \in Seq(Outputs)
           /\ ToSet(Around(ls, k)) = ToSet(ls) \ {ls[k]}
  <1> DEFINE a == SubSeq(ls, 1, k - 1)
             b == SubSeq(ls, k + 1, Len(ls))
             r == b \o a
  <1>1. /\ ls \in Seq(Outputs) /\ Len(ls) \in Nat /\ DOMAIN ls = 1 .. Len(ls)
        /\ \A i \in 1 .. Len(ls) : ls[i] \in ToSet(ls) /\ ls[i] \in Outputs
        /\ \A p \in ToSet(ls) : \E i \in 1 .. Len(ls) : ls[i] = p
        /\ \A i, j \in 1 .. Len(ls) : ls[i] = ls[j] => i = j
    BY SetOfSeq DEF Lists, IsInjective
  <1>2. /\ a \in Seq(Outputs) /\ Len(a) = k - 1 /\ \A i \in 1 .. k - 1 : a[i] = ls[i]
    <2>1. 1 \in Int /\ k - 1 \in Int /\ \A i \in 1 .. k - 1 : ls[i] \in Outputs
      BY <1>1
    <2>2. /\ SubSeq(ls, 1, k - 1) \in Seq(Outputs)
          /\ Len(SubSeq(ls, 1, k - 1)) = IF 1 <= k - 1 THEN (k - 1) - 1 + 1 ELSE 0
          /\ \A i \in 1 .. (k - 1) - 1 + 1 : SubSeq(ls, 1, k - 1)[i] = ls[1 + i - 1]
      BY <2>1, SubSeqProperties
    <2> HIDE DEF a
    <2>3. a \in Seq(Outputs) /\ Len(a) = k - 1
      BY <1>1, <2>2 DEF a
    <2>4. ASSUME NEW i \in 1 .. k - 1 PROVE a[i] = ls[i]
      BY <1>1, <2>2 DEF a
    <2> QED
      BY <2>3, <2>4
  <1>3. /\ b \in Seq(Outputs) /\ Len(b) = Len(ls) - k /\ \A i \in 1 .. Len(ls) - k : b[i] = ls[k + i]
    <2>1. k + 1 \in Int /\ Len(ls) \in Int /\ \A i \in k + 1 .. Len(ls) : ls[i] \in Outputs
      BY <1>1
    <2>2. /\ SubSeq(ls, k + 1, Len(ls)) \in Seq(Outputs)
          /\ Len(SubSeq(ls, k + 1, Len(ls))) = IF k + 1 <= Len(ls) THEN Len(ls) - (k + 1) + 1 ELSE 0
          /\ \A i \in 1 .. Len(ls) - (k + 1) + 1 : SubSeq(ls, k + 1, Len(ls))[i] = ls[(k + 1) + i - 1]
      BY <2>1, SubSeqProperties
    <2> HIDE DEF b
    <2>3. b \in Seq(Outputs) /\ Len(b) = Len(ls) - k
      <3>1. Len(b) = IF k + 1 <= Len(ls) THEN Len(ls) - (k + 1) + 1 ELSE 0
        BY <2>2 DEF b
      <3>2. k \in Nat /\ Len(ls) \in Nat /\ k <= Len(ls)
        BY <1>1
      <3>3. b \in Seq(Outputs)
        BY <2>2 DEF b
      <3> QED
        BY <3>1, <3>2, <3>3
    <2>4. ASSUME NEW i \in 1 .. Len(ls) - k PROVE b[i] = ls[k + i]
      BY <1>1, <2>2 DEF b
    <2> QED
      BY <2>3, <2>4
  <1>4. Around(ls, k) = r
    BY DEF Around
  <1> HIDE DEF a, b
  <1>5. /\ r \in Seq(Outputs) /\ Len(r) = Len(b) + Len(a)
        /\ \A i \in 1 .. Len(b) + Len(a) : r[i] = IF i <= Len(b) THEN b[i] ELSE a[i - Len(b)]
    BY <1>2, <1>3, ConcatProperties
  <1> HIDE DEF r
  <1>6. k \in Nat /\ k >= 1 /\ k <= Len(ls)
    BY <1>1
  <1>7. ASSUME NEW p \in ToSet(r) PROVE p \in ToSet(ls) \ {ls[k]}
    <2>1. PICK i \in 1 .. Len(r) : r[i] = p
      BY <1>5, SetOfSeq
    <2>2. CASE i <= Len(b)
      <3>1. i \in 1 .. Len(b) + Len(a) /\ i \in 1 .. Len(ls) - k /\ k + i \in 1 .. Len(ls) /\ k + i # k
        BY <1>1, <1>2, <1>3, <1>5, <1>6, <2>2
      <3>2. p = ls[k + i]
        BY <1>3, <1>5, <2>1, <2>2, <3>1
      <3> QED
        BY <1>1, <3>1, <3>2
    <2>3. CASE ~(i <= Len(b))
      <3>1. /\ i \in 1 .. Len(b) + Len(a) /\ i - Len(b) \in 1 .. k - 1 /\ i - Len(b) \in 1 .. Len(ls)
            /\ i - Len(b) # k
        BY <1>1, <1>2, <1>3, <1>5, <1>6, <2>3
      <3>2. p = ls[i - Len(b)]
        BY <1>2, <1>5, <2>1, <2>3, <3>1
      <3> QED
        BY <1>1, <3>1, <3>2
    <2> QED
      BY <2>2, <2>3
  <1>8. ASSUME NEW p \in ToSet(ls) \ {ls[k]} PROVE p \in ToSet(r)
    <2>1. PICK j \in 1 .. Len(ls) : ls[j] = p
      BY <1>1
    <2>2. \A z \in 1 .. Len(r) : r[z] \in ToSet(r)
      BY <1>5, SetOfSeq
    <2>3. CASE j > k
      <3>1. j - k \in 1 .. Len(b) + Len(a) /\ j - k <= Len(b) /\ j - k \in 1 .. Len(ls) - k
        BY <1>1, <1>2, <1>3, <1>6, <2>3
      <3>2. r[j - k] = ls[k + (j - k)] /\ k + (j - k) = j
        BY <1>3, <1>5, <1>6, <3>1
      <3> QED
        BY <1>5, <2>1, <2>2, <3>1, <3>2
    <2>4. CASE j < k
      <3>1. /\ Len(b) + j \in 1 .. Len(b) + Len(a) /\ ~(Len(b) + j <= Len(b)) /\ (Len(b) + j) - Len(b) = j
            /\ j \in 1 .. k - 1
        BY <1>1, <1>2, <1>3, <1>6, <2>4
      <3>2. r[Len(b) + j] = ls[j]
        BY <1>2, <1>5, <3>1
      <3> QED
        BY <1>5, <2>1, <2>2, <3>1, <3>2
    <2>5. j # k
      BY <2>1
    <2> QED
      BY <1>6, <2>3, <2>4, <2>5
  <1> QED
    BY <1>4, <1>5, <1>7, <1>8

LEMMA NextIs ==
    ASSUME NEW ls \in Lists, NEW s \in States, NEW o \in Outputs
    PROVE  /\ NextOutput(s, ls, o) \in Outputs
           /\ o \in ToSet(ls) /\ Another(s, ls, o) =>
                /\ NextOutput(s, ls, o) # o /\ NextOutput(s, ls, o) \in ToSet(ls)
                /\ s[NextOutput(s, ls, o)].wants
           /\ o \in ToSet(ls) /\ NextOutput(s, ls, o) # o => Another(s, ls, o)
  <1> DEFINE I == {i \in 1 .. Len(ls) : ls[i] = o}
             k == IF I # {} THEN Min(I) ELSE 0
             ring == IF k = 0 THEN <<>> ELSE Around(ls, k)
             J == {j \in 1 .. Len(ring) : s[ring[j]].wants}
             j == IF J # {} THEN Min(J) ELSE 0
  <1>1. NextOutput(s, ls, o) = IF j = 0 THEN o ELSE ring[j]
    BY DEF NextOutput, SelectInSeq, Around
  <1>2. /\ ls \in Seq(Outputs) /\ Len(ls) \in Nat
        /\ \A p \in ToSet(ls) : \E i \in 1 .. Len(ls) : ls[i] = p
        /\ \A i \in 1 .. Len(ls) : ls[i] \in ToSet(ls) /\ ls[i] \in Outputs
    BY SetOfSeq DEF Lists
  <1>3. I \in SUBSET (1 .. Len(ls)) /\ (I # {} <=> o \in ToSet(ls))
    BY <1>2
  <1>4. o \in ToSet(ls) => k \in 1 .. Len(ls) /\ ls[k] = o
    <2>1. I # {} => Min(I) \in I
      BY <1>2, <1>3, FirstOf
    <2> QED
      BY <1>3, <2>1
  <1>5. o \notin ToSet(ls) => k = 0
    BY <1>3
  <1> HIDE DEF k, I
  <1>6. ring \in Seq(Outputs)
    BY <1>4, <1>5, AroundIs
  <1>7. o \in ToSet(ls) => k # 0 /\ ToSet(ring) = ToSet(ls) \ {o}
    BY <1>4, AroundIs
  <1> HIDE DEF ring
  <1>8. /\ Len(ring) \in Nat
        /\ \A p \in ToSet(ring) : \E i \in 1 .. Len(ring) : ring[i] = p
        /\ \A i \in 1 .. Len(ring) : ring[i] \in ToSet(ring) /\ ring[i] \in Outputs
    BY <1>6, SetOfSeq
  <1>9. J # {} => j \in 1 .. Len(ring) /\ s[ring[j]].wants
    <2>1. J \in SUBSET (1 .. Len(ring))
      OBVIOUS
    <2>2. J # {} => Min(J) \in J
      BY <1>8, <2>1, FirstOf
    <2> QED
      BY <2>2
  <1>10. J = {} => j = 0
    OBVIOUS
  <1>11. o \in ToSet(ls) /\ Another(s, ls, o) => J # {}
    BY <1>7, <1>8 DEF Another
  <1> HIDE DEF j, J
  <1>12. J # {} => j # 0 /\ NextOutput(s, ls, o) = ring[j]
    BY <1>1, <1>8, <1>9
  <1>13. J = {} => NextOutput(s, ls, o) = o
    BY <1>1, <1>10
  <1>14. o \in ToSet(ls) /\ J # {} => Another(s, ls, o)
    BY <1>7, <1>8, <1>9 DEF Another
  <1> QED
    BY <1>7, <1>8, <1>9, <1>11, <1>12, <1>13, <1>14

\* The windows of an output go to another that is part of the desktop, if there is one.
LEMMA EvacuateIs ==
    ASSUME NEW d \in Desktops, NEW ls \in Lists, NEW o \in ToSet(ls)
    PROVE  LET e == Evacuate(d, ls, o) IN
           /\ e \in Desktops /\ e.out = d.out /\ e.news = d.news /\ e.crash = d.crash
           /\ Another(d.out, ls, o) =>
                /\ e.current # Noop /\ (d.home # Noop => e.home # Noop)
  <1> DEFINE to == Refuge(d.out, ls, o)
             home1 == IF d.home = o THEN to ELSE d.home
  <1>1. o \in Outputs /\ ls # <<>> /\ d.out \in States
    BY SetOfSeq DEF Lists, Desktops
  <1>2. /\ to \in Places
        /\ Another(d.out, ls, o) => to # Noop
    BY <1>1, NextIs, OutputsAssumption DEF Refuge, Places
  <1>3. Evacuate(d, ls, o) = [d EXCEPT !.home = home1, !.current = to]
    BY <1>1 DEF Evacuate, Desktops
  <1> HIDE DEF to
  <1>4. home1 \in Places \cup {"closed"} /\ (Another(d.out, ls, o) /\ d.home # Noop => home1 # Noop)
    BY <1>2 DEF Desktops
  <1> HIDE DEF home1
  <1> QED
    BY <1>2, <1>3, <1>4 DEF Desktops

-----------------------------------------------------------------------------
(* One output is moved, attached, detached *)

LEMMA MovedIs ==
    ASSUME NEW s \in States, NEW ls, NEW o \in Outputs, o \in ToSet(ls), NEW x \in Xs,
           NEW t, t = LayoutAdd(s, ls, o, x)
    PROVE  /\ t \in States
           /\ \A p \in Outputs \ {o} : InStep(s[p]) => Alike(t[p], s[p])
           /\ Alike(t[o], [s[o] EXCEPT !.x = x, !.gx = x])
  <1> DEFINE u == [s EXCEPT ![o] = [s[o] EXCEPT !.x = x]]
             t1 == LayoutChange(u, ls)
  <1>1. LayoutAdd(s, ls, o, x) = t1
    BY DEF LayoutAdd
  <1>2. u \in States /\ \A p \in Outputs \ {o} : u[p] = s[p]
    BY DEF States, Records
  <1>3. u[o] = [s[o] EXCEPT !.x = x] /\ s[o] \in Records
    BY DEF States
  <1>4. u[o].x = x /\ u[o].x # Nowhere
    BY <1>3, Numbers DEF Records
  <1> HIDE DEF u
  <1>5. /\ t1 \in States
        /\ \A p \in Outputs : InStep(u[p]) => Alike(t1[p], u[p])
        /\ \A p \in Outputs : p \in ToSet(ls) /\ u[p].x # Nowhere
               => Alike(t1[p], [u[p] EXCEPT !.gx = u[p].x])
    BY <1>2, LayoutChangeIs
  <1> HIDE DEF t1
  <1>6. Alike(t1[o], [u[o] EXCEPT !.gx = u[o].x])
    BY <1>4, <1>5
  <1>7. [u[o] EXCEPT !.gx = u[o].x] = [s[o] EXCEPT !.x = x, !.gx = x]
    BY <1>3, <1>4 DEF Records
  <1> QED
    BY <1>1, <1>2, <1>5, <1>6, <1>7

\* What Detach() makes of the record.
Stripped(r) == [r EXCEPT !.scene = FALSE, !.x = Nowhere, !.bar = FALSE]

LEMMA DetachedIs ==
    ASSUME NEW s \in States, NEW ls, NEW o \in Outputs,
           NEW t, t = Detach(s, ls, o)
    PROVE  /\ t \in States
           /\ \A p \in Outputs \ {o} : InStep(s[p]) => Alike(t[p], s[p])
           /\ t[o] = Stripped(s[o])
  <1> DEFINE q == [s[o] EXCEPT !.scene = FALSE, !.x = Nowhere]
             u == [s EXCEPT ![o] = q]
             v == LayoutChange(u, ls)
             t1 == [v EXCEPT ![o] = [v[o] EXCEPT !.bar = FALSE]]
  <1>1. [s EXCEPT ![o].scene = FALSE, ![o].x = Nowhere] = u
    BY DEF States
  <1>2. Detach(s, ls, o) = t1
    BY <1>1 DEF Detach
  <1>3. s[o] \in Records
    BY DEF States
  <1>4. q \in Records /\ q.x = Nowhere
    BY <1>3 DEF Records
  <1>5. [q EXCEPT !.bar = FALSE] = [s[o] EXCEPT !.scene = FALSE, !.x = Nowhere, !.bar = FALSE]
    BY <1>3 DEF Records
  <1> HIDE DEF q
  <1>6. u \in States /\ u[o] = q /\ \A p \in Outputs \ {o} : u[p] = s[p]
    BY <1>4 DEF States
  <1> HIDE DEF u
  <1>7. /\ v \in States
        /\ \A p \in Outputs : InStep(u[p]) => Alike(v[p], u[p])
        /\ v[o] = u[o]
    BY <1>4, <1>6, LayoutChangeIs
  <1> HIDE DEF v
  <1>8. [q EXCEPT !.bar = FALSE] \in Records
    BY <1>4 DEF Records
  <1>9. t1 \in States /\ t1[o] = [q EXCEPT !.bar = FALSE] /\ \A p \in Outputs \ {o} : t1[p] = v[p]
    BY <1>6, <1>7, <1>8 DEF States
  <1> HIDE DEF t1
  <1>10. \A p \in Outputs \ {o} : InStep(s[p]) => Alike(t1[p], s[p])
    BY <1>6, <1>7, <1>9
  <1>11. Stripped(s[o]) = [q EXCEPT !.bar = FALSE]
    BY <1>5 DEF Stripped
  <1> QED
    BY <1>2, <1>9, <1>10, <1>11

\* What Attach() makes of a record that has no scene output.
Seat(r) == IF r.gx = Nowhere THEN 0 ELSE r.gx

Seated(r) == [r EXCEPT !.scene = TRUE, !.x = Seat(r), !.gx = Seat(r)]

LEMMA AttachedIs ==
    ASSUME NEW s \in States, NEW ls, NEW o \in Outputs, o \in ToSet(ls), ~s[o].scene,
           NEW t, t = Attach(s, ls, o)
    PROVE  /\ t \in States
           /\ \A p \in Outputs \ {o} : InStep(s[p]) => Alike(t[p], s[p])
           /\ Alike(t[o], Seated(s[o]))
  <1> DEFINE x == GeometryX(s, o)
             v == LayoutAdd(s, ls, o, x)
             t1 == [v EXCEPT ![o] = [v[o] EXCEPT !.scene = TRUE]]
  <1>1. Attach(s, ls, o) = t1
    BY DEF Attach
  <1>2. x \in Xs /\ s[o] \in Records
    BY GeometryXType DEF States
  <1> HIDE DEF x
  <1>3. /\ v \in States
        /\ \A p \in Outputs \ {o} : InStep(s[p]) => Alike(v[p], s[p])
        /\ Alike(v[o], [s[o] EXCEPT !.x = x, !.gx = x])
    BY <1>2, MovedIs
  <1> HIDE DEF v
  <1>4. v[o] \in Records
    BY <1>3 DEF States
  <1> DEFINE q == [v[o] EXCEPT !.scene = TRUE]
  <1>5. q \in Records /\ Alike(q, [s[o] EXCEPT !.scene = TRUE, !.x = x, !.gx = x])
    <2>1. q \in Records
      BY <1>4 DEF Records
    <2>2. /\ q.lit = v[o].lit /\ q.enabled = v[o].enabled /\ q.wants = v[o].wants /\ q.link = v[o].link
          /\ q.scene = TRUE /\ q.x = v[o].x /\ q.gx = v[o].gx /\ q.stuck = v[o].stuck /\ q.bar = v[o].bar
      BY <1>4 DEF Records
    <2> HIDE DEF q
    <2> QED
      BY ZenonT(60), <1>2, <1>3, <2>1, <2>2 DEF Alike, Records
  <1> HIDE DEF q
  <1>6. t1 = [v EXCEPT ![o] = q]
    BY DEF q
  <1> HIDE DEF t1
  <1>7. t1 \in States /\ t1[o] = q /\ \A p \in Outputs \ {o} : t1[p] = v[p]
    BY <1>3, <1>5, <1>6 DEF States
  <1>8. \A p \in Outputs \ {o} : InStep(s[p]) => Alike(t1[p], s[p])
    BY <1>3, <1>7
  <1>9. Seated(s[o]) = [s[o] EXCEPT !.scene = TRUE, !.x = x, !.gx = x]
    BY DEF Seated, Seat, GeometryX, x
  <1> QED
    BY <1>1, <1>5, <1>7, <1>8, <1>9

-----------------------------------------------------------------------------
(* A head of a configuration *)

\* A listed output, attached to the layout or not; and one at rest.
Fit(r) ==
    /\ InStep(r) /\ r.gx # Nowhere /\ r.link # "loose"
    /\ r.enabled <=> r.link = "in"
    /\ r.enabled => r.wants
    /\ r.bar => r.wants
    /\ r.wants => r.scene
    /\ r.scene <=> r.x # Nowhere

Good(r) == Fit(r) /\ (r.scene => r.wants) /\ (r.lit => r.enabled)

LEMMA AlikeKeeps ==
    ASSUME NEW q \in Records, NEW r \in Records, Alike(q, r)
    PROVE  /\ Fit(r) => Fit(q)
           /\ Good(r) => Good(q)
           /\ InStep(r) => InStep(q)
  BY DEF Alike, Fit, Good, InStep, Records

LEMMA AlikeItself ==
    ASSUME NEW r \in Records
    PROVE  Alike(r, r)
  BY DEF Alike

LEMMA AlikeOnce ==
    ASSUME NEW p \in Records, NEW q \in Records, NEW r \in Records, Alike(p, q), Alike(q, r)
    PROVE  Alike(p, r)
  BY DEF Alike, Records

LEMMA MidwayIs ==
    ASSUME NEW d, NEW before, NEW ls
    PROVE  Midway(d, before, ls) = d
  BY DEF Midway, Suppressed

\* What was somewhere else than on the fallback stays so.
NotStranded(d, e) ==
    /\ d.home # Noop => e.home # Noop
    /\ d.current # Noop => e.current # Noop

\* A head that is about to be settled: lit as it shall be, attached if it is coming.
Due(r, on) ==
    /\ Fit(r) /\ r.lit = on
    /\ on => r.scene
    /\ ~on => (r.scene => r.wants)
    /\ on /\ r.wants => r.enabled

LEMMA SwitchedOnIs ==
    ASSUME NEW r \in Records, Due(r, TRUE), ~r.wants
    PROVE  LET q == UpdateGeometry(Enable([r EXCEPT !.wants = TRUE], TRUE)) IN
           q \in Records /\ Good(q) /\ q.wants /\ q.lit /\ q.enabled /\ q.x = r.x
  <1> DEFINE w == [r EXCEPT !.wants = TRUE]
             e == Enable(w, TRUE)
  <1>1. /\ w \in Records /\ ~w.enabled /\ w.wants /\ w.link = "init" /\ w.scene /\ w.x = r.x /\ w.gx = r.x
        /\ w.x # Nowhere /\ w.bar = r.bar /\ w.stuck = r.stuck
    BY DEF Due, Fit, InStep, Records, Links
  <1> HIDE DEF w
  <1>2. e = [w EXCEPT !.lit = TRUE, !.enabled = TRUE, !.link = "in"]
    BY <1>1 DEF Enable
  <1>3. /\ e \in Records /\ e.lit /\ e.enabled /\ e.wants /\ e.link = "in" /\ e.scene /\ e.x = r.x
        /\ e.gx = r.x /\ e.x # Nowhere
    BY <1>1, <1>2 DEF Records, Links
  <1> HIDE DEF e
  <1>4. UpdateGeometry(e) \in Records /\ Alike(UpdateGeometry(e), [e EXCEPT !.gx = e.x])
    BY <1>3, UpdatedIs
  <1>5. [e EXCEPT !.gx = e.x] = e
    BY <1>3 DEF Records
  <1>6. Good(e)
    BY <1>3 DEF Good, Fit, InStep
  <1>7. Good(UpdateGeometry(e))
    BY <1>3, <1>4, <1>5, <1>6, AlikeKeeps
  <1> QED
    BY <1>3, <1>4, <1>5, <1>7 DEF Alike, e, w

LEMMA SwitchedOffIs ==
    ASSUME NEW r \in Records, Due(r, FALSE), r.wants
    PROVE  LET w == [r EXCEPT !.wants = FALSE]
               q == Stripped(Disable(w, TRUE))
           IN  Disable(w, TRUE) \in Records /\ q \in Records /\ Good(q) /\ ~q.wants /\ ~q.lit
  <1> DEFINE w == [r EXCEPT !.wants = FALSE]
             e == Disable(w, TRUE)
             q == Stripped(e)
  <1>1. /\ w \in Records /\ ~w.lit /\ ~w.wants /\ w.gx # Nowhere
        /\ w.enabled \in BOOLEAN /\ (~w.enabled => w.link = "init")
    BY DEF Due, Fit, Records, Links
  <1> HIDE DEF w
  <1>2. /\ e \in Records /\ ~e.lit /\ ~e.enabled /\ ~e.wants /\ e.link = "init" /\ e.gx # Nowhere
    <2>1. CASE w.enabled
      <3>1. e = [w EXCEPT !.lit = FALSE, !.enabled = FALSE, !.link = "init", !.stuck = FALSE]
        BY <2>1 DEF Disable
      <3> QED
        BY ZenonT(60), <1>1, <3>1 DEF Records, Links
    <2>2. CASE ~w.enabled
      <3>1. e = w
        BY <2>2 DEF Disable
      <3> QED
        BY <1>1, <2>2, <3>1
    <2> QED
      BY <1>1, <2>1, <2>2
  <1> HIDE DEF e
  <1>3. /\ q \in Records /\ ~q.lit /\ ~q.enabled /\ ~q.wants /\ q.link = "init" /\ q.gx # Nowhere
        /\ ~q.scene /\ q.x = Nowhere /\ ~q.bar
    BY <1>2 DEF Stripped, Records
  <1> HIDE DEF q
  <1>4. Good(q)
    BY <1>3 DEF Good, Fit, InStep
  <1> QED
    BY <1>2, <1>3, <1>4 DEF q, e, w

\* What SetWants, Position and the loop leave of a head, and of the other outputs.
HeadKept(d, e, o) ==
    /\ e \in Desktops /\ e.news = d.news /\ e.crash = d.crash
    /\ \A p \in Outputs \ {o} : Alike(e.out[p], d.out[p])

AllInStep(s) == \A p \in Outputs : InStep(s[p])

LEMMA SetWantsIs ==
    ASSUME NEW d \in Desktops, NEW ls \in Lists, NEW o \in ToSet(ls), NEW on \in BOOLEAN,
           on => ~Blank, AllInStep(d.out), Due(d.out[o], on),
           on \/ ~d.out[o].wants \/ Another(d.out, ls, o)
    PROVE  LET e == SetWants(d, ls, o, on) IN
           /\ HeadKept(d, e, o) /\ NotStranded(d, e)
           /\ Good(e.out[o]) /\ e.out[o].wants = on /\ e.out[o].lit = on
           /\ on => e.out[o].x = d.out[o].x
  <1> DEFINE e == SetWants(d, ls, o, on)
             r == d.out[o]
  <1> SUFFICES /\ HeadKept(d, e, o) /\ NotStranded(d, e)
               /\ Good(e.out[o]) /\ e.out[o].wants = on /\ e.out[o].lit = on
               /\ on => e.out[o].x = d.out[o].x
    OBVIOUS
  <1>1. o \in Outputs /\ d.out \in States /\ r \in Records
    BY SetOfSeq DEF Lists, Desktops, States
  <1>2. \A p \in Outputs : d.out[p] \in Records /\ Alike(d.out[p], d.out[p])
    BY <1>1, AlikeItself DEF States
  <1>6. r.wants \in BOOLEAN
    BY <1>1 DEF Records
  <1>3. CASE r.wants = on
    <2>1. e = d
      BY <1>3 DEF SetWants
    <2> HIDE DEF e
    <2>2. Good(r)
      BY <1>1, <1>3 DEF Due, Good, Records
    <2> QED
      BY <1>2, <1>3, <2>1, <2>2 DEF HeadKept, NotStranded, Due
  <1>4. CASE on /\ ~r.wants
    <2> DEFINE q == UpdateGeometry(Enable([r EXCEPT !.wants = TRUE], TRUE))
               t == [d.out EXCEPT ![o] = q]
    <2>1. q \in Records /\ Good(q) /\ q.wants /\ q.lit /\ q.x = r.x
      BY <1>1, <1>4, SwitchedOnIs
    <2>2. e = [d EXCEPT !.out = t]
      BY <1>4 DEF SetWants
    <2> HIDE DEF q, e
    <2>3. t \in States /\ t[o] = q /\ \A p \in Outputs \ {o} : t[p] = d.out[p]
      BY <1>1, <2>1 DEF States
    <2> HIDE DEF t
    <2>4. /\ e \in Desktops /\ e.out = t /\ e.news = d.news /\ e.crash = d.crash
          /\ e.home = d.home /\ e.current = d.current
      BY <2>2, <2>3 DEF Desktops
    <2>5. HeadKept(d, e, o)
      BY <1>2, <2>3, <2>4 DEF HeadKept
    <2>6. NotStranded(d, e)
      BY <2>4 DEF NotStranded
    <2> QED
      BY <1>4, <2>1, <2>3, <2>4, <2>5, <2>6
  <1>5. CASE ~on /\ r.wants
    <2> DEFINE w == [r EXCEPT !.wants = FALSE]
               u == [d.out EXCEPT ![o] = w]
               d1 == [d EXCEPT !.out = u]
               e1 == Evacuate(d1, ls, o)
               v == [u EXCEPT ![o] = Disable(w, TRUE)]
               t == Detach(v, ls, o)
    <2>1. /\ Disable(w, TRUE) \in Records
          /\ Good(Stripped(Disable(w, TRUE)))
          /\ ~Stripped(Disable(w, TRUE)).wants
          /\ ~Stripped(Disable(w, TRUE)).lit
      BY <1>1, <1>5, SwitchedOffIs
    <2>2. w \in Records
      BY <1>1 DEF Records
    <2>3. [d EXCEPT !.out[o].wants = FALSE] = d1
      OBVIOUS
    <2>4. u \in States /\ u[o] = w /\ \A p \in Outputs \ {o} : u[p] = d.out[p]
      BY <1>1, <2>2 DEF States
    <2> HIDE DEF w
    <2>5. d1 \in Desktops /\ d1.out = u /\ d1.home = d.home /\ d1.current = d.current
          /\ d1.news = d.news /\ d1.crash = d.crash
      BY <2>4 DEF Desktops
    <2>6. Another(d1.out, ls, o)
      <3>1. PICK p \in ToSet(ls) : p # o /\ d.out[p].wants
        BY <1>5 DEF Another
      <3>2. p \in Outputs
        BY SetOfSeq DEF Lists
      <3>3. u[p].wants
        BY <2>4, <3>1, <3>2
      <3> QED
        BY <2>5, <3>1, <3>3 DEF Another
    <2> HIDE DEF d1
    <2>7. /\ e1 \in Desktops /\ e1.out = u /\ e1.news = d.news /\ e1.crash = d.crash
          /\ e1.current # Noop /\ (d.home # Noop => e1.home # Noop)
      BY <2>5, <2>6, EvacuateIs
    <2>8. v \in States /\ v[o] = Disable(w, TRUE) /\ \A p \in Outputs \ {o} : v[p] = d.out[p]
      BY <1>1, <2>1, <2>4 DEF States
    <2>9. e = [e1 EXCEPT !.out = t]
      <3>1. e = [e1 EXCEPT !.out = Detach([e1.out EXCEPT ![o] = Disable(e1.out[o], TRUE)], ls, o)]
        <4>1. r.wants = TRUE /\ on = FALSE
          BY <1>5, <1>6
        <4>2. r.wants # on
          BY <4>1
        <4> HIDE DEF r, e1
        <4>3. Evacuate([d EXCEPT !.out[o].wants = FALSE], ls, o) = e1
          BY <2>3 DEF e1
        <4> QED
          BY <4>1, <4>2, <4>3 DEF SetWants, r
      <3>2. [e1.out EXCEPT ![o] = Disable(e1.out[o], TRUE)] = v
        BY <1>1, <2>4, <2>7
      <3> HIDE DEF v, e1, e
      <3> QED
        BY <3>1, <3>2
    <2> HIDE DEF v, e1, e
    <2>15. t = Detach(v, ls, o)
      OBVIOUS
    <2> HIDE DEF t
    <2>10. /\ t \in States
           /\ \A p \in Outputs \ {o} : InStep(v[p]) => Alike(t[p], v[p])
           /\ t[o] = Stripped(v[o])
      BY <1>1, <2>8, <2>15, DetachedIs
    <2>11. /\ e \in Desktops /\ e.out = t /\ e.news = d.news /\ e.crash = d.crash
           /\ e.home = e1.home /\ e.current = e1.current
      BY <2>7, <2>9, <2>10 DEF Desktops
    <2>12. \A p \in Outputs \ {o} : Alike(e.out[p], d.out[p])
      BY <2>8, <2>10, <2>11 DEF AllInStep
    <2>13. Good(e.out[o]) /\ ~e.out[o].wants /\ ~e.out[o].lit
      BY <2>1, <2>8, <2>10, <2>11
    <2>14. e.out[o] \in Records
      BY <1>1, <2>10, <2>11 DEF States
    <2> QED
      BY <1>5, <2>7, <2>11, <2>12, <2>13, <2>14 DEF HeadKept, NotStranded, Records
  <1> QED
    BY <1>3, <1>4, <1>5, <1>6

LEMMA PositionIs ==
    ASSUME NEW d \in Desktops, NEW ls \in Lists, NEW h \in HeadState, h.o \in ToSet(ls),
           AllInStep(d.out), Good(d.out[h.o]), d.out[h.o].wants = h.on
    PROVE  LET e == Position(d, ls, h) IN
           /\ HeadKept(d, e, h.o) /\ NotStranded(d, e)
           /\ Good(e.out[h.o]) /\ e.out[h.o].wants = h.on /\ e.out[h.o].lit = d.out[h.o].lit
           /\ h.on => e.out[h.o].x = h.x
  <1> DEFINE e == Position(d, ls, h)
             o == h.o
             r == d.out[o]
  <1> SUFFICES /\ HeadKept(d, e, o) /\ NotStranded(d, e)
               /\ Good(e.out[o]) /\ e.out[o].wants = h.on /\ e.out[o].lit = d.out[o].lit
               /\ h.on => e.out[o].x = h.x
    OBVIOUS
  <1>1. o \in Outputs /\ d.out \in States /\ r \in Records /\ h.on \in BOOLEAN /\ h.x \in Xs
    BY Numbers DEF HeadState, Desktops, States
  <1>2. \A p \in Outputs : d.out[p] \in Records /\ Alike(d.out[p], d.out[p])
    BY <1>1, AlikeItself DEF States
  <1>3. CASE ~h.on \/ GeometryX(d.out, o) = h.x
    <2>1. e = d
      BY <1>3 DEF Position
    <2>2. h.on => r.x = h.x
      BY <1>1, <1>3 DEF GeometryX, Good, Fit, InStep
    <2> HIDE DEF e
    <2> QED
      BY <1>2, <2>1, <2>2 DEF HeadKept, NotStranded
  <1>4. CASE h.on /\ GeometryX(d.out, o) # h.x
    <2> DEFINE t == LayoutAdd(d.out, ls, o, h.x)
               q == [r EXCEPT !.x = h.x, !.gx = h.x]
    <2>1. e = [d EXCEPT !.out = t]
      BY <1>4 DEF Position
    <2>2. /\ t \in States
          /\ \A p \in Outputs \ {o} : InStep(d.out[p]) => Alike(t[p], d.out[p])
          /\ Alike(t[o], q)
      BY <1>1, MovedIs
    <2> HIDE DEF t, e
    <2>3. /\ e \in Desktops /\ e.out = t /\ e.news = d.news /\ e.crash = d.crash
          /\ e.home = d.home /\ e.current = d.current
      BY <2>1, <2>2 DEF Desktops
    <2>4. HeadKept(d, e, o) /\ NotStranded(d, e)
      BY <2>2, <2>3 DEF HeadKept, NotStranded, AllInStep
    <2>5. q \in Records /\ t[o] \in Records
      BY <1>1, <2>2 DEF Records, States
    <2>6. Good(q) /\ q.lit = r.lit /\ q.wants = h.on /\ q.x = h.x
      BY <1>1, <1>4, Numbers DEF Good, Fit, InStep, Records
    <2> HIDE DEF q
    <2>7. Good(t[o])
      BY <2>2, <2>5, <2>6, AlikeKeeps
    <2> QED
      BY <2>2, <2>3, <2>4, <2>6, <2>7 DEF Alike
  <1> QED
    BY <1>1, <1>3, <1>4

LEMMA SettleHeadIs ==
    ASSUME NEW d \in Desktops, list \in Lists, NEW h \in HeadState, h.o \in Listed, NEW lost,
           h.on => ~Blank, AllInStep(d.out), Due(d.out[h.o], h.on),
           h.on \/ ~d.out[h.o].wants \/ Another(d.out, list, h.o)
    PROVE  LET e == SettleHead(d, h, lost) IN
           /\ HeadKept(d, e, h.o) /\ NotStranded(d, e) /\ AllInStep(e.out)
           /\ Good(e.out[h.o]) /\ e.out[h.o].wants = h.on /\ e.out[h.o].lit = h.on
           /\ h.on /\ h.o \notin lost => e.out[h.o].x = h.x
  <1> DEFINE o == h.o
             w == SetWants(d, list, o, h.on)
             e == IF o \in lost THEN w ELSE Position(w, list, h)
  <1>1. SettleHead(d, h, lost) = e
    BY MidwayIs DEF SettleHead
  <1>2. h.on \in BOOLEAN /\ o \in ToSet(list) /\ o \in Outputs
    BY DEF HeadState, Listed
  <1>3. /\ HeadKept(d, w, o) /\ NotStranded(d, w)
        /\ Good(w.out[o]) /\ w.out[o].wants = h.on /\ w.out[o].lit = h.on
    BY <1>2, SetWantsIs
  <1> HIDE DEF w
  <1>4. ASSUME NEW a, NEW b, a \in Desktops, HeadKept(a, b, o), Good(b.out[o]), AllInStep(a.out)
        PROVE  AllInStep(b.out)
    <2> SUFFICES ASSUME NEW p \in Outputs PROVE InStep(b.out[p])
      BY DEF AllInStep
    <2>1. CASE p = o
      BY <1>4, <2>1 DEF Good, Fit
    <2>2. CASE p # o
      <3>1. a.out[p] \in Records /\ b.out[p] \in Records
        BY <1>4 DEF HeadKept, Desktops, States
      <3>2. Alike(b.out[p], a.out[p]) /\ InStep(a.out[p])
        BY <1>4, <2>2 DEF HeadKept, AllInStep
      <3> QED
        BY <3>1, <3>2, AlikeKeeps
    <2> QED
      BY <2>1, <2>2
  <1>5. AllInStep(w.out)
    BY <1>3, <1>4
  <1>6. CASE o \in lost
    BY <1>1, <1>3, <1>5, <1>6
  <1>7. CASE o \notin lost
    <2> DEFINE g == Position(w, list, h)
    <2>1. w \in Desktops
      BY <1>3 DEF HeadKept
    <2>2. /\ HeadKept(w, g, o) /\ NotStranded(w, g)
          /\ Good(g.out[o]) /\ g.out[o].wants = h.on /\ g.out[o].lit = w.out[o].lit
          /\ h.on => g.out[o].x = h.x
      BY <1>2, <1>3, <1>5, <2>1, PositionIs
    <2> HIDE DEF g
    <2>3. AllInStep(g.out)
      BY <1>4, <1>5, <2>1, <2>2
    <2>4. HeadKept(d, g, o)
      <3> SUFFICES ASSUME NEW p \in Outputs \ {o} PROVE Alike(g.out[p], d.out[p])
        BY <1>3, <2>2 DEF HeadKept
      <3>1. d.out[p] \in Records /\ w.out[p] \in Records /\ g.out[p] \in Records
        BY <1>3, <2>2 DEF HeadKept, Desktops, States
      <3>2. Alike(g.out[p], w.out[p]) /\ Alike(w.out[p], d.out[p])
        BY <1>3, <2>2 DEF HeadKept
      <3> QED
        BY <3>1, <3>2, AlikeOnce
    <2>5. NotStranded(d, g)
      BY <1>3, <2>2 DEF NotStranded
    <2>6. e = g
      BY <1>7 DEF g
    <2> HIDE DEF e
    <2> QED
      BY <1>1, <1>3, <2>2, <2>3, <2>4, <2>5, <2>6
  <1> QED
    BY <1>6, <1>7

-----------------------------------------------------------------------------
(* The loops over heads, coming outputs and the list *)

LEMMA SwitchType ==
    ASSUME NEW r \in Records, NEW ok \in BOOLEAN
    PROVE  Enable(r, ok) \in Records /\ Disable(r, ok) \in Records
  <1>1. Enable(r, ok) \in Records
    <2> DEFINE link1 == IF r.link = "init" THEN "in" ELSE r.link
    <2>1. link1 \in Links
      BY DEF Records, Links
    <2>2. Enable(r, ok) = IF ~r.enabled /\ ok
                          THEN [r EXCEPT !.lit = TRUE, !.enabled = TRUE, !.link = link1] ELSE r
      BY DEF Enable, Records
    <2> HIDE DEF link1
    <2> QED
      BY <2>1, <2>2 DEF Records
  <1>2. Disable(r, ok) \in Records
    BY DEF Disable, Records, Links
  <1> QED
    BY <1>1, <1>2

LEMMA EvacuateType ==
    ASSUME NEW d \in Desktops, NEW ls \in Lists, NEW o \in Outputs
    PROVE  Evacuate(d, ls, o) \in Desktops
  <1> DEFINE to == Refuge(d.out, ls, o)
             home1 == IF d.home = o THEN to ELSE d.home
  <1>1. d.out \in States
    BY DEF Desktops
  <1>2. to \in Places
    BY <1>1, NextIs DEF Refuge, Places
  <1>3. Evacuate(d, ls, o) = IF ls = <<>> THEN [d EXCEPT !.crash = TRUE]
                             ELSE [d EXCEPT !.home = home1, !.current = to]
    BY DEF Evacuate, Desktops
  <1> HIDE DEF to
  <1>4. home1 \in Places \cup {"closed"}
    BY <1>2 DEF Desktops
  <1> HIDE DEF home1
  <1> QED
    BY <1>2, <1>3, <1>4 DEF Desktops

LEMMA SetWantsType ==
    ASSUME NEW d \in Desktops, NEW ls \in Lists, NEW o \in Outputs, NEW on \in BOOLEAN
    PROVE  SetWants(d, ls, o, on) \in Desktops
  <1> DEFINE e == SetWants(d, ls, o, on)
             r == d.out[o]
  <1>1. d.out \in States /\ r \in Records /\ r.wants \in BOOLEAN
    BY DEF Desktops, States, Records
  <1>2. CASE r.wants = on
    BY <1>2 DEF SetWants
  <1>3. CASE on /\ ~r.wants
    <2> DEFINE w == [r EXCEPT !.wants = TRUE]
               q == UpdateGeometry(IF Blank THEN w ELSE Enable(w, TRUE))
               t == [d.out EXCEPT ![o] = q]
    <2>1. w \in Records
      BY <1>1 DEF Records
    <2> HIDE DEF w
    <2>2. q \in Records
      BY <2>1, SwitchType, UpdatedIs
    <2>3. e = [d EXCEPT !.out = t]
      BY <1>3 DEF SetWants, w
    <2> HIDE DEF q, e
    <2>4. t \in States
      BY <1>1, <2>2 DEF States
    <2> HIDE DEF t
    <2> QED
      BY <2>3, <2>4 DEF Desktops, e
  <1>4. CASE ~on /\ r.wants
    <2> DEFINE w == [r EXCEPT !.wants = FALSE]
               u == [d.out EXCEPT ![o] = w]
               d1 == [d EXCEPT !.out = u]
               e1 == Evacuate(d1, ls, o)
               v == [e1.out EXCEPT ![o] = Disable(e1.out[o], TRUE)]
               t == Detach(v, ls, o)
    <2>1. w \in Records
      BY <1>1 DEF Records
    <2>2. [d EXCEPT !.out[o].wants = FALSE] = d1
      OBVIOUS
    <2>3. u \in States
      BY <1>1, <2>1 DEF States
    <2> HIDE DEF u, w
    <2>4. d1 \in Desktops
      BY <2>3 DEF Desktops
    <2> HIDE DEF d1
    <2>5. e1 \in Desktops
      BY <2>4, EvacuateType
    <2>6. e = [e1 EXCEPT !.out = t]
      <3>1. r.wants = TRUE /\ on = FALSE
        BY <1>1, <1>4
      <3>2. r.wants # on
        BY <3>1
      <3> HIDE DEF r, e1
      <3>3. Evacuate([d EXCEPT !.out[o].wants = FALSE], ls, o) = e1
        BY <2>2 DEF e1
      <3> QED
        BY <3>1, <3>2, <3>3 DEF SetWants, r
    <2> HIDE DEF e, e1
    <2>7. e1.out \in States /\ Disable(e1.out[o], TRUE) \in Records
      BY <2>5, SwitchType DEF Desktops, States
    <2>8. v \in States
      BY <2>7 DEF States
    <2> HIDE DEF v
    <2>9. t \in States
      BY <2>8, DetachedIs
    <2> HIDE DEF t
    <2> QED
      BY <2>5, <2>6, <2>9 DEF Desktops, e
  <1> QED
    BY <1>1, <1>2, <1>3, <1>4

LEMMA LayoutAddType ==
    ASSUME NEW s \in States, NEW ls, NEW o \in Outputs, NEW x \in Xs
    PROVE  LayoutAdd(s, ls, o, x) \in States
  <1> DEFINE u == [s EXCEPT ![o] = [s[o] EXCEPT !.x = x]]
  <1>1. u \in States
    BY DEF States, Records
  <1>2. LayoutAdd(s, ls, o, x) = LayoutChange(u, ls)
    BY DEF LayoutAdd
  <1> HIDE DEF u
  <1> QED
    BY <1>1, <1>2, LayoutChangeIs

LEMMA SettleHeadType ==
    ASSUME NEW d \in Desktops, list \in Lists, NEW h \in HeadState, NEW lost
    PROVE  SettleHead(d, h, lost) \in Desktops
  <1> DEFINE w == SetWants(d, list, h.o, h.on)
             t == LayoutAdd(w.out, list, h.o, h.x)
  <1>1. h.o \in Outputs /\ h.on \in BOOLEAN /\ h.x \in Xs
    BY Numbers DEF HeadState
  <1>2. w \in Desktops
    BY <1>1, SetWantsType
  <1>3. SettleHead(d, h, lost) = IF h.o \in lost THEN w ELSE Position(w, list, h)
    BY MidwayIs DEF SettleHead
  <1>4. Position(w, list, h) = w \/ Position(w, list, h) = [w EXCEPT !.out = t]
    BY DEF Position
  <1> HIDE DEF w
  <1>5. t \in States
    BY <1>1, <1>2, LayoutAddType DEF Desktops
  <1> HIDE DEF t
  <1> QED
    BY <1>2, <1>3, <1>4, <1>5 DEF Desktops

\* The configuration of a client: heads, each output once.
LEMMA Heads ==
    ASSUME NEW heads \in Configurations
    PROVE  /\ Len(heads) \in Nat /\ DOMAIN heads = 1 .. Len(heads) /\ 1 \in 1 .. Len(heads)
           /\ heads \in Seq(HeadState)
           /\ \A i \in 1 .. Len(heads) : heads[i] \in HeadState /\ heads[i] \in ToSet(heads)
           /\ \A h \in ToSet(heads) : \E i \in 1 .. Len(heads) : heads[i] = h
           /\ \A i, j \in 1 .. Len(heads) : heads[i].o = heads[j].o => i = j
  <1>1. PICK n \in 1 .. Cardinality(Outputs) : heads \in [1 .. n -> HeadState]
    BY DEF Configurations
  <1>2. n \in Nat
    BY <1>1
  <1>3. heads \in Seq(HeadState)
    BY <1>1, <1>2, SeqDef
  <1>4. Len(heads) \in Nat /\ DOMAIN heads = 1 .. Len(heads)
    BY <1>3, LenProperties
  <1>5. \A i \in 1 .. Len(heads) : heads[i] \in HeadState
    BY <1>1, <1>4
  <1>6. \A i \in 1 .. Len(heads) : heads[i] \in ToSet(heads)
    BY <1>4 DEF ToSet
  <1>7. \A h \in ToSet(heads) : \E i \in 1 .. Len(heads) : heads[i] = h
    BY <1>4 DEF ToSet
  <1>8. \A i, j \in 1 .. Len(heads) : heads[i].o = heads[j].o => i = j
    BY <1>4 DEF Configurations
  <1>9. 1 \in 1 .. Len(heads)
    <2>1. DOMAIN heads = 1 .. n /\ n >= 1
      BY <1>1
    <2> QED
      BY <1>2, <1>4, <2>1
  <1> QED
    BY <1>3, <1>4, <1>5, <1>6, <1>7, <1>8, <1>9

LEMMA SettleSteps ==
    ASSUME NEW d \in Desktops, list \in Lists, NEW heads \in Configurations, NEW lost
    PROVE  \E c \in [0 .. Len(heads) -> Desktops] :
               /\ c[0] = d /\ c[Len(heads)] = Settle(d, heads, lost)
               /\ \A i \in 1 .. Len(heads) : c[i] = SettleHead(c[i - 1], heads[i], lost)
  <1> DEFINE D == DOMAIN heads
             F(f) == [s \in SUBSET D |-> IF s = {} THEN d
                                         ELSE SettleHead(f[s \ {Max(s)}], heads[Max(s)], lost)]
             step == [p \in Desktops \X D |-> SettleHead(p[1], heads[p[2]], lost)]
             pick == [s \in SUBSET D |-> Max(s)]
             n == Len(heads)
  <1>1. n \in Nat /\ D = 1 .. n /\ \A i \in D : heads[i] \in HeadState
    BY Heads
  <1>2. step \in [Desktops \X D -> Desktops]
    <2> SUFFICES ASSUME NEW p \in Desktops \X D PROVE SettleHead(p[1], heads[p[2]], lost) \in Desktops
      OBVIOUS
    <2>1. p[1] \in Desktops /\ heads[p[2]] \in HeadState
      BY <1>1
    <2> QED
      BY <2>1, SettleHeadType
  <1>3. \A s \in SUBSET D : s # {} => pick[s] \in s
    BY <1>1, MaxUpTo
  <1>4. IsFiniteSet(D)
    BY <1>1, FS_Interval
  <1>5. \A e \in Desktops, i \in D : step[<<e, i>>] = SettleHead(e, heads[i], lost)
    OBVIOUS
  <1>6. \A s \in SUBSET D : pick[s] = Max(s)
    OBVIOUS
  <1> HIDE DEF D, step, pick
  <1>7. PICK g \in [SUBSET D -> Desktops] : Iterated(g, D, pick, d, step, SUBSET D)
    BY <1>2, <1>3, <1>4, Iterates
  <1>8. g = F(g)
    <2>1. ASSUME NEW s \in SUBSET D
          PROVE  g[s] = IF s = {} THEN d ELSE SettleHead(g[s \ {Max(s)}], heads[Max(s)], lost)
      <3>1. CASE s = {}
        BY <1>7, <3>1 DEF Iterated
      <3>2. CASE s # {}
        <4>1. Max(s) \in D /\ pick[s] = Max(s) /\ s \ {Max(s)} \in SUBSET D
          BY <1>3, <1>6, <3>2
        <4>2. g[s] = step[<<g[s \ {Max(s)}], Max(s)>>]
          BY <1>7, <3>2, <4>1 DEF Iterated
        <4>3. g[s \ {Max(s)}] \in Desktops
          BY <1>7, <4>1
        <4> QED
          BY <1>5, <3>2, <4>1, <4>2, <4>3
      <3> QED
        BY <3>1, <3>2
    <2> QED
      BY <1>7, <2>1
  <1> DEFINE h == CHOOSE f : f = F(f)
  <1>9. h = F(h)
    BY <1>8
  <1>10. Settle(d, heads, lost) = h[D]
    BY DEF Settle, FoldLeft, MapThenFoldSet, D
  <1> HIDE DEF h
  <1>11. h[{}] = d
    BY <1>9
  <1>12. ASSUME NEW s \in SUBSET D, s # {}, h[s \ {Max(s)}] \in Desktops
         PROVE  h[s] = step[<<h[s \ {Max(s)}], Max(s)>>]
    <2>1. h[s] = SettleHead(h[s \ {Max(s)}], heads[Max(s)], lost)
      BY <1>9, <1>12
    <2>2. Max(s) \in D
      BY <1>3, <1>6, <1>12
    <2> QED
      BY <1>5, <1>12, <2>1, <2>2
  <1> HIDE DEF F, n
  <1>16. n \in Nat /\ step \in [Desktops \X (1 .. n) -> Desktops]
    BY <1>1, <1>2
  <1>17. Folding(h, n, Desktops, d, step)
    BY <1>1, <1>11, <1>12 DEF Folding
  <1>13. \E c \in [0 .. n -> Desktops] : Chain(c, n, d, h[1 .. n], step)
    BY <1>16, <1>17, FoldsUp
  <1>14. PICK c \in [0 .. n -> Desktops] :
            /\ c[0] = d /\ c[n] = h[1 .. n]
            /\ \A i \in 1 .. n : c[i] = step[<<c[i - 1], i>>]
    BY <1>13 DEF Chain
  <1>15. ASSUME NEW i \in 1 .. n PROVE c[i] = SettleHead(c[i - 1], heads[i], lost)
    <2>1. i - 1 \in 0 .. n /\ i \in D
      BY <1>1
    <2> QED
      BY <1>5, <1>14, <2>1
  <1> QED
    BY <1>1, <1>10, <1>14, <1>15 DEF n

\* A head as the configuration asks for it; and the desktop after i heads of it.
Done(r, h, lost) ==
    /\ Good(r) /\ r.wants = h.on /\ r.lit = h.on
    /\ h.on /\ h.o \notin lost => r.x = h.x

LEMMA AlikeToo ==
    ASSUME NEW q \in Records, NEW r \in Records, Alike(q, r)
    PROVE  /\ \A h, lost : Done(r, h, lost) => Done(q, h, lost)
           /\ \A on : Due(r, on) => Due(q, on)
           /\ q.wants = r.wants
  <1>1. (Fit(r) => Fit(q)) /\ (Good(r) => Good(q))
    BY AlikeKeeps
  <1>2. ASSUME NEW h, NEW lost, Done(r, h, lost) PROVE Done(q, h, lost)
    BY <1>1, <1>2 DEF Done, Alike
  <1>3. ASSUME NEW on, Due(r, on) PROVE Due(q, on)
    BY <1>1, <1>3 DEF Due, Alike
  <1> QED
    BY <1>2, <1>3 DEF Alike

Settled(d, e, heads, i, lost) ==
    /\ e.news = d.news /\ e.crash = d.crash
    /\ NotStranded(d, e) /\ AllInStep(e.out)
    /\ \A j \in 1 .. i : Done(e.out[heads[j].o], heads[j], lost)
    /\ \A o \in Outputs : (\A j \in 1 .. i : heads[j].o # o) => Alike(e.out[o], d.out[o])
    /\ \E o \in Listed : e.out[o].wants

\* What the backend has accepted and the loop may begin with.
ReadyFor(d, heads) ==
    /\ AllInStep(d.out)
    /\ \A i \in 1 .. Len(heads) : heads[i].o \in Listed /\ Due(d.out[heads[i].o], heads[i].on)
    /\ \A i \in 1 .. Len(heads) : heads[i].on => ~Blank
    /\ \A o \in Listed : d.out[o].wants = out[o].wants
    /\ \E o \in Listed : d.out[o].wants

LEMMA SettlesOne ==
    ASSUME NEW d \in Desktops, list \in Lists, NEW heads \in Configurations, NEW lost,
           ReadyFor(d, heads), KeepsOne(heads), NEW i \in 1 .. Len(heads),
           NEW b \in Desktops, Settled(d, b, heads, i - 1, lost),
           NEW e, e = SettleHead(b, heads[i], lost)
    PROVE  Settled(d, e, heads, i, lost)
  <1> DEFINE h == heads[i]
             o == heads[i].o
  <1>1. /\ Len(heads) \in Nat /\ DOMAIN heads = 1 .. Len(heads)
        /\ \A j \in 1 .. Len(heads) : heads[j] \in HeadState
        /\ \A j, k \in 1 .. Len(heads) : heads[j].o = heads[k].o => j = k
    BY Heads
  <1>2. h \in HeadState /\ o \in Listed /\ o \in Outputs /\ Due(d.out[o], h.on) /\ h.on \in BOOLEAN
    BY <1>1 DEF ReadyFor, HeadState
  <1>3. \A p \in Outputs : d.out[p] \in Records /\ b.out[p] \in Records
    BY DEF Desktops, States
  <1>4. \A j \in 1 .. i - 1 : j \in 1 .. Len(heads) /\ heads[j].o # o
    BY <1>1
  <1>5. Alike(b.out[o], d.out[o])
    BY <1>2, <1>4 DEF Settled
  <1>6. Due(b.out[o], h.on)
    BY <1>2, <1>3, <1>5, AlikeToo
  <1>7. Listed \subseteq Outputs
    BY SetOfSeq DEF Listed, Lists
  <1>8. h.on \/ ~b.out[o].wants \/ Another(b.out, list, o)
    <2> SUFFICES ASSUME ~h.on, b.out[o].wants PROVE \E p \in Listed : p # o /\ b.out[p].wants
      BY DEF Another, Listed
    <2>1. out[o].wants
      <3>1. d.out[o].wants
        BY <1>5 DEF Alike
      <3> QED
        BY <1>2, <3>1 DEF ReadyFor
    <2>2. PICK p \in Listed : IF \E j \in 1 .. i : heads[j].o = p
                              THEN \E j \in 1 .. i : heads[j].o = p /\ heads[j].on
                              ELSE out[p].wants
      BY <1>1, <2>1 DEF KeepsOne
    <2>3. CASE \E j \in 1 .. i : heads[j].o = p /\ heads[j].on
      <3>1. PICK j \in 1 .. i : heads[j].o = p /\ heads[j].on
        BY <2>3
      <3>2. j # i
        BY <3>1
      <3>3. j \in 1 .. i - 1
        BY <1>1, <3>2
      <3>4. Done(b.out[p], heads[j], lost)
        BY <3>1, <3>3 DEF Settled
      <3> QED
        BY <1>4, <3>1, <3>3, <3>4 DEF Done
    <2>4. CASE \A j \in 1 .. i : heads[j].o # p
      <3>1. out[p].wants /\ p # o /\ \A j \in 1 .. i - 1 : heads[j].o # p
        BY <1>1, <2>2, <2>4
      <3>2. d.out[p].wants
        BY <3>1 DEF ReadyFor
      <3>3. Alike(b.out[p], d.out[p])
        BY <1>7, <3>1 DEF Settled
      <3> QED
        BY <3>1, <3>2, <3>3 DEF Alike
    <2> QED
      BY <2>2, <2>3, <2>4
  <1>9. /\ HeadKept(b, e, o) /\ NotStranded(b, e) /\ AllInStep(e.out)
        /\ Good(e.out[o]) /\ e.out[o].wants = h.on /\ e.out[o].lit = h.on
        /\ h.on /\ o \notin lost => e.out[o].x = h.x
    <2>1. AllInStep(b.out) /\ (h.on => ~Blank)
      BY DEF Settled, ReadyFor
    <2> QED
      BY <1>2, <1>6, <1>8, <2>1, SettleHeadIs
  <1>10. \A p \in Outputs : e.out[p] \in Records
    BY <1>9 DEF HeadKept, Desktops, States
  <1>11. \A p \in Outputs \ {o} : Alike(e.out[p], b.out[p])
    BY <1>9 DEF HeadKept
  <1>12. e.news = d.news /\ e.crash = d.crash /\ NotStranded(d, e)
    BY <1>9 DEF HeadKept, Settled, NotStranded
  <1>13. ASSUME NEW j \in 1 .. i PROVE Done(e.out[heads[j].o], heads[j], lost)
    <2>1. CASE j = i
      BY <1>9, <2>1 DEF Done
    <2>2. CASE j # i
      <3>1. j \in 1 .. i - 1 /\ heads[j].o # o /\ j \in 1 .. Len(heads)
        BY <1>1, <1>4, <2>2
      <3>2. Done(b.out[heads[j].o], heads[j], lost)
        BY <3>1 DEF Settled
      <3>3. heads[j].o \in Outputs
        BY <1>1, <3>1 DEF HeadState
      <3>4. Alike(e.out[heads[j].o], b.out[heads[j].o])
        BY <1>11, <3>1, <3>3
      <3> QED
        BY <1>3, <1>10, <3>2, <3>3, <3>4, AlikeToo
    <2> QED
      BY <2>1, <2>2
  <1>14. ASSUME NEW p \in Outputs, \A j \in 1 .. i : heads[j].o # p PROVE Alike(e.out[p], d.out[p])
    <2>1. p # o /\ \A j \in 1 .. i - 1 : heads[j].o # p
      BY <1>1, <1>14
    <2>2. Alike(b.out[p], d.out[p])
      BY <2>1 DEF Settled
    <2> QED
      BY <1>3, <1>10, <1>11, <2>1, <2>2, AlikeOnce
  <1>15. \E p \in Listed : e.out[p].wants
    <2>1. CASE h.on
      BY <1>2, <1>9, <2>1
    <2>2. CASE ~h.on
      <3>1. \E p \in Listed : p # o /\ b.out[p].wants
        <4>1. PICK p \in Listed : b.out[p].wants
          BY DEF Settled
        <4>2. CASE p = o
          BY <1>8, <2>2, <4>1, <4>2 DEF Another, Listed
        <4> QED
          BY <4>1, <4>2
      <3>2. PICK p \in Listed : p # o /\ b.out[p].wants
        BY <3>1
      <3>3. Alike(e.out[p], b.out[p])
        BY <1>7, <1>11, <3>2
      <3> QED
        BY <3>2, <3>3 DEF Alike
    <2> QED
      BY <2>1, <2>2
  <1> QED
    BY <1>9, <1>12, <1>13, <1>14, <1>15 DEF Settled

LEMMA SettleIs ==
    ASSUME NEW d \in Desktops, list \in Lists, NEW heads \in Configurations, NEW lost,
           ReadyFor(d, heads), KeepsOne(heads),
           NEW e, e = Settle(d, heads, lost)
    PROVE  e \in Desktops /\ Settled(d, e, heads, Len(heads), lost)
  <1>1. PICK c \in [0 .. Len(heads) -> Desktops] :
            /\ c[0] = d /\ c[Len(heads)] = e
            /\ \A i \in 1 .. Len(heads) : c[i] = SettleHead(c[i - 1], heads[i], lost)
    BY SettleSteps
  <1> DEFINE B == {i \in 0 .. Len(heads) : Settled(d, c[i], heads, i, lost)}
  <1>2. Len(heads) \in Nat
    BY Heads
  <1>3. 0 \in B
    <2>1. \A o \in Outputs : Alike(d.out[o], d.out[o])
      BY AlikeItself DEF Desktops, States
    <2>2. Settled(d, d, heads, 0, lost)
      BY <2>1 DEF Settled, ReadyFor, NotStranded
    <2> QED
      BY <1>1, <1>2, <2>2
  <1>4. ASSUME NEW i \in 1 .. Len(heads), i - 1 \in B PROVE i \in B
    <2>1. i - 1 \in 0 .. Len(heads) /\ i \in 0 .. Len(heads)
      BY <1>2
    <2>2. c[i - 1] \in Desktops /\ c[i] = SettleHead(c[i - 1], heads[i], lost)
      BY <1>1, <2>1
    <2>3. Settled(d, c[i - 1], heads, i - 1, lost)
      BY <1>4
    <2>4. Settled(d, c[i], heads, i, lost)
      BY <2>2, <2>3, SettlesOne
    <2> QED
      BY <2>1, <2>4
  <1> HIDE DEF B
  <1>5. \A i \in 0 .. Len(heads) : i \in B
    BY <1>2, <1>3, <1>4, Climbs
  <1>6. Len(heads) \in 0 .. Len(heads)
    BY <1>2
  <1>7. Settled(d, c[Len(heads)], heads, Len(heads), lost)
    BY <1>5, <1>6 DEF B
  <1> QED
    BY <1>1, <1>6, <1>7

-----------------------------------------------------------------------------
(* Outputs that come are attached before the backend is asked, and detached *)
(* again when it refuses.                                                  *)

AttachOne(e, o) == Midway([e EXCEPT !.out = Attach(e.out, list, o)], e.out, list)

DetachOne(e, o) == [e EXCEPT !.out = Detach(e.out, list, o)]

LEMMA AttachOneType ==
    ASSUME NEW e \in Desktops, NEW o \in Outputs
    PROVE  AttachOne(e, o) \in Desktops
  <1> DEFINE s == e.out
             in == LayoutAdd(s, list, o, GeometryX(s, o))
             t == [in EXCEPT ![o] = [in[o] EXCEPT !.scene = TRUE]]
  <1>1. s \in States
    BY DEF Desktops
  <1>2. in \in States
    BY <1>1, GeometryXType, LayoutAddType
  <1>3. Attach(s, list, o) = s \/ Attach(s, list, o) = t
    BY DEF Attach
  <1> HIDE DEF in
  <1>4. t \in States
    BY <1>2 DEF States, Records
  <1> HIDE DEF t
  <1>5. AttachOne(e, o) = [e EXCEPT !.out = Attach(s, list, o)]
    BY MidwayIs DEF AttachOne
  <1> QED
    BY <1>1, <1>3, <1>4, <1>5 DEF Desktops

LEMMA DetachOneType ==
    ASSUME NEW e \in Desktops, NEW o \in Outputs
    PROVE  DetachOne(e, o) \in Desktops
  <1>1. e.out \in States
    BY DEF Desktops
  <1>2. Detach(e.out, list, o) \in States
    BY <1>1, DetachedIs
  <1> QED
    BY <1>2 DEF DetachOne, Desktops

Attaching(h, d, S) ==
    /\ h[{}] = d
    /\ \A s \in SUBSET S : s # {} => \E x \in s : h[s] = AttachOne(h[s \ {x}], x)

LEMMA AttachSteps ==
    ASSUME NEW d \in Desktops, list \in Lists, NEW S \in SUBSET Outputs, IsFiniteSet(S)
    PROVE  \E h : AttachAll(d, S) = h[S] /\ Attaching(h, d, S)
  <1> DEFINE Pick(s) == CHOOSE x \in s : TRUE
             F(f) == [s \in SUBSET S |-> IF s = {} THEN d ELSE AttachOne(f[s \ {Pick(s)}], Pick(s))]
             step == [p \in Desktops \X S |-> AttachOne(p[1], p[2])]
             pick == [s \in SUBSET S |-> Pick(s)]
  <1>1. step \in [Desktops \X S -> Desktops]
    <2> SUFFICES ASSUME NEW p \in Desktops \X S PROVE AttachOne(p[1], p[2]) \in Desktops
      OBVIOUS
    <2>1. p[1] \in Desktops /\ p[2] \in Outputs
      OBVIOUS
    <2> QED
      BY <2>1, AttachOneType
  <1>2. \A s \in SUBSET S : s # {} => Pick(s) \in s
    OBVIOUS
  <1>3. \A s \in SUBSET S : pick[s] = Pick(s)
    OBVIOUS
  <1>4. \A e \in Desktops, x \in S : step[<<e, x>>] = AttachOne(e, x)
    OBVIOUS
  <1> HIDE DEF step, pick
  <1>5. PICK g \in [SUBSET S -> Desktops] : Iterated(g, S, pick, d, step, SUBSET S)
    <2>1. \A s \in SUBSET S : s # {} => pick[s] \in s
      BY <1>2, <1>3
    <2> QED
      BY <1>1, <2>1, Iterates
  <1>6. g = F(g)
    <2>1. ASSUME NEW s \in SUBSET S
          PROVE  g[s] = IF s = {} THEN d ELSE AttachOne(g[s \ {Pick(s)}], Pick(s))
      <3>1. CASE s = {}
        BY <1>5, <3>1 DEF Iterated
      <3>2. CASE s # {}
        <4>1. Pick(s) \in S /\ pick[s] = Pick(s) /\ s \ {Pick(s)} \in SUBSET S
          BY <1>2, <1>3, <3>2
        <4> HIDE DEF Pick
        <4>2. g[s] = step[<<g[s \ {Pick(s)}], Pick(s)>>]
          BY <1>5, <3>2, <4>1 DEF Iterated
        <4>3. g[s \ {Pick(s)}] \in Desktops
          BY <1>5, <4>1
        <4> QED
          BY <1>4, <3>2, <4>1, <4>2, <4>3
      <3> QED
        BY <3>1, <3>2
    <2> HIDE DEF Pick
    <2> QED
      BY <1>5, <2>1
  <1> DEFINE h == CHOOSE f : f = F(f)
  <1>7. h = F(h)
    BY <1>6
  <1>8. AttachAll(d, S) = h[S]
    BY DEF AttachAll, FoldSet, MapThenFoldSet, AttachOne
  <1> HIDE DEF h, Pick
  <1>9. h[{}] = d
    BY <1>7
  <1>10. ASSUME NEW s \in SUBSET S, s # {}
         PROVE  \E x \in s : h[s] = AttachOne(h[s \ {x}], x)
    <2>1. h[s] = AttachOne(h[s \ {Pick(s)}], Pick(s))
      BY <1>7, <1>10
    <2> QED
      BY <1>2, <1>10, <2>1
  <1>11. Attaching(h, d, S)
    BY <1>9, <1>10 DEF Attaching
  <1> QED
    BY <1>8, <1>11

Detaching(h, d, S) ==
    /\ h[{}] = d
    /\ \A s \in SUBSET S : s # {} => \E x \in s : h[s] = DetachOne(h[s \ {x}], x)

LEMMA DetachSteps ==
    ASSUME NEW d \in Desktops, list \in Lists, NEW S \in SUBSET Outputs, IsFiniteSet(S)
    PROVE  \E h : DetachAll(d, S) = h[S] /\ Detaching(h, d, S)
  <1> DEFINE Pick(s) == CHOOSE x \in s : TRUE
             F(f) == [s \in SUBSET S |-> IF s = {} THEN d ELSE DetachOne(f[s \ {Pick(s)}], Pick(s))]
             step == [p \in Desktops \X S |-> DetachOne(p[1], p[2])]
             pick == [s \in SUBSET S |-> Pick(s)]
  <1>1. step \in [Desktops \X S -> Desktops]
    <2> SUFFICES ASSUME NEW p \in Desktops \X S PROVE DetachOne(p[1], p[2]) \in Desktops
      OBVIOUS
    <2>1. p[1] \in Desktops /\ p[2] \in Outputs
      OBVIOUS
    <2> QED
      BY <2>1, DetachOneType
  <1>2. \A s \in SUBSET S : s # {} => Pick(s) \in s
    OBVIOUS
  <1>3. \A s \in SUBSET S : pick[s] = Pick(s)
    OBVIOUS
  <1>4. \A e \in Desktops, x \in S : step[<<e, x>>] = DetachOne(e, x)
    OBVIOUS
  <1> HIDE DEF step, pick
  <1>5. PICK g \in [SUBSET S -> Desktops] : Iterated(g, S, pick, d, step, SUBSET S)
    <2>1. \A s \in SUBSET S : s # {} => pick[s] \in s
      BY <1>2, <1>3
    <2> QED
      BY <1>1, <2>1, Iterates
  <1>6. g = F(g)
    <2>1. ASSUME NEW s \in SUBSET S
          PROVE  g[s] = IF s = {} THEN d ELSE DetachOne(g[s \ {Pick(s)}], Pick(s))
      <3>1. CASE s = {}
        BY <1>5, <3>1 DEF Iterated
      <3>2. CASE s # {}
        <4>1. Pick(s) \in S /\ pick[s] = Pick(s) /\ s \ {Pick(s)} \in SUBSET S
          BY <1>2, <1>3, <3>2
        <4> HIDE DEF Pick
        <4>2. g[s] = step[<<g[s \ {Pick(s)}], Pick(s)>>]
          BY <1>5, <3>2, <4>1 DEF Iterated
        <4>3. g[s \ {Pick(s)}] \in Desktops
          BY <1>5, <4>1
        <4> QED
          BY <1>4, <3>2, <4>1, <4>2, <4>3
      <3> QED
        BY <3>1, <3>2
    <2> HIDE DEF Pick
    <2> QED
      BY <1>5, <2>1
  <1> DEFINE h == CHOOSE f : f = F(f)
  <1>7. h = F(h)
    BY <1>6
  <1>8. DetachAll(d, S) = h[S]
    BY DEF DetachAll, FoldSet, MapThenFoldSet, DetachOne
  <1> HIDE DEF h, Pick
  <1>9. h[{}] = d
    BY <1>7
  <1>10. ASSUME NEW s \in SUBSET S, s # {}
         PROVE  \E x \in s : h[s] = DetachOne(h[s \ {x}], x)
    <2>1. h[s] = DetachOne(h[s \ {Pick(s)}], Pick(s))
      BY <1>7, <1>10
    <2> QED
      BY <1>2, <1>10, <2>1
  <1>11. Detaching(h, d, S)
    BY <1>9, <1>10 DEF Detaching
  <1> QED
    BY <1>8, <1>11

LEMMA AlikeMade ==
    ASSUME NEW q \in Records, NEW r \in Records, Alike(q, r)
    PROVE  /\ Seated(q) \in Records /\ Seated(r) \in Records /\ Alike(Seated(q), Seated(r))
           /\ Stripped(q) \in Records /\ Stripped(r) \in Records /\ Alike(Stripped(q), Stripped(r))
           /\ InStep(Seated(r)) /\ InStep(Stripped(r))
  <1>1. Seat(q) \in Xs /\ Seat(r) \in Xs /\ Seat(q) = Seat(r)
    BY Numbers DEF Seat, Records, Alike
  <1>2. Seated(q) \in Records /\ Seated(r) \in Records /\ Alike(Seated(q), Seated(r)) /\ InStep(Seated(r))
    BY <1>1 DEF Seated, Records, Alike, InStep
  <1>3. /\ Stripped(q) \in Records /\ Stripped(r) \in Records /\ Alike(Stripped(q), Stripped(r))
        /\ InStep(Stripped(r))
    BY DEF Stripped, Records, Alike, InStep
  <1> QED
    BY <1>2, <1>3

\* Of a set of outputs each is made as m says, the others are left alone.
AllMade(d, e, T, m) ==
    /\ e \in Desktops /\ e.home = d.home /\ e.current = d.current /\ e.news = d.news
    /\ e.crash = d.crash /\ AllInStep(e.out)
    /\ \A o \in Outputs \ T : Alike(e.out[o], d.out[o])
    /\ \A o \in T : Alike(e.out[o], m[o])

LEMMA OneMoreMade ==
    ASSUME NEW d \in Desktops, NEW T \in SUBSET Outputs, NEW x \in T,
           NEW m \in [Outputs -> Records], InStep(m[x]),
           NEW b, AllMade(d, b, T \ {x}, m),
           NEW t \in States, Alike(t[x], m[x]),
           \A p \in Outputs \ {x} : InStep(b.out[p]) => Alike(t[p], b.out[p]),
           NEW e, e = [b EXCEPT !.out = t]
    PROVE  AllMade(d, e, T, m)
  <1>1. \A p \in Outputs : d.out[p] \in Records /\ b.out[p] \in Records /\ t[p] \in Records /\ m[p] \in Records
    BY DEF AllMade, Desktops, States
  <1>2. /\ e \in Desktops /\ e.out = t /\ e.home = d.home /\ e.current = d.current /\ e.news = d.news
        /\ e.crash = d.crash
    BY DEF AllMade, Desktops
  <1>3. ASSUME NEW p \in Outputs \ {x} PROVE Alike(t[p], b.out[p]) /\ InStep(t[p])
    <2>1. InStep(b.out[p])
      BY DEF AllMade, AllInStep
    <2>2. Alike(t[p], b.out[p])
      BY <2>1
    <2> QED
      BY <1>1, <2>1, <2>2, AlikeKeeps
  <1>4. AllInStep(e.out)
    <2>1. InStep(t[x])
      BY <1>1, AlikeKeeps
    <2> QED
      BY <1>2, <1>3, <2>1 DEF AllInStep
  <1>5. ASSUME NEW p \in Outputs \ T PROVE Alike(e.out[p], d.out[p])
    <2>1. Alike(b.out[p], d.out[p]) /\ p \in Outputs \ {x}
      BY DEF AllMade
    <2> QED
      BY <1>1, <1>2, <1>3, <2>1, AlikeOnce
  <1>6. ASSUME NEW p \in T PROVE Alike(e.out[p], m[p])
    <2>1. CASE p = x
      BY <1>2, <2>1
    <2>2. CASE p # x
      <3>1. Alike(b.out[p], m[p]) /\ p \in Outputs \ {x}
        BY <2>2 DEF AllMade
      <3> QED
        BY <1>1, <1>2, <1>3, <3>1, AlikeOnce
    <2> QED
      BY <2>1, <2>2
  <1> QED
    BY <1>2, <1>4, <1>5, <1>6 DEF AllMade

\* What is to be attached: listed, without a scene output.
Unseated(d, S) == \A o \in S : o \in Listed /\ ~d.out[o].scene

LEMMA AttachAllIs ==
    ASSUME NEW d \in Desktops, list \in Lists, NEW S \in SUBSET Outputs, IsFiniteSet(S),
           AllInStep(d.out), Unseated(d, S),
           NEW e, e = AttachAll(d, S),
           NEW m, m = [o \in Outputs |-> Seated(d.out[o])]
    PROVE  AllMade(d, e, S, m)
  <1>6. \E h : e = h[S] /\ Attaching(h, d, S)
    BY AttachSteps
  <1>1. PICK h : /\ e = h[S] /\ h[{}] = d
                 /\ \A s \in SUBSET S : s # {} => \E x \in s : h[s] = AttachOne(h[s \ {x}], x)
    BY <1>6 DEF Attaching
  <1>2. /\ m \in [Outputs -> Records]
        /\ \A o \in Outputs : d.out[o] \in Records /\ m[o] = Seated(d.out[o]) /\ InStep(m[o])
    <2>1. \A o \in Outputs : d.out[o] \in Records /\ Alike(d.out[o], d.out[o])
      BY AlikeItself DEF Desktops, States
    <2> QED
      BY <2>1, AlikeMade
  <1> DEFINE B == {s \in SUBSET S : AllMade(d, h[s], s, m)}
  <1>3. {} \in B
    <2>1. \A o \in Outputs : Alike(d.out[o], d.out[o])
      BY AlikeItself DEF Desktops, States
    <2> QED
      BY <1>1, <2>1 DEF AllMade
  <1>4. ASSUME NEW s \in SUBSET S, s # {}, \A x \in s : s \ {x} \in B PROVE s \in B
    <2>1. PICK x \in s : h[s] = AttachOne(h[s \ {x}], x)
      BY <1>1, <1>4
    <2> DEFINE b == h[s \ {x}]
               t == Attach(b.out, list, x)
    <2>2. AllMade(d, b, s \ {x}, m)
      BY <1>4
    <2>3. x \in Outputs /\ x \in ToSet(list) /\ ~d.out[x].scene
      BY DEF Unseated, Listed
    <2>4. h[s] = [b EXCEPT !.out = t]
      BY <2>1, MidwayIs DEF AttachOne
    <2> HIDE DEF b
    <2>5. b.out \in States /\ b.out[x] \in Records
      BY <2>2, <2>3 DEF AllMade, Desktops, States
    <2>6. Alike(b.out[x], d.out[x])
      BY <2>2, <2>3 DEF AllMade
    <2>7. ~b.out[x].scene
      BY <2>3, <2>6 DEF Alike
    <2>12. t = Attach(b.out, list, x)
      OBVIOUS
    <2> HIDE DEF t
    <2>13. /\ t \in States
           /\ \A p \in Outputs \ {x} : InStep(b.out[p]) => Alike(t[p], b.out[p])
           /\ Alike(t[x], Seated(b.out[x]))
      BY <2>3, <2>5, <2>7, <2>12, AttachedIs
    <2>14. Alike(t[x], m[x])
      <3>1. /\ Seated(b.out[x]) \in Records /\ Seated(d.out[x]) \in Records
            /\ Alike(Seated(b.out[x]), Seated(d.out[x]))
        BY <1>2, <2>3, <2>5, <2>6, AlikeMade
      <3>2. t[x] \in Records
        BY <2>3, <2>13 DEF States
      <3>3. Alike(t[x], Seated(d.out[x]))
        BY <2>13, <3>1, <3>2, AlikeOnce
      <3> QED
        BY <1>2, <2>3, <3>3
    <2>16. /\ s \in SUBSET Outputs /\ InStep(m[x]) /\ m \in [Outputs -> Records] /\ t \in States
           /\ \A p \in Outputs \ {x} : InStep(b.out[p]) => Alike(t[p], b.out[p])
      BY <1>2, <2>3, <2>13
    <2>15. AllMade(d, h[s], s, m)
      BY <2>2, <2>4, <2>14, <2>16, OneMoreMade
    <2> QED
      BY <2>15
  <1>5. S \in B
    <2> HIDE DEF B
    <2> QED
      BY <1>3, <1>4, Shrinks
  <1> QED
    BY <1>1, <1>5

LEMMA DetachAllIs ==
    ASSUME NEW d \in Desktops, list \in Lists, NEW S \in SUBSET Outputs, IsFiniteSet(S),
           AllInStep(d.out),
           NEW e, e = DetachAll(d, S),
           NEW m, m = [o \in Outputs |-> Stripped(d.out[o])]
    PROVE  AllMade(d, e, S, m)
  <1>6. \E h : e = h[S] /\ Detaching(h, d, S)
    BY DetachSteps
  <1>1. PICK h : /\ e = h[S] /\ h[{}] = d
                 /\ \A s \in SUBSET S : s # {} => \E x \in s : h[s] = DetachOne(h[s \ {x}], x)
    BY <1>6 DEF Detaching
  <1>2. /\ m \in [Outputs -> Records]
        /\ \A o \in Outputs : d.out[o] \in Records /\ m[o] = Stripped(d.out[o]) /\ InStep(m[o])
    <2>1. \A o \in Outputs : d.out[o] \in Records /\ Alike(d.out[o], d.out[o])
      BY AlikeItself DEF Desktops, States
    <2> QED
      BY <2>1, AlikeMade
  <1> DEFINE B == {s \in SUBSET S : AllMade(d, h[s], s, m)}
  <1>3. {} \in B
    <2>1. \A o \in Outputs : Alike(d.out[o], d.out[o])
      BY AlikeItself DEF Desktops, States
    <2> QED
      BY <1>1, <2>1 DEF AllMade
  <1>4. ASSUME NEW s \in SUBSET S, s # {}, \A x \in s : s \ {x} \in B PROVE s \in B
    <2>1. PICK x \in s : h[s] = DetachOne(h[s \ {x}], x)
      BY <1>1, <1>4
    <2> DEFINE b == h[s \ {x}]
               t == Detach(b.out, list, x)
    <2>2. AllMade(d, b, s \ {x}, m)
      BY <1>4
    <2>3. x \in Outputs
      OBVIOUS
    <2>4. h[s] = [b EXCEPT !.out = t]
      BY <2>1 DEF DetachOne
    <2> HIDE DEF b
    <2>5. b.out \in States /\ b.out[x] \in Records
      BY <2>2, <2>3 DEF AllMade, Desktops, States
    <2>6. Alike(b.out[x], d.out[x])
      BY <2>2, <2>3 DEF AllMade
    <2>12. t = Detach(b.out, list, x)
      OBVIOUS
    <2> HIDE DEF t
    <2>13. /\ t \in States
           /\ \A p \in Outputs \ {x} : InStep(b.out[p]) => Alike(t[p], b.out[p])
           /\ t[x] = Stripped(b.out[x])
      BY <2>3, <2>5, <2>12, DetachedIs
    <2>14. Alike(t[x], m[x])
      <3>1. Alike(Stripped(b.out[x]), Stripped(d.out[x]))
        BY <1>2, <2>3, <2>5, <2>6, AlikeMade
      <3> QED
        BY <1>2, <2>3, <2>13, <3>1
    <2>16. /\ s \in SUBSET Outputs /\ InStep(m[x]) /\ m \in [Outputs -> Records] /\ t \in States
           /\ \A p \in Outputs \ {x} : InStep(b.out[p]) => Alike(t[p], b.out[p])
      BY <1>2, <2>3, <2>13
    <2>15. AllMade(d, h[s], s, m)
      BY <2>2, <2>4, <2>14, <2>16, OneMoreMade
    <2> QED
      BY <2>15
  <1>5. S \in B
    <2> HIDE DEF B
    <2> QED
      BY <1>3, <1>4, Shrinks
  <1> QED
    BY <1>1, <1>5

-----------------------------------------------------------------------------
(* The whole of a configuration *)

\* An output in no list is dark and out of the layout.
Away(r) == ~r.enabled /\ ~r.lit /\ r.x = Nowhere /\ r.link # "in"

\* Every listed output is at rest, every other one away.
Kempt(s) ==
    /\ s \in States
    /\ \A o \in Listed : Good(s[o])
    /\ \A o \in Outputs \ Listed : Away(s[o])

LEMMA KemptIs ==
    ASSUME NEW s, Kempt(s), list \in Lists
    PROVE  /\ AllInStep(s) /\ Listed \subseteq Outputs
           /\ \A o \in Outputs : s[o] \in Records
           /\ \A o \in Outputs : s[o].enabled <=> s[o].link = "in"
  <1>1. Listed \subseteq Outputs
    BY SetOfSeq DEF Listed, Lists
  <1> QED
    BY <1>1 DEF Kempt, AllInStep, InStep, Good, Fit, Away, States

LEMMA AlikeKempt ==
    ASSUME NEW s, Kempt(s), list \in Lists, NEW t \in States,
           \A o \in Outputs : Alike(t[o], s[o])
    PROVE  Kempt(t)
  <1>1. \A o \in Outputs : t[o] \in Records /\ s[o] \in Records
    BY DEF Kempt, States
  <1>2. ASSUME NEW o \in Listed PROVE Good(t[o])
    <2>1. o \in Outputs /\ Good(s[o])
      BY KemptIs DEF Kempt
    <2> QED
      BY <1>1, <2>1, AlikeKeeps
  <1>3. ASSUME NEW o \in Outputs \ Listed PROVE Away(t[o])
    BY DEF Kempt, Away, Alike
  <1> QED
    BY <1>2, <1>3 DEF Kempt

LEMMA ComingIs ==
    ASSUME NEW heads \in Configurations, NEW hs \in Seq(HeadState),
           ToSet(hs) \subseteq ToSet(heads), Known(heads), list \in Lists
    PROVE  /\ Coming(hs) \in SUBSET Outputs /\ IsFiniteSet(Coming(hs))
           /\ \A o \in Coming(hs) : o \in Listed /\ ~out[o].wants
                                    /\ \E i \in 1 .. Len(heads) : heads[i].o = o /\ heads[i].on
           /\ \A i \in 1 .. Len(hs) : hs[i].on /\ ~out[hs[i].o].wants => hs[i].o \in Coming(hs)
  <1> DEFINE I == {i \in 1 .. Len(hs) : hs[i].on /\ ~out[hs[i].o].wants}
             f == [i \in I |-> hs[i].o]
  <1>1. Len(hs) \in Nat /\ DOMAIN hs = 1 .. Len(hs)
    BY LenProperties
  <1>2. \A h : h \in ToSet(hs) <=> \E i \in 1 .. Len(hs) : hs[i] = h
    BY <1>1 DEF ToSet
  <1>10. ASSUME NEW o \in Coming(hs) PROVE \E i \in I : f[i] = o
    <2>1. PICK h \in ToSet(hs) : h.on /\ ~out[h.o].wants /\ h.o = o
      BY DEF Coming
    <2>2. PICK i \in 1 .. Len(hs) : hs[i] = h
      BY <1>2
    <2>3. i \in I /\ f[i] = o
      BY <2>1, <2>2
    <2> QED
      BY <2>3
  <1>11. ASSUME NEW i \in I PROVE f[i] \in Coming(hs)
    <2>1. hs[i] \in ToSet(hs) /\ hs[i].on /\ ~out[hs[i].o].wants
      BY <1>2
    <2>2. hs[i].o \in Coming(hs)
      BY <2>1 DEF Coming
    <2> QED
      BY <2>2
  <1>4. IsFiniteSet(I)
    <2>1. IsFiniteSet(1 .. Len(hs))
      BY <1>1, FS_Interval
    <2>2. I \in SUBSET (1 .. Len(hs))
      OBVIOUS
    <2> HIDE DEF I
    <2> QED
      BY <2>1, <2>2, FS_Subset
  <1>5. f \in Surjection(I, Coming(hs))
    BY <1>10, <1>11 DEF Surjection
  <1>6. IsFiniteSet(Coming(hs))
    BY <1>4, <1>5, FS_Surjection
  <1>7. ASSUME NEW o \in Coming(hs)
        PROVE  /\ o \in Listed /\ ~out[o].wants
               /\ \E i \in 1 .. Len(heads) : heads[i].o = o /\ heads[i].on
    <2>1. PICK h \in ToSet(hs) : h.on /\ ~out[h.o].wants /\ h.o = o
      BY DEF Coming
    <2>2. PICK i \in 1 .. Len(heads) : heads[i] = h
      BY <2>1, Heads
    <2>3. heads[i].o \in Listed
      BY <2>2, Heads DEF Known
    <2> QED
      BY <2>1, <2>2, <2>3
  <1>8. Listed \subseteq Outputs
    BY SetOfSeq DEF Listed, Lists
  <1>9. ASSUME NEW i \in 1 .. Len(hs), hs[i].on, ~out[hs[i].o].wants PROVE hs[i].o \in Coming(hs)
    BY <1>2, <1>9 DEF Coming
  <1> QED
    BY <1>6, <1>7, <1>8, <1>9

\* What the backend has accepted of a configuration that may be applied.
LEMMA ReadyIs ==
    ASSUME NEW d \in Desktops, d.out = out, Kempt(out), list \in Lists,
           \E o \in Listed : out[o].wants,
           NEW heads \in Configurations, Known(heads), LightsNoDark(heads),
           NEW e, e = Committed(AttachAll(d, Coming(heads)), heads)
    PROVE  /\ e \in Desktops /\ e.home = d.home /\ e.current = d.current /\ e.news = d.news
           /\ e.crash = d.crash /\ ReadyFor(e, heads)
           /\ \A o \in Outputs : (\A i \in 1 .. Len(heads) : heads[i].o # o) => Alike(e.out[o], out[o])
  <1> DEFINE S == Coming(heads)
             a == AttachAll(d, S)
             m == [o \in Outputs |-> Seated(d.out[o])]
             lit1(o) == \E h \in ToSet(heads) : h.o = o /\ h.on
             t == [o \in Outputs |-> IF \E h \in ToSet(heads) : h.o = o
                                     THEN [a.out[o] EXCEPT !.lit = lit1(o)] ELSE a.out[o]]
  <1>1. /\ Len(heads) \in Nat /\ heads \in Seq(HeadState)
        /\ \A i \in 1 .. Len(heads) : heads[i] \in HeadState /\ heads[i] \in ToSet(heads)
        /\ \A h \in ToSet(heads) : \E i \in 1 .. Len(heads) : heads[i] = h
        /\ \A i, j \in 1 .. Len(heads) : heads[i].o = heads[j].o => i = j
        /\ \A i \in 1 .. Len(heads) : heads[i].o \in Listed
    BY Heads DEF Known
  <1>2. /\ AllInStep(out) /\ Listed \subseteq Outputs
        /\ \A o \in Outputs : out[o] \in Records
    BY KemptIs
  <1>3. /\ S \in SUBSET Outputs /\ IsFiniteSet(S)
        /\ \A o \in S : o \in Listed /\ ~out[o].wants /\ \E i \in 1 .. Len(heads) : heads[i].o = o /\ heads[i].on
        /\ \A i \in 1 .. Len(heads) : heads[i].on /\ ~out[heads[i].o].wants => heads[i].o \in S
    BY <1>1, ComingIs
  <1>4. Unseated(d, S)
    BY <1>3 DEF Unseated, Kempt, Good
  <1>5. e = [a EXCEPT !.out = t]
    BY DEF Committed
  <1>6. a = AttachAll(d, S)
    OBVIOUS
  <1>7. m = [o \in Outputs |-> Seated(d.out[o])]
    OBVIOUS
  <1> HIDE DEF S, a, m
  <1>8. AllMade(d, a, S, m)
    BY <1>2, <1>3, <1>4, <1>6, <1>7, AttachAllIs
  <1>9. /\ a \in Desktops /\ a.out \in States /\ a.home = d.home /\ a.current = d.current
        /\ a.news = d.news /\ a.crash = d.crash /\ AllInStep(a.out)
        /\ \A o \in Outputs : a.out[o] \in Records
        /\ \A o \in Outputs \ S : Alike(a.out[o], out[o])
        /\ \A o \in S : Alike(a.out[o], Seated(out[o]))
    BY <1>3, <1>7, <1>8 DEF AllMade, Desktops, States
  <1>10. t \in States /\ \A o \in Outputs : t[o] \in Records
    <2> SUFFICES ASSUME NEW o \in Outputs PROVE t[o] \in Records
      BY DEF States
    <2>1. a.out[o] \in Records /\ lit1(o) \in BOOLEAN
      BY <1>9
    <2> HIDE DEF lit1
    <2>2. [a.out[o] EXCEPT !.lit = lit1(o)] \in Records
      BY <2>1 DEF Records
    <2> QED
      BY <2>1, <2>2
  <1>11. ASSUME NEW o \in Outputs
         PROVE  LET r == a.out[o]
                    q == t[o]
                IN  /\ q.enabled = r.enabled /\ q.wants = r.wants /\ q.link = r.link /\ q.scene = r.scene
                    /\ q.x = r.x /\ q.gx = r.gx /\ q.bar = r.bar /\ q.stuck = r.stuck
    <2>1. t[o] = a.out[o] \/ t[o] = [a.out[o] EXCEPT !.lit = lit1(o)]
      OBVIOUS
    <2>2. a.out[o] \in Records
      BY <1>9
    <2> HIDE DEF lit1, t
    <2> QED
      BY <2>1, <2>2 DEF Records
  <1>12. ASSUME NEW i \in 1 .. Len(heads) PROVE t[heads[i].o].lit = heads[i].on
    <2> DEFINE o == heads[i].o
    <2>1. o \in Outputs /\ a.out[o] \in Records /\ heads[i].on \in BOOLEAN
      BY <1>1, <1>2, <1>9 DEF HeadState
    <2>2. lit1(o) <=> heads[i].on
      BY <1>1
    <2>3. t[o] = [a.out[o] EXCEPT !.lit = lit1(o)]
      BY <1>1, <2>1
    <2>4. lit1(o) \in BOOLEAN
      OBVIOUS
    <2> HIDE DEF lit1, t
    <2> QED
      BY <2>1, <2>2, <2>3, <2>4 DEF Records
  <1>13. ASSUME NEW o \in Outputs, \A i \in 1 .. Len(heads) : heads[i].o # o
         PROVE  Alike(t[o], out[o])
    <2>1. ~ \E h \in ToSet(heads) : h.o = o
      BY <1>1, <1>13
    <2>2. t[o] = a.out[o]
      BY <2>1
    <2>3. o \notin S
      BY <1>3, <1>13
    <2> QED
      BY <1>9, <2>2, <2>3
  <1> HIDE DEF t
  <1>14. e \in Desktops /\ e.out = t /\ e.home = d.home /\ e.current = d.current /\ e.news = d.news
         /\ e.crash = d.crash
    BY <1>5, <1>9, <1>10 DEF Desktops
  <1>15. ASSUME NEW o \in Listed PROVE t[o].wants = out[o].wants
    <2>1. a.out[o].wants = out[o].wants
      <3>1. CASE o \in S
        <4>1. Alike(a.out[o], Seated(out[o])) /\ out[o] \in Records
          BY <1>2, <1>9, <3>1
        <4>2. Seated(out[o]).wants = out[o].wants
          BY <4>1 DEF Seated, Records
        <4> QED
          BY <4>1, <4>2 DEF Alike
      <3>2. CASE o \notin S
        BY <1>2, <1>9, <3>2 DEF Alike
      <3> QED
        BY <3>1, <3>2
    <2> QED
      BY <1>2, <1>11, <2>1
  <1>16. AllInStep(t)
    BY <1>9, <1>11 DEF AllInStep, InStep
  <1>17. ASSUME NEW i \in 1 .. Len(heads) PROVE Due(t[heads[i].o], heads[i].on)
    <2> DEFINE o == heads[i].o
               r == out[o]
               q == a.out[o]
    <2>1. o \in Listed /\ o \in Outputs /\ Good(r) /\ r \in Records /\ q \in Records
      BY <1>1, <1>2, <1>9 DEF Kempt
    <2>2. heads[i].on /\ r.wants => r.enabled
      BY <1>1 DEF LightsNoDark
    <2>3. CASE o \in S
      <3>1. Alike(q, Seated(r)) /\ ~r.wants
        BY <1>3, <1>9, <2>3
      <3>2. PICK j \in 1 .. Len(heads) : heads[j].o = o /\ heads[j].on
        BY <1>3, <2>3
      <3>3. heads[i].on
        BY <1>1, <3>2
      <3> HIDE DEF q, r
      <3>4. Alike(r, r)
        BY <2>1, AlikeItself
      <3>5. Seated(r) \in Records
        BY <2>1, <3>4, AlikeMade
      <3>6. Seat(r) \in Xs /\ Seat(r) # Nowhere
        BY <2>1, Numbers DEF Seat, Good, Fit, Records
      <3>7. /\ Fit(Seated(r)) /\ Seated(r).scene /\ ~Seated(r).wants
        BY <2>1, <3>1, <3>6 DEF Seated, Good, Fit, InStep, Records
      <3> HIDE DEF o
      <3>8. Fit(q) /\ q.scene /\ ~q.wants
        BY <2>1, <3>1, <3>5, <3>7, AlikeKeeps DEF Alike
      <3>9. Fit(t[o]) /\ t[o].scene /\ ~t[o].wants
        BY <1>11, <2>1, <3>8 DEF Fit, InStep, q
      <3> QED
        BY <1>12, <3>3, <3>9 DEF Due, o
    <2>4. CASE o \notin S
      <3>1. Alike(q, r)
        BY <1>9, <2>1, <2>4
      <3>2. heads[i].on => r.wants
        BY <1>3, <2>4
      <3> HIDE DEF q, r
      <3>3. Good(q) /\ (heads[i].on => q.wants /\ q.enabled)
        <4>1. Good(q)
          BY <2>1, <3>1, AlikeKeeps
        <4> QED
          BY <2>2, <3>1, <3>2, <4>1 DEF Alike
      <3> HIDE DEF o
      <3>4. /\ Fit(t[o]) /\ (heads[i].on => t[o].wants /\ t[o].enabled)
            /\ (t[o].scene => t[o].wants) /\ (t[o].wants => t[o].scene)
        BY <1>11, <2>1, <3>3 DEF Good, Fit, InStep, q
      <3> QED
        BY <1>12, <3>4 DEF Due, o
    <2> QED
      BY <2>3, <2>4
  <1>18. ReadyFor(e, heads)
    <2>1. \E o \in Listed : t[o].wants
      BY <1>15
    <2>2. \A i \in 1 .. Len(heads) : heads[i].on => ~Blank
      BY <1>1 DEF LightsNoDark
    <2> QED
      BY <1>1, <1>14, <1>15, <1>16, <1>17, <2>1, <2>2 DEF ReadyFor
  <1> QED
    BY <1>13, <1>14, <1>18

\* A configuration that is refused leaves the outputs as they were.
LEMMA RefusedIs ==
    ASSUME NEW d \in Desktops, d.out = out, Kempt(out), list \in Lists,
           NEW heads \in Configurations, NEW hs \in Seq(HeadState),
           ToSet(hs) \subseteq ToSet(heads), Known(heads),
           NEW e, e = DetachAll(AttachAll(d, Coming(hs)), Coming(hs))
    PROVE  /\ e \in Desktops /\ e.home = d.home /\ e.current = d.current /\ e.news = d.news
           /\ e.crash = d.crash /\ \A o \in Outputs : Alike(e.out[o], out[o])
  <1> DEFINE S == Coming(hs)
             a == AttachAll(d, S)
             m == [o \in Outputs |-> Seated(d.out[o])]
             k == [o \in Outputs |-> Stripped(a.out[o])]
  <1>1. /\ S \in SUBSET Outputs /\ IsFiniteSet(S)
        /\ \A o \in S : o \in Listed /\ ~out[o].wants
    BY ComingIs
  <1>2. AllInStep(out) /\ \A o \in Outputs : out[o] \in Records
    BY KemptIs
  <1>3. Unseated(d, S)
    BY <1>1 DEF Unseated, Kempt, Good
  <1>4. a = AttachAll(d, S) /\ m = [o \in Outputs |-> Seated(d.out[o])] /\ e = DetachAll(a, S)
    OBVIOUS
  <1>5. k = [o \in Outputs |-> Stripped(a.out[o])]
    OBVIOUS
  <1> HIDE DEF S, a, m, k
  <1>6. AllMade(d, a, S, m)
    BY <1>1, <1>2, <1>3, <1>4, AttachAllIs
  <1>7. a \in Desktops /\ AllInStep(a.out)
    BY <1>6 DEF AllMade
  <1>8. AllMade(a, e, S, k)
    BY <1>1, <1>4, <1>5, <1>7, DetachAllIs
  <1>9. \A o \in Outputs : a.out[o] \in Records /\ e.out[o] \in Records
    BY <1>6, <1>8 DEF AllMade, Desktops, States
  <1>10. ASSUME NEW o \in Outputs PROVE Alike(e.out[o], out[o])
    <2>1. CASE o \in S
      <3> DEFINE r == out[o]
                 q == a.out[o]
      <3>1. r \in Records /\ q \in Records /\ Good(r) /\ ~r.wants
        BY <1>1, <1>2, <1>9, <2>1 DEF Kempt
      <3>2. Alike(q, Seated(r)) /\ Alike(e.out[o], Stripped(q))
        BY <1>4, <1>5, <1>6, <1>8, <2>1 DEF AllMade
      <3> HIDE DEF q, r
      <3>3. Alike(r, r)
        BY <3>1, AlikeItself
      <3>4. Seated(r) \in Records
        BY <3>1, <3>3, AlikeMade
      <3>5. Alike(Stripped(q), Stripped(Seated(r))) /\ Stripped(q) \in Records /\ Stripped(Seated(r)) \in Records
        BY <3>1, <3>2, <3>4, AlikeMade
      <3>6. Seat(r) = r.gx
        BY <3>1 DEF Seat, Good, Fit
      <3>7. Alike(Stripped(Seated(r)), r)
        BY <3>1, <3>6 DEF Stripped, Seated, Alike, Good, Fit, Records
      <3>8. Alike(Stripped(q), r)
        BY <3>1, <3>5, <3>7, AlikeOnce
      <3>9. Alike(e.out[o], r)
        BY <1>9, <3>1, <3>2, <3>5, <3>8, AlikeOnce
      <3> QED
        BY <3>9 DEF r
    <2>2. CASE o \notin S
      <3>1. Alike(e.out[o], a.out[o]) /\ Alike(a.out[o], out[o])
        BY <1>6, <1>8, <2>2 DEF AllMade
      <3> QED
        BY <1>2, <1>9, <3>1, AlikeOnce
    <2> QED
      BY <2>1, <2>2
  <1> QED
    BY <1>6, <1>8, <1>10 DEF AllMade

-----------------------------------------------------------------------------
(* The reload of the configuration *)

LEMMA RepositionType ==
    ASSUME NEW s \in States, NEW o \in Outputs, NEW to, \A p \in DOMAIN to : to[p] \in Xs
    PROVE  Reposition(s, o, to) \in States
  BY LayoutAddType DEF Reposition

LEMMA ReloadSteps ==
    ASSUME list \in Lists, NEW to, \A p \in DOMAIN to : to[p] \in Xs, out \in States
    PROVE  \E c \in [0 .. Len(list) -> States] :
               /\ c[0] = out /\ c[Len(list)] = Repositioned(to)
               /\ \A i \in 1 .. Len(list) : c[i] = Reposition(c[i - 1], list[i], to)
  <1> DEFINE D == DOMAIN list
             F(f) == [s \in SUBSET D |-> IF s = {} THEN out
                                         ELSE Reposition(f[s \ {Max(s)}], list[Max(s)], to)]
             step == [p \in States \X D |-> Reposition(p[1], list[p[2]], to)]
             pick == [s \in SUBSET D |-> Max(s)]
             n == Len(list)
  <1>1. n \in Nat /\ D = 1 .. n /\ \A i \in D : list[i] \in Outputs
    BY SetOfSeq DEF Lists
  <1>2. step \in [States \X D -> States]
    <2> SUFFICES ASSUME NEW p \in States \X D PROVE Reposition(p[1], list[p[2]], to) \in States
      OBVIOUS
    <2>1. p[1] \in States /\ list[p[2]] \in Outputs
      BY <1>1
    <2> QED
      BY <2>1, RepositionType
  <1>3. \A s \in SUBSET D : s # {} => pick[s] \in s
    BY <1>1, MaxUpTo
  <1>4. IsFiniteSet(D)
    BY <1>1, FS_Interval
  <1>5. \A e \in States, i \in D : step[<<e, i>>] = Reposition(e, list[i], to)
    OBVIOUS
  <1>6. \A s \in SUBSET D : pick[s] = Max(s)
    OBVIOUS
  <1> HIDE DEF D, step, pick
  <1>7. PICK g \in [SUBSET D -> States] : Iterated(g, D, pick, out, step, SUBSET D)
    BY <1>2, <1>3, <1>4, Iterates
  <1>8. g = F(g)
    <2>1. ASSUME NEW s \in SUBSET D
          PROVE  g[s] = IF s = {} THEN out ELSE Reposition(g[s \ {Max(s)}], list[Max(s)], to)
      <3>1. CASE s = {}
        BY <1>7, <3>1 DEF Iterated
      <3>2. CASE s # {}
        <4>1. Max(s) \in D /\ pick[s] = Max(s) /\ s \ {Max(s)} \in SUBSET D
          BY <1>3, <1>6, <3>2
        <4>2. g[s] = step[<<g[s \ {Max(s)}], Max(s)>>]
          BY <1>7, <3>2, <4>1 DEF Iterated
        <4>3. g[s \ {Max(s)}] \in States
          BY <1>7, <4>1
        <4> QED
          BY <1>5, <3>2, <4>1, <4>2, <4>3
      <3> QED
        BY <3>1, <3>2
    <2> QED
      BY <1>7, <2>1
  <1> DEFINE h == CHOOSE f : f = F(f)
  <1>9. h = F(h)
    BY <1>8
  <1>10. Repositioned(to) = h[D]
    BY DEF Repositioned, FoldLeft, MapThenFoldSet, D
  <1> HIDE DEF h
  <1>11. h[{}] = out
    BY <1>9
  <1>12. ASSUME NEW s \in SUBSET D, s # {}, h[s \ {Max(s)}] \in States
         PROVE  h[s] = step[<<h[s \ {Max(s)}], Max(s)>>]
    <2>1. h[s] = Reposition(h[s \ {Max(s)}], list[Max(s)], to)
      BY <1>9, <1>12
    <2>2. Max(s) \in D
      BY <1>3, <1>6, <1>12
    <2> QED
      BY <1>5, <1>12, <2>1, <2>2
  <1> HIDE DEF F, n
  <1>16. n \in Nat /\ step \in [States \X (1 .. n) -> States]
    BY <1>1, <1>2
  <1>17. Folding(h, n, States, out, step)
    BY <1>1, <1>11, <1>12 DEF Folding
  <1>13. \E c \in [0 .. n -> States] : Chain(c, n, out, h[1 .. n], step)
    BY <1>16, <1>17, FoldsUp
  <1>14. PICK c \in [0 .. n -> States] :
            /\ c[0] = out /\ c[n] = h[1 .. n]
            /\ \A i \in 1 .. n : c[i] = step[<<c[i - 1], i>>]
    BY <1>13 DEF Chain
  <1>15. ASSUME NEW i \in 1 .. n PROVE c[i] = Reposition(c[i - 1], list[i], to)
    <2>1. i - 1 \in 0 .. n /\ i \in D
      BY <1>1
    <2> QED
      BY <1>5, <1>14, <2>1
  <1> QED
    BY <1>1, <1>10, <1>14, <1>15 DEF n

LEMMA ReloadIs ==
    ASSUME Kempt(out), list \in Lists, NEW to, \A p \in DOMAIN to : to[p] \in Xs,
           NEW t, t = Repositioned(to)
    PROVE  Kempt(t) /\ \A o \in Outputs : t[o].wants = out[o].wants
  <1>0. out \in States /\ Len(list) \in Nat /\ \A i \in 1 .. Len(list) : list[i] \in Listed /\ list[i] \in Outputs
    BY SetOfSeq DEF Kempt, Lists, Listed
  <1>1. PICK c \in [0 .. Len(list) -> States] :
            /\ c[0] = out /\ c[Len(list)] = t
            /\ \A i \in 1 .. Len(list) : c[i] = Reposition(c[i - 1], list[i], to)
    BY <1>0, ReloadSteps
  <1> DEFINE B == {i \in 0 .. Len(list) : Kempt(c[i]) /\ \A o \in Outputs : c[i][o].wants = out[o].wants}
  <1>2. 0 \in B
    BY <1>0, <1>1
  <1>3. ASSUME NEW i \in 1 .. Len(list), i - 1 \in B PROVE i \in B
    <2> DEFINE s == c[i - 1]
               o == list[i]
               u == c[i]
    <2>1. i - 1 \in 0 .. Len(list) /\ i \in 0 .. Len(list)
      BY <1>0
    <2>2. s \in States /\ u \in States /\ u = Reposition(s, o, to) /\ o \in Outputs /\ o \in Listed
      BY <1>0, <1>1, <2>1
    <2>3. Kempt(s) /\ \A p \in Outputs : s[p].wants = out[p].wants
      BY <1>3
    <2> HIDE DEF s, u, o
    <2>4. CASE u = s
      BY <2>1, <2>3, <2>4 DEF u
    <2>5. CASE u # s
      <3>1. s[o].wants /\ o \in DOMAIN to /\ u = LayoutAdd(s, list, o, to[o])
        BY <2>2, <2>5 DEF Reposition
      <3> DEFINE x == to[o]
      <3>2. x \in Xs /\ u = LayoutAdd(s, list, o, x) /\ o \in ToSet(list)
        BY <2>2, <3>1 DEF Listed
      <3> HIDE DEF x
      <3>3. /\ \A p \in Outputs \ {o} : InStep(s[p]) => Alike(u[p], s[p])
            /\ Alike(u[o], [s[o] EXCEPT !.x = x, !.gx = x])
        BY <2>2, <3>2, MovedIs
      <3>4. /\ AllInStep(s) /\ Listed \subseteq Outputs
            /\ \A p \in Outputs : s[p] \in Records /\ u[p] \in Records
        BY <2>2, <2>3, KemptIs DEF States
      <3> DEFINE q == [s[o] EXCEPT !.x = x, !.gx = x]
      <3>5. q \in Records /\ Good(q) /\ q.wants
        <4>1. Good(s[o]) /\ s[o] \in Records
          BY <2>2, <2>3, <3>4 DEF Kempt
        <4> QED
          BY <3>1, <3>2, <4>1, Numbers DEF Good, Fit, InStep, Records
      <3>6. Alike(u[o], q)
        BY <3>3
      <3> HIDE DEF q
      <3>7. Good(u[o]) /\ u[o].wants
        BY <2>2, <3>4, <3>5, <3>6, AlikeKeeps DEF Alike
      <3>8. ASSUME NEW p \in Outputs \ {o} PROVE Alike(u[p], s[p])
        BY <3>3, <3>4 DEF AllInStep
      <3>9. Kempt(u)
        <4>1. ASSUME NEW p \in Listed PROVE Good(u[p])
          <5>1. CASE p = o
            BY <3>7, <5>1
          <5>2. CASE p # o
            <6>1. Good(s[p]) /\ p \in Outputs \ {o}
              BY <2>3, <3>4, <5>2 DEF Kempt
            <6> QED
              BY <3>4, <3>8, <6>1, AlikeKeeps
          <5> QED
            BY <5>1, <5>2
        <4>2. ASSUME NEW p \in Outputs \ Listed PROVE Away(u[p])
          <5>1. Away(s[p]) /\ p \in Outputs \ {o}
            BY <2>2, <2>3 DEF Kempt
          <5>2. Alike(u[p], s[p])
            BY <3>8, <5>1
          <5> QED
            BY <5>1, <5>2 DEF Away, Alike
        <4> QED
          BY <2>2, <4>1, <4>2 DEF Kempt
      <3>10. ASSUME NEW p \in Outputs PROVE u[p].wants = out[p].wants
        <4>1. CASE p = o
          BY <2>2, <2>3, <3>1, <3>4, <3>7, <4>1 DEF Records
        <4>2. CASE p # o
          <5>1. Alike(u[p], s[p])
            BY <3>8, <4>2
          <5> QED
            BY <2>3, <5>1 DEF Alike
        <4> QED
          BY <4>1, <4>2
      <3> QED
        BY <2>1, <3>9, <3>10 DEF u
    <2> QED
      BY <2>4, <2>5
  <1> HIDE DEF B
  <1>4. \A i \in 0 .. Len(list) : i \in B
    BY <1>0, <1>2, <1>3, Climbs
  <1>5. Len(list) \in 0 .. Len(list)
    BY <1>0
  <1> QED
    BY <1>1, <1>4, <1>5 DEF B

-----------------------------------------------------------------------------
(* The inductive invariant *)

Listing == list \in Lists /\ present \in SUBSET Outputs /\ Listed \subseteq present

Telling == missed \in BOOLEAN /\ (\A o \in DOMAIN told : told[o] \in Xs) /\ PublishedIsCurrent

Answering == answered \in {"none", "succeeded", "failed"} /\ news \in Nat

\* While an output is listed one is part of the desktop, and windows and workspace are
\* not on the fallback.
Housing ==
    /\ home \in Places \cup {"closed"} /\ current \in Places
    /\ list # <<>> => home # Noop /\ current # Noop /\ \E o \in Listed : out[o].wants

Darkening ==
    /\ lock \in {"open", "locked", "blank"}
    /\ Blank => \A o \in Listed : out[o].enabled => out[o].stuck

Sound ==
    /\ Kempt(out) /\ Listing /\ Telling /\ Answering /\ Housing /\ Darkening
    /\ overrides \in BOOLEAN /\ crash = FALSE

LEMMA BroadcastIs ==
    ASSUME Telling, NEW s \in States, NEW ls \in Lists, out' = s, list' = ls, Broadcast(s, ls, told)
    PROVE  Telling'
  <1>1. missed' \in BOOLEAN
    BY DEF Broadcast, Tries
  <1>2. \A o \in DOMAIN Snapshot(s, ls) : Snapshot(s, ls)[o] \in Xs
    <2>1. \A o \in ToSet(ls) : o \in Outputs
      BY SetOfSeq DEF Lists
    <2> QED
      BY <2>1, GeometryXType DEF Snapshot
  <1>3. told' = told \/ told' = Snapshot(s, ls)
    BY DEF Broadcast
  <1>4. missed' \/ told' = Snapshot(s, ls)
    BY DEF Broadcast
  <1>5. Snapshot(out', list') = Snapshot(s, ls)
    OBVIOUS
  <1>6. PublishedIsCurrent'
    BY <1>4, <1>5 DEF PublishedIsCurrent
  <1>7. (\A o \in DOMAIN told : told[o] \in Xs)'
    BY <1>2, <1>3 DEF Telling
  <1> QED
    BY <1>1, <1>6, <1>7 DEF Telling

LEMMA UntoldIs ==
    ASSUME Telling, list' = list, UNCHANGED <<told, missed>>,
           \A o \in Listed : out'[o].gx = out[o].gx
    PROVE  Telling'
  <1>1. Snapshot(out', list) = Snapshot(out, list)
    BY DEF Snapshot, Listed, GeometryX
  <1>2. Snapshot(out', list') = Snapshot(out', list)
    OBVIOUS
  <1>3. PublishedIsCurrent'
    BY <1>1, <1>2 DEF Telling, PublishedIsCurrent
  <1> QED
    BY <1>3 DEF Telling

LEMMA QuietIs == Quiet => Answering'
  BY DEF Quiet, Answering

LEMMA SoundAtFirst == OutputsInit => Sound
  <1> SUFFICES ASSUME OutputsInit PROVE Sound
    OBVIOUS
  <1>1. list \in Lists /\ ToSet(list) = {} /\ Listed = {}
    <2>1. list = <<>> /\ list \in Seq(Outputs)
      BY DEF OutputsInit
    <2>2. ToSet(list) = {}
      BY <2>1, SetOfSeq
    <2>3. IsInjective(list)
      BY <2>1 DEF IsInjective
    <2> QED
      BY <2>1, <2>2, <2>3 DEF Lists, Listed
  <1>2. Kempt(out)
    <2>1. Absent \in Records /\ Away(Absent)
      BY Numbers DEF Absent, Records, Away, Links, Nowhere
    <2>2. out = [o \in Outputs |-> Absent]
      BY DEF OutputsInit
    <2> QED
      BY <1>1, <2>1, <2>2 DEF Kempt, States
  <1>3. Telling
    <2>1. told = <<>> /\ missed = FALSE
      BY DEF OutputsInit
    <2>2. Snapshot(out, list) = <<>>
      BY <1>1 DEF Snapshot
    <2>3. DOMAIN told = {}
      BY <2>1
    <2> QED
      BY <2>1, <2>2, <2>3 DEF Telling, PublishedIsCurrent
  <1>4. Housing /\ Listing /\ Darkening
    BY <1>1 DEF OutputsInit, Housing, Listing, Darkening, Places, Blank
  <1>5. Answering /\ overrides \in BOOLEAN /\ crash = FALSE
    BY DEF OutputsInit, Answering
  <1> QED
    BY <1>2, <1>3, <1>4, <1>5 DEF Sound

\* What the parts of the invariant give about the outputs.
LEMMA SoundIs ==
    ASSUME Sound
    PROVE  /\ list \in Lists /\ Listed \subseteq Outputs /\ out \in States /\ Kempt(out)
           /\ \A o \in Outputs : out[o] \in Records
           /\ \A o \in Listed : Good(out[o])
           /\ \A o \in Outputs \ Listed : Away(out[o])
           /\ list = <<>> <=> Listed = {}
  <1>1. list \in Lists /\ Kempt(out) /\ list \in Seq(Outputs)
    BY DEF Sound, Listing, Lists
  <1>2. list = <<>> <=> Listed = {}
    BY <1>1, SetOfSeq DEF Listed
  <1> QED
    BY <1>1, <1>2, KemptIs DEF Kempt

\* An action that leaves the list alone.
LEMMA SameList ==
    ASSUME Sound, list' = list, present' = present, Kempt(out'),
           Telling', Answering', overrides' \in BOOLEAN, crash' = FALSE,
           home' \in Places \cup {"closed"}, current' \in Places,
           list # <<>> => home' # Noop /\ current' # Noop /\ \E o \in Listed : out'[o].wants,
           lock' \in {"open", "locked", "blank"},
           lock' = "blank" => \A o \in Listed : out'[o].enabled => out'[o].stuck
    PROVE  Sound'
  <1>1. Listed' = Listed
    BY DEF Listed
  <1>2. Kempt(out)'
    BY <1>1 DEF Kempt
  <1>3. Listing'
    BY <1>1 DEF Sound, Listing
  <1>4. Housing'
    BY <1>1 DEF Housing
  <1>5. Darkening'
    BY <1>1 DEF Darkening, Blank
  <1> QED
    BY <1>2, <1>3, <1>4, <1>5 DEF Sound

-----------------------------------------------------------------------------
(* A monitor comes and goes *)

LEMMA PlugUnlitKeeps ==
    ASSUME Sound, NEW o \in Outputs, PlugUnlit(o)
    PROVE  Sound' /\ asked' = <<>>
  <1>1. /\ list \in Lists /\ Listed \subseteq Outputs /\ out \in States /\ Kempt(out)
        /\ \A p \in Outputs : out[p] \in Records
    BY SoundIs
  <1>2. o \notin Listed /\ out' = [out EXCEPT ![o] = Absent]
    BY DEF PlugUnlit, Sound, Listing
  <1>3. Absent \in Records /\ Away(Absent)
    BY Numbers DEF Absent, Records, Away, Links, Nowhere
  <1>4. out' \in States /\ out'[o] = Absent /\ \A p \in Outputs \ {o} : out'[p] = out[p]
    BY <1>1, <1>2, <1>3 DEF States
  <1>5. Listed' = Listed /\ \A p \in Listed : out'[p] = out[p]
    BY <1>1, <1>2, <1>4 DEF PlugUnlit, Listed
  <1>6. Kempt(out)'
    BY <1>1, <1>3, <1>4, <1>5 DEF Kempt
  <1>7. Telling'
    BY <1>1, <1>4, BroadcastIs DEF PlugUnlit, Sound
  <1>8. Listing'
    BY <1>5 DEF PlugUnlit, Sound, Listing
  <1>9. Housing'
    BY <1>5 DEF PlugUnlit, Sound, Housing
  <1>10. Darkening'
    BY <1>5 DEF PlugUnlit, Sound, Darkening, Blank
  <1> QED
    BY <1>6, <1>7, <1>8, <1>9, <1>10, QuietIs DEF PlugUnlit, Sound, Quiet

\* The output as it enters the list is lit, or dark as the lock wants it.
LEMMA BroughtUpIs ==
    ASSUME NEW o, NEW off \in BOOLEAN
    PROVE  LET r == BroughtUp(o, off) IN
           /\ r \in Records /\ r.wants /\ ~r.scene /\ r.x = Nowhere /\ r.gx = Nowhere /\ ~r.bar
           /\ r.link # "loose" /\ (r.enabled <=> r.link = "in") /\ (r.lit => r.enabled)
           /\ Blank /\ r.enabled => r.stuck
  <1> DEFINE up == [Absent EXCEPT !.lit = TRUE, !.enabled = TRUE, !.wants = TRUE, !.link = "in"]
  <1>1. /\ up \in Records /\ up.lit /\ up.enabled /\ up.wants /\ up.link = "in" /\ ~up.scene
        /\ up.x = Nowhere /\ up.gx = Nowhere /\ ~up.bar
    BY DEF Absent, Records, Links
  <1>2. BroughtUp(o, off) = IF Blank THEN Disable(up, off) ELSE up
    BY DEF BroughtUp
  <1> HIDE DEF up
  <1>3. /\ Disable(up, off) \in Records
        /\ LET r == Disable(up, off) IN
           /\ r.wants /\ ~r.scene /\ r.x = Nowhere /\ r.gx = Nowhere /\ ~r.bar
           /\ r.link # "loose" /\ (r.enabled <=> r.link = "in") /\ (r.lit => r.enabled)
           /\ r.enabled => r.stuck
    BY <1>1 DEF Disable, Records, Links
  <1> QED
    BY <1>1, <1>2, <1>3

LEMMA PlugUnplacedKeeps ==
    ASSUME Races = {}, Sound, NEW o \in Outputs, PlugUnplaced(o)
    PROVE  Sound' /\ asked' = <<>>
  <1>1. /\ list \in Lists /\ Listed \subseteq Outputs /\ out \in States /\ Kempt(out)
        /\ \A p \in Outputs : out[p] \in Records
        /\ list = <<>> <=> Listed = {}
    BY SoundIs
  <1>2. o \notin Listed
    BY DEF PlugUnplaced, Sound, Listing
  <1> DEFINE ls == <<o>> \o list
             r(off) == BroughtUp(o, off)
             q(off) == [r(off) EXCEPT !.lit = FALSE, !.enabled = FALSE, !.scene = FALSE, !.link = "loose"]
             up(off) == [out EXCEPT ![o] = r(off)]
             t(off) == [up(off) EXCEPT ![o] = [up(off)[o] EXCEPT !.lit = FALSE, !.enabled = FALSE,
                                                    !.scene = FALSE, !.link = "loose"]]
  <1>3. PICK off \in BOOLEAN : out' = t(off) /\ list' = RemoveFirst(ls, o)
    BY DEF PlugUnplaced, RolledBack, Tries
  <1>4. r(off) \in Records /\ r(off).x = Nowhere
    BY BroughtUpIs
  <1>5. q(off) \in Records /\ Away(q(off))
    BY <1>4 DEF Records, Away, Links
  <1>6. up(off) \in States /\ up(off)[o] = r(off) /\ \A p \in Outputs \ {o} : up(off)[p] = out[p]
    BY <1>1, <1>4 DEF States
  <1>7. t(off) = [up(off) EXCEPT ![o] = q(off)]
    BY <1>6
  <1> HIDE DEF up, q, t, r
  <1>8. out' \in States /\ out'[o] = q(off) /\ \A p \in Outputs \ {o} : out'[p] = out[p]
    BY <1>3, <1>5, <1>6, <1>7 DEF States
  <1>9. list' \in Lists /\ Listed' = Listed
    <2>1. ls \in Lists /\ ToSet(ls) = {o} \cup Listed
      BY <1>1, <1>2, Prepended DEF Listed
    <2>2. list' \in Lists /\ ToSet(list') = ToSet(ls) \ {o}
      BY <1>3, <2>1, Removed
    <2> QED
      BY <1>2, <2>1, <2>2 DEF Listed
  <1>10. \A p \in Listed : out'[p] = out[p]
    BY <1>1, <1>2, <1>8
  <1>11. Kempt(out)'
    BY <1>1, <1>5, <1>8, <1>9, <1>10 DEF Kempt
  <1>12. Telling'
    <2>1. Broadcast(out', list', told)
      BY DEF PlugUnplaced
    <2> QED
      BY <1>8, <1>9, <2>1, BroadcastIs DEF Sound
  <1>13. Listing'
    BY <1>9 DEF PlugUnplaced, Sound, Listing
  <1>14. Housing'
    <2>1. list' # <<>> => list # <<>>
      BY <1>1, <1>9, SetOfSeq DEF Listed, Lists
    <2>2. home' = home /\ current' = current
      BY DEF PlugUnplaced
    <2> QED
      BY <1>9, <1>10, <2>1, <2>2 DEF Sound, Housing
  <1>15. Darkening'
    <2>1. lock' = lock
      BY DEF PlugUnplaced
    <2> QED
      BY <1>9, <1>10, <2>1 DEF Sound, Darkening, Blank
  <1>16. overrides' = overrides /\ crash' = crash /\ Quiet
    BY DEF PlugUnplaced
  <1> QED
    BY <1>11, <1>12, <1>13, <1>14, <1>15, <1>16, QuietIs DEF Sound, Quiet

LEMMA PlugKeeps ==
    ASSUME Sound, NEW o \in Outputs, Plug(o)
    PROVE  Sound' /\ asked' = <<>>
  <1>1. /\ list \in Lists /\ Listed \subseteq Outputs /\ out \in States /\ Kempt(out)
        /\ \A p \in Outputs : out[p] \in Records
        /\ \A p \in Outputs : InStep(out[p])
    BY SoundIs, KemptIs DEF AllInStep
  <1>2. o \notin Listed
    BY DEF Plug, Sound, Listing
  <1> DEFINE ls == <<o>> \o list
             r(off) == BroughtUp(o, off)
             up(off) == [out EXCEPT ![o] = r(off)]
             seated(off) == [up(off) EXCEPT ![o] = [up(off)[o] EXCEPT !.scene = TRUE]]
             q(off) == [r(off) EXCEPT !.scene = TRUE]
  <1>3. list' = ls
    BY DEF Plug
  <1>4. PICK off \in BOOLEAN, x \in Xs : out' = LayoutAdd(seated(off), ls, o, x)
    BY <1>3 DEF Plug, Placed, Tries
  <1>5. /\ r(off) \in Records /\ r(off).wants /\ ~r(off).scene /\ r(off).x = Nowhere /\ ~r(off).bar
        /\ r(off).link # "loose" /\ (r(off).enabled <=> r(off).link = "in") /\ (r(off).lit => r(off).enabled)
        /\ Blank /\ r(off).enabled => r(off).stuck
    BY BroughtUpIs
  <1>6. up(off) \in States /\ up(off)[o] = r(off) /\ \A p \in Outputs \ {o} : up(off)[p] = out[p]
    BY <1>1, <1>5 DEF States
  <1>7. q(off) \in Records
    BY <1>5 DEF Records
  <1>8. seated(off) = [up(off) EXCEPT ![o] = q(off)]
    BY <1>6
  <1> DEFINE k == [q(off) EXCEPT !.x = x, !.gx = x]
  <1>9. k \in Records /\ Good(k) /\ k.wants /\ (Blank /\ k.enabled => k.stuck)
    BY <1>5, Numbers DEF Records, Good, Fit, InStep
  <1> HIDE DEF r, up
  <1> DEFINE s == seated(off)
  <1>10. s \in States /\ s[o] = q(off) /\ \A p \in Outputs \ {o} : s[p] = out[p]
    BY <1>6, <1>7, <1>8 DEF States
  <1>11. out' = LayoutAdd(s, ls, o, x)
    BY <1>4
  <1> HIDE DEF q, seated, s
  <1>12. ls \in Lists /\ ToSet(ls) = {o} \cup Listed /\ o \in ToSet(ls) /\ ls # <<>>
    BY <1>1, <1>2, Prepended DEF Listed
  <1> DEFINE t == out'
  <1>13. t = LayoutAdd(s, ls, o, x)
    BY <1>11
  <1>14. [s[o] EXCEPT !.x = x, !.gx = x] = k
    BY <1>10
  <1> HIDE DEF t, k
  <1>15. /\ t \in States
         /\ \A p \in Outputs \ {o} : InStep(s[p]) => Alike(t[p], s[p])
         /\ Alike(t[o], k)
    <2>1. /\ t \in States
          /\ \A p \in Outputs \ {o} : InStep(s[p]) => Alike(t[p], s[p])
          /\ Alike(t[o], [s[o] EXCEPT !.x = x, !.gx = x])
      BY <1>10, <1>12, <1>13, MovedIs
    <2> QED
      BY <1>14, <2>1
  <1>16. \A p \in Outputs : t[p] \in Records
    BY <1>15 DEF States
  <1>17. ASSUME NEW p \in Outputs \ {o} PROVE Alike(t[p], out[p])
    BY <1>1, <1>10, <1>15
  <1>18. Good(t[o]) /\ t[o].wants /\ (Blank /\ t[o].enabled => t[o].stuck)
    <2>1. Alike(t[o], k)
      BY <1>15
    <2>2. Good(t[o])
      BY <1>9, <1>16, <2>1, AlikeKeeps
    <2> QED
      BY <1>9, <2>1, <2>2 DEF Alike
  <1>19. Listed' = {o} \cup Listed
    BY <1>3, <1>12 DEF Listed
  <1>20. Kempt(out)'
    <2>1. ASSUME NEW p \in Listed PROVE Good(t[p])
      <3>1. Good(out[p]) /\ p \in Outputs \ {o}
        BY <1>1, <1>2 DEF Kempt
      <3> QED
        BY <1>1, <1>16, <1>17, <3>1, AlikeKeeps
    <2>2. ASSUME NEW p \in Outputs \ ({o} \cup Listed) PROVE Away(t[p])
      <3>1. Away(out[p]) /\ p \in Outputs \ {o}
        BY <1>1 DEF Kempt
      <3>2. Alike(t[p], out[p])
        BY <1>17, <3>1
      <3> QED
        BY <3>1, <3>2 DEF Away, Alike
    <2> QED
      BY <1>15, <1>18, <1>19, <2>1, <2>2 DEF Kempt, t
  <1>21. Telling'
    <2>1. Broadcast(out', list', told)
      BY DEF Plug
    <2> QED
      BY <1>3, <1>12, <1>15, <2>1, BroadcastIs DEF Sound, t
  <1>22. Listing'
    BY <1>3, <1>12, <1>19 DEF Plug, Sound, Listing
  <1>23. Housing'
    <2>1. o # Noop /\ o \in Places
      BY OutputsAssumption DEF Places
    <2>2. \/ list = <<>> /\ home' = (IF home = Noop THEN o ELSE home) /\ current' = o
          \/ list # <<>> /\ home' = home /\ current' = current
      BY DEF Plug, TakenBack
    <2>3. home' \in Places \cup {"closed"} /\ current' \in Places /\ home' # Noop /\ current' # Noop
      BY <2>1, <2>2 DEF Sound, Housing
    <2> QED
      BY <1>18, <1>19, <2>3 DEF Housing, t
  <1>24. Darkening'
    <2>1. lock' = lock
      BY DEF Plug
    <2>2. ASSUME Blank, NEW p \in Listed, t[p].enabled PROVE t[p].stuck
      <3>1. Alike(t[p], out[p])
        BY <1>1, <1>2, <1>17, <2>2
      <3> QED
        BY <2>2, <3>1 DEF Sound, Darkening, Alike
    <2> QED
      BY <1>18, <1>19, <2>1, <2>2 DEF Sound, Darkening, Blank, t
  <1>25. overrides' = overrides /\ crash' = crash /\ Quiet
    BY DEF Plug
  <1> QED
    BY <1>20, <1>21, <1>22, <1>23, <1>24, <1>25, QuietIs DEF Sound, Quiet

LEMMA UnplugKeeps ==
    ASSUME Races = {}, Sound, NEW o \in Outputs, Unplug(o)
    PROVE  Sound' /\ asked' = <<>>
  <1>1. /\ list \in Lists /\ Listed \subseteq Outputs /\ out \in States /\ Kempt(out)
        /\ \A p \in Outputs : out[p] \in Records /\ InStep(out[p])
        /\ list = <<>> <=> Listed = {}
    BY SoundIs, KemptIs DEF AllInStep
  <1>2. o \in Listed /\ (Len(list) = 1 \/ Refuge(out, list, o) # Noop)
    BY DEF Unplug
  <1> DEFINE r == Disable(out[o], TRUE)
             u == [out EXCEPT ![o] = r]
             d0 == [Desktop EXCEPT !.out = u]
             d == Evacuate(d0, list, o)
             v == [d.out EXCEPT ![o] = Absent]
             ls == RemoveFirst(list, o)
  <1>3. r \in Records /\ r.wants = out[o].wants
    <2>1. out[o] \in Records
      BY <1>1
    <2>2. r.wants = out[o].wants
      BY <2>1 DEF Disable, Records
    <2> QED
      BY <2>1, <2>2, SwitchType
  <1>4. [Desktop EXCEPT !.out[o] = Disable(out[o], TRUE)] = d0
    BY DEF Desktop
  <1>5. list' = ls /\ Land([d EXCEPT !.out = LayoutChange(v, list')])
    BY <1>4 DEF Unplug
  <1> HIDE DEF r
  <1>6. u \in States /\ u[o] = r /\ \A p \in Outputs \ {o} : u[p] = out[p]
    BY <1>1, <1>3 DEF States
  <1> HIDE DEF u
  <1>7. d0 \in Desktops /\ d0.out = u /\ d0.home = home /\ d0.current = current /\ d0.crash = FALSE
    BY <1>6 DEF Desktop, Desktops, Sound, Housing
  <1> HIDE DEF d0
  <1>8. /\ d \in Desktops /\ d.out = u /\ d.crash = FALSE
        /\ Another(u, list, o) => d.current # Noop /\ (home # Noop => d.home # Noop)
    <2>1. o \in ToSet(list)
      BY <1>2 DEF Listed
    <2> QED
      BY <1>1, <1>7, <2>1, EvacuateIs
  <1> HIDE DEF d
  <1>9. /\ ls \in Lists /\ ToSet(ls) = Listed \ {o} /\ Listed' = Listed \ {o}
        /\ ls = <<>> <=> ToSet(ls) = {}
    <2>1. ls \in Lists /\ ToSet(ls) = ToSet(list) \ {o}
      BY <1>1, Removed
    <2>2. ls = <<>> <=> ToSet(ls) = {}
      BY <2>1, SetOfSeq DEF Lists
    <2> QED
      BY <1>5, <2>1, <2>2 DEF Listed
  <1> HIDE DEF ls
  <1>10. ls # <<>> => Another(u, list, o) /\ \E p \in Listed : p # o /\ out[p].wants
    <2> SUFFICES ASSUME ls # <<>> PROVE Another(u, list, o) /\ \E p \in Listed : p # o /\ out[p].wants
      OBVIOUS
    <2>1. Refuge(out, list, o) # Noop
      <3>1. PICK p \in Listed : p # o
        BY <1>9
      <3>2. /\ \A p1 \in Listed : \E i \in 1 .. Len(list) : list[i] = p1
            /\ Len(list) \in Nat
        BY <1>1, SetOfSeq DEF Lists, Listed
      <3>3. Len(list) = 1 => p = list[1] /\ o = list[1]
        BY <1>2, <3>2
      <3> QED
        BY <1>2, <3>1, <3>3
    <2>2. NextOutput(out, list, o) # o
      BY <2>1 DEF Refuge
    <2>3. Another(out, list, o)
      BY <1>1, <1>2, <2>2, NextIs DEF Listed
    <2>4. PICK p \in Listed : p # o /\ out[p].wants
      BY <2>3 DEF Another, Listed
    <2>5. u[p].wants
      BY <1>1, <1>6, <2>4
    <2> QED
      BY <2>4, <2>5 DEF Another, Listed
  <1>11. Absent \in Records /\ Away(Absent) /\ InStep(Absent)
    BY Numbers DEF Absent, Records, Away, Links, Nowhere, InStep
  <1>12. v \in States /\ v[o] = Absent /\ \A p \in Outputs \ {o} : v[p] = out[p]
    BY <1>6, <1>8, <1>11 DEF States
  <1> DEFINE t == LayoutChange(v, ls)
  <1>13. out' = t /\ home' = d.home /\ current' = d.current /\ crash' = FALSE
    BY <1>5, <1>8 DEF Land
  <1> HIDE DEF v
  <1>14. /\ t \in States /\ t[o] = Absent
         /\ \A p \in Outputs : InStep(v[p]) => Alike(t[p], v[p])
    BY <1>9, <1>12, LayoutChangeIs
  <1> HIDE DEF t
  <1>15. ASSUME NEW p \in Outputs \ {o} PROVE Alike(t[p], out[p])
    BY <1>1, <1>12, <1>14
  <1>16. \A p \in Outputs : t[p] \in Records
    BY <1>14 DEF States
  <1>17. Kempt(out)'
    <2>1. ASSUME NEW p \in Listed \ {o} PROVE Good(t[p])
      <3>1. Good(out[p]) /\ p \in Outputs \ {o}
        BY <1>1 DEF Kempt
      <3> QED
        BY <1>1, <1>15, <1>16, <3>1, AlikeKeeps
    <2>2. ASSUME NEW p \in Outputs \ Listed PROVE Away(t[p])
      <3>1. Away(out[p]) /\ p \in Outputs \ {o}
        BY <1>1, <1>2 DEF Kempt
      <3>2. Alike(t[p], out[p])
        BY <1>15, <3>1
      <3> QED
        BY <3>1, <3>2 DEF Away, Alike
    <2>3. Away(t[o])
      BY <1>11, <1>14
    <2> QED
      BY <1>9, <1>13, <1>14, <2>1, <2>2, <2>3 DEF Kempt
  <1>18. Telling'
    <2>1. Broadcast(out', list', told)
      BY DEF Unplug
    <2> QED
      BY <1>5, <1>9, <1>13, <1>14, <2>1, BroadcastIs DEF Sound
  <1>19. Listing'
    BY <1>5, <1>9 DEF Unplug, Sound, Listing
  <1>20. Housing'
    <2>1. home' \in Places \cup {"closed"} /\ current' \in Places
      BY <1>8, <1>13 DEF Desktops
    <2>2. ASSUME list' # <<>> PROVE home' # Noop /\ current' # Noop /\ \E p \in Listed' : out'[p].wants
      <3>1. ls # <<>>
        BY <1>5, <2>2
      <3>2. home # Noop
        BY <1>1, <1>2 DEF Sound, Housing
      <3>3. home' # Noop /\ current' # Noop
        BY <1>8, <1>10, <1>13, <3>1, <3>2
      <3>4. PICK p \in Listed : p # o /\ out[p].wants
        BY <1>10, <3>1
      <3>5. p \in Listed' /\ Alike(out'[p], out[p])
        BY <1>1, <1>9, <1>13, <1>15, <3>4
      <3> QED
        BY <3>3, <3>4, <3>5 DEF Alike
    <2> QED
      BY <2>1, <2>2 DEF Housing
  <1>21. Darkening'
    <2>1. lock' = lock
      BY DEF Unplug
    <2>2. ASSUME Blank, NEW p \in Listed \ {o}, t[p].enabled PROVE t[p].stuck
      <3>1. Alike(t[p], out[p])
        BY <1>1, <1>15
      <3> QED
        BY <2>2, <3>1 DEF Sound, Darkening, Alike
    <2> QED
      BY <1>9, <1>13, <2>1, <2>2 DEF Sound, Darkening, Blank
  <1>22. overrides' = overrides /\ Quiet
    BY DEF Unplug
  <1> QED
    BY <1>13, <1>17, <1>18, <1>19, <1>20, <1>21, <1>22, QuietIs DEF Sound, Quiet

-----------------------------------------------------------------------------
(* A client's configuration *)

\* What WholeOrNothing says of a step that answers a configuration.
Whole ==
    /\ news' <= 1
    /\ \/ /\ answered' = "failed" /\ UNCHANGED <<home, current>>
          /\ \A o \in Outputs : Unbarred(out'[o]) = Unbarred(out[o])
       \/ /\ \A h \in ToSet(asked') :
                /\ out'[h.o].wants = h.on /\ out'[h.o].lit = h.on
                /\ h.on /\ answered' = "succeeded" => out'[h.o].x = h.x
          /\ \A o \in Outputs : (\A h \in ToSet(asked') : h.o # o)
                => Unbarred(out'[o]) = Unbarred(out[o])

LEMMA DesktopIs ==
    ASSUME Sound
    PROVE  /\ Desktop \in Desktops /\ Desktop.out = out /\ Desktop.home = home
           /\ Desktop.current = current /\ Desktop.news = 0 /\ Desktop.crash = FALSE
  <1>1. out \in States
    BY SoundIs
  <1> QED
    BY <1>1 DEF Desktop, Desktops, Sound, Housing

\* An answer with the outputs as they were, or one is due.
LEMMA AnswerKeeps ==
    ASSUME Sound, NEW heads, NEW ok \in BOOLEAN, NEW d \in Desktops, Answer(heads, ok, d),
           UNCHANGED <<list, present, lock, overrides>>,
           d.news = 0, d.crash = FALSE, NotStranded(Desktop, d), Kempt(d.out),
           list # <<>> => \E o \in Listed : d.out[o].wants,
           Blank => \A o \in Listed : d.out[o].enabled => d.out[o].stuck
    PROVE  /\ Sound' /\ asked' = heads /\ news' \in {0, 1} /\ out' = d.out
           /\ home' = d.home /\ current' = d.current
           /\ answered' = IF ok THEN "succeeded" ELSE "failed"
  <1>1. /\ asked' = heads /\ out' = d.out /\ home' = d.home /\ current' = d.current /\ crash' = FALSE
        /\ answered' = IF ok THEN "succeeded" ELSE "failed"
        /\ Broadcast(out', list, told)
        /\ news' = 0 \/ news' = 0 + 1
    BY DEF Answer, Land
  <1>2. d.out \in States /\ list \in Lists
    BY SoundIs DEF Desktops
  <1>3. Telling'
    BY <1>1, <1>2, BroadcastIs DEF Sound
  <1>4. Answering'
    BY <1>1 DEF Answering
  <1>5. /\ home' \in Places \cup {"closed"} /\ current' \in Places
        /\ list # <<>> => home' # Noop /\ current' # Noop
    BY <1>1, DesktopIs DEF NotStranded, Desktops, Sound, Housing
  <1>6. lock' \in {"open", "locked", "blank"} /\ overrides' \in BOOLEAN
    BY DEF Sound, Darkening
  <1>7. lock' = "blank" => \A o \in Listed : out'[o].enabled => out'[o].stuck
    BY <1>1 DEF Blank
  <1>8. Sound'
    BY <1>1, <1>3, <1>4, <1>5, <1>6, <1>7, SameList
  <1> QED
    BY <1>1, <1>8

LEMMA SameStays ==
    ASSUME Sound, NEW s \in States, \A o \in Outputs : Alike(s[o], out[o])
    PROVE  /\ Kempt(s)
           /\ list # <<>> => \E o \in Listed : s[o].wants
           /\ Blank => \A o \in Listed : s[o].enabled => s[o].stuck
           /\ \A o \in Outputs : Unbarred(s[o]) = Unbarred(out[o])
  <1>1. /\ list \in Lists /\ Listed \subseteq Outputs /\ Kempt(out)
        /\ \A o \in Outputs : out[o] \in Records /\ s[o] \in Records
    BY SoundIs DEF States
  <1>2. Kempt(s)
    BY <1>1, AlikeKempt
  <1>3. list # <<>> => \E o \in Listed : s[o].wants
    BY <1>1 DEF Sound, Housing, Alike
  <1>4. Blank => \A o \in Listed : s[o].enabled => s[o].stuck
    BY <1>1 DEF Sound, Darkening, Alike
  <1> QED
    BY <1>1, <1>2, <1>3, <1>4, AlikeIsUnbarred

LEMMA RefuseKeeps ==
    ASSUME Sound, NEW heads \in Configurations, NEW kind, Refuse(heads, kind)
    PROVE  Sound' /\ (asked' # <<>> => Whole)
  <1>1. \A o \in Outputs : Alike(out[o], out[o])
    BY SoundIs, AlikeItself
  <1>2. CASE kind = "test"
    <2>1. /\ answered' \in {"failed", "succeeded"} /\ asked' = <<>> /\ news' = 0
          /\ UNCHANGED <<told, missed, out, home, current, crash, list, present, lock, overrides>>
      BY <1>2 DEF Refuse
    <2>2. Telling'
      BY <2>1, UntoldIs DEF Sound
    <2>3. Answering'
      BY <2>1 DEF Answering
    <2> QED
      BY <2>1, <2>2, <2>3, SameList DEF Sound, Housing, Darkening, Blank
  <1>3. CASE kind # "test"
    <2>1. Answer(heads, FALSE, Desktop) /\ UNCHANGED <<list, present, lock, overrides>>
      BY <1>3 DEF Refuse
    <2>2. /\ Desktop \in Desktops /\ Desktop.out = out /\ Desktop.home = home
          /\ Desktop.current = current /\ Desktop.news = 0 /\ Desktop.crash = FALSE
      BY DesktopIs
    <2>3. NotStranded(Desktop, Desktop) /\ Kempt(Desktop.out)
      BY <2>2, SoundIs DEF NotStranded
    <2>4. /\ list # <<>> => \E o \in Listed : Desktop.out[o].wants
          /\ Blank => \A o \in Listed : Desktop.out[o].enabled => Desktop.out[o].stuck
      BY <2>2 DEF Sound, Housing, Darkening
    <2>5. /\ Sound' /\ asked' = heads /\ news' \in {0, 1} /\ out' = out
          /\ home' = home /\ current' = current /\ answered' = "failed"
      BY <2>1, <2>2, <2>3, <2>4, AnswerKeeps
    <2> QED
      BY <2>5 DEF Whole
  <1> QED
    BY <1>2, <1>3

LEMMA ApplyFailsKeeps ==
    ASSUME Sound, NEW heads \in Configurations, NEW n \in 1 .. Len(heads), ApplyFails(heads, n)
    PROVE  Sound' /\ (asked' # <<>> => Whole)
  <1> DEFINE hs == SubSeq(heads, 1, n)
             e == DetachAll(AttachAll(Desktop, Coming(hs)), Coming(hs))
  <1>1. hs \in Seq(HeadState) /\ ToSet(hs) \subseteq ToSet(heads)
    <2>1. /\ heads \in Seq(HeadState) /\ Len(heads) \in Nat /\ n \in Nat /\ n <= Len(heads)
          /\ \A i \in 1 .. Len(heads) : heads[i] \in ToSet(heads) /\ heads[i] \in HeadState
      BY Heads
    <2>2. \A i \in 1 .. n : heads[i] \in HeadState
      BY <2>1
    <2>3. /\ hs \in Seq(HeadState)
          /\ Len(hs) = IF 1 <= n THEN n - 1 + 1 ELSE 0
          /\ \A i \in 1 .. n - 1 + 1 : hs[i] = heads[1 + i - 1]
      BY <2>1, <2>2, SubSeqProperties
    <2> HIDE DEF hs
    <2>4. Len(hs) = n /\ DOMAIN hs = 1 .. Len(hs)
      BY <2>1, <2>3, LenProperties
    <2>5. \A i \in 1 .. n : hs[i] = heads[i]
      BY <2>1, <2>3
    <2>6. ASSUME NEW h \in ToSet(hs) PROVE h \in ToSet(heads)
      <3>1. PICK i \in 1 .. n : hs[i] = h
        BY <2>4 DEF ToSet
      <3> QED
        BY <2>1, <2>5, <3>1
    <2> QED
      BY <2>3, <2>6
  <1> HIDE DEF hs
  <1>2. /\ Desktop \in Desktops /\ Desktop.out = out /\ Desktop.home = home
        /\ Desktop.current = current /\ Desktop.news = 0 /\ Desktop.crash = FALSE
    BY DesktopIs
  <1>3. Known(heads) /\ Answer(heads, FALSE, e) /\ UNCHANGED <<list, present, lock, overrides>>
    BY DEF ApplyFails, hs
  <1>4. Kempt(out) /\ list \in Lists
    BY SoundIs
  <1>5. e = DetachAll(AttachAll(Desktop, Coming(hs)), Coming(hs))
    OBVIOUS
  <1> HIDE DEF e
  <1>6. /\ e \in Desktops /\ e.home = home /\ e.current = current /\ e.news = 0
        /\ e.crash = FALSE /\ \A o \in Outputs : Alike(e.out[o], out[o])
    BY <1>1, <1>2, <1>3, <1>4, <1>5, RefusedIs
  <1>7. e.out \in States
    BY <1>6 DEF Desktops
  <1>8. /\ Kempt(e.out)
        /\ list # <<>> => \E o \in Listed : e.out[o].wants
        /\ Blank => \A o \in Listed : e.out[o].enabled => e.out[o].stuck
        /\ \A o \in Outputs : Unbarred(e.out[o]) = Unbarred(out[o])
    BY <1>6, <1>7, SameStays
  <1>9. NotStranded(Desktop, e)
    BY <1>2, <1>6 DEF NotStranded
  <1>10. /\ Sound' /\ news' \in {0, 1} /\ out' = e.out
         /\ home' = home /\ current' = current /\ answered' = "failed"
    BY <1>3, <1>6, <1>8, <1>9, AnswerKeeps
  <1> QED
    BY <1>8, <1>10 DEF Whole

LEMMA ApplyKeeps ==
    ASSUME Races = {}, Sound, NEW heads \in Configurations, Apply(heads)
    PROVE  Sound' /\ (asked' # <<>> => Whole)
  <1>1. /\ Known(heads) /\ LightsNoDark(heads) /\ KeepsOne(heads)
        /\ UNCHANGED <<list, present, lock, overrides>>
    BY DEF Apply
  <1> DEFINE ready == Committed(AttachAll(Desktop, Coming(heads)), heads)
             e(lost) == Settle(ready, heads, lost)
  <1>2. PICK lost : Answer(heads, lost = {}, e(lost))
    BY DEF Apply
  <1>3. /\ Desktop \in Desktops /\ Desktop.out = out /\ Desktop.home = home
        /\ Desktop.current = current /\ Desktop.news = 0 /\ Desktop.crash = FALSE
    BY DesktopIs
  <1>4. /\ list \in Lists /\ Listed \subseteq Outputs /\ Kempt(out)
        /\ \A o \in Outputs : out[o] \in Records
        /\ list = <<>> <=> Listed = {}
    BY SoundIs
  <1>5. /\ Len(heads) \in Nat /\ 1 \in 1 .. Len(heads)
        /\ \A i \in 1 .. Len(heads) : heads[i] \in HeadState /\ heads[i] \in ToSet(heads)
        /\ \A h \in ToSet(heads) : \E i \in 1 .. Len(heads) : heads[i] = h
        /\ \A i \in 1 .. Len(heads) : heads[i].o \in Listed
    BY <1>1, Heads DEF Known
  <1>6. list # <<>> /\ \E o \in Listed : out[o].wants
    <2>1. Listed # {}
      BY <1>5
    <2> QED
      BY <1>4, <2>1 DEF Sound, Housing
  <1>7. ready = Committed(AttachAll(Desktop, Coming(heads)), heads)
    OBVIOUS
  <1> HIDE DEF ready
  <1>8. /\ ready \in Desktops /\ ready.home = home /\ ready.current = current /\ ready.news = 0
        /\ ready.crash = FALSE /\ ReadyFor(ready, heads)
        /\ \A o \in Outputs : (\A i \in 1 .. Len(heads) : heads[i].o # o) => Alike(ready.out[o], out[o])
    BY <1>1, <1>3, <1>4, <1>6, <1>7, ReadyIs
  <1> DEFINE s == e(lost)
  <1>9. s = Settle(ready, heads, lost)
    OBVIOUS
  <1> HIDE DEF e, s
  <1>10. s \in Desktops /\ Settled(ready, s, heads, Len(heads), lost)
    BY <1>1, <1>4, <1>8, <1>9, SettleIs
  <1>11. \A o \in Outputs : ready.out[o] \in Records /\ s.out[o] \in Records
    BY <1>8, <1>10 DEF Desktops, States
  <1>12. ASSUME NEW o \in Outputs, \A i \in 1 .. Len(heads) : heads[i].o # o
         PROVE  Alike(s.out[o], out[o])
    <2>1. Alike(s.out[o], ready.out[o]) /\ Alike(ready.out[o], out[o])
      BY <1>8, <1>10, <1>12 DEF Settled
    <2> QED
      BY <1>4, <1>11, <2>1, AlikeOnce
  <1>13. ASSUME NEW i \in 1 .. Len(heads) PROVE Done(s.out[heads[i].o], heads[i], lost)
    BY <1>10 DEF Settled
  <1>14. Kempt(s.out)
    <2>1. ASSUME NEW o \in Listed PROVE Good(s.out[o])
      <3>1. CASE \E i \in 1 .. Len(heads) : heads[i].o = o
        BY <1>13, <3>1 DEF Done
      <3>2. CASE \A i \in 1 .. Len(heads) : heads[i].o # o
        <4>1. o \in Outputs /\ Good(out[o])
          BY <1>4 DEF Kempt
        <4>2. Alike(s.out[o], out[o])
          BY <1>12, <3>2, <4>1
        <4> QED
          BY <1>4, <1>11, <4>1, <4>2, AlikeKeeps
      <3> QED
        BY <3>1, <3>2
    <2>2. ASSUME NEW o \in Outputs \ Listed PROVE Away(s.out[o])
      <3>1. Away(out[o]) /\ \A i \in 1 .. Len(heads) : heads[i].o # o
        BY <1>4, <1>5 DEF Kempt
      <3>2. Alike(s.out[o], out[o])
        BY <1>12, <3>1
      <3> QED
        BY <3>1, <3>2 DEF Away, Alike
    <2> QED
      BY <1>10, <2>1, <2>2 DEF Kempt, Desktops
  <1>15. /\ s.news = 0 /\ s.crash = FALSE /\ NotStranded(Desktop, s)
         /\ \E o \in Listed : s.out[o].wants
    BY <1>3, <1>8, <1>10 DEF Settled, NotStranded
  <1>16. Blank => \A o \in Listed : s.out[o].enabled => s.out[o].stuck
    <2> SUFFICES ASSUME Blank, NEW o \in Listed, s.out[o].enabled PROVE s.out[o].stuck
      OBVIOUS
    <2>1. ASSUME NEW i \in 1 .. Len(heads) PROVE heads[i].o # o
      <3>1. ~heads[i].on /\ Done(s.out[heads[i].o], heads[i], lost)
        BY <1>1, <1>5, <1>13 DEF LightsNoDark, Known
      <3> QED
        BY <3>1 DEF Done, Good, Fit
    <2>2. Alike(s.out[o], out[o])
      BY <1>4, <1>12, <2>1
    <2> QED
      BY <2>2 DEF Alike, Sound, Darkening
  <1>17. Answer(heads, lost = {}, s)
    BY <1>2 DEF s
  <1>18. /\ Sound' /\ asked' = heads /\ news' \in {0, 1} /\ out' = s.out
         /\ answered' = IF lost = {} THEN "succeeded" ELSE "failed"
    <2> DEFINE ok == lost = {}
    <2>1. ok \in BOOLEAN /\ Answer(heads, ok, s)
      BY <1>17
    <2> HIDE DEF ok
    <2>2. /\ Sound' /\ asked' = heads /\ news' \in {0, 1} /\ out' = s.out
          /\ answered' = IF ok THEN "succeeded" ELSE "failed"
      BY <1>1, <1>10, <1>14, <1>15, <1>16, <2>1, AnswerKeeps
    <2> QED
      BY <2>2 DEF ok
  <1>19. ASSUME NEW h \in ToSet(heads)
         PROVE  /\ out'[h.o].wants = h.on /\ out'[h.o].lit = h.on
                /\ h.on /\ answered' = "succeeded" => out'[h.o].x = h.x
    <2>1. PICK i \in 1 .. Len(heads) : heads[i] = h
      BY <1>5
    <2>2. Done(out'[h.o], h, lost)
      BY <1>13, <1>18, <2>1
    <2>3. answered' = "succeeded" => h.o \notin lost
      BY <1>18
    <2> QED
      BY <2>2, <2>3 DEF Done
  <1>20. ASSUME NEW o \in Outputs, \A h \in ToSet(heads) : h.o # o
         PROVE  Unbarred(out'[o]) = Unbarred(out[o])
    <2>1. Alike(s.out[o], out[o])
      BY <1>5, <1>12, <1>20
    <2> QED
      BY <1>4, <1>11, <1>18, <2>1, AlikeIsUnbarred
  <1> QED
    BY <1>18, <1>19, <1>20 DEF Whole

-----------------------------------------------------------------------------
(* The lock, the backend, the configuration and the user *)

\* A step that tells nothing, keeps the list and leaves each listed output at rest.
LEMMA SilentKeeps ==
    ASSUME Sound, UNCHANGED <<list, present, overrides, told, missed>>, crash' = FALSE, Quiet,
           Kempt(out'),
           \A o \in Listed : out'[o].gx = out[o].gx /\ out'[o].wants = out[o].wants,
           home' \in Places \cup {"closed"}, current' \in Places,
           list # <<>> => home' # Noop /\ current' # Noop,
           lock' \in {"open", "locked", "blank"},
           lock' = "blank" => \A o \in Listed : out'[o].enabled => out'[o].stuck
    PROVE  Sound' /\ asked' = <<>>
  <1>1. Telling'
    BY UntoldIs DEF Sound
  <1>2. list # <<>> => \E o \in Listed : out'[o].wants
    BY DEF Sound, Housing
  <1> QED
    BY <1>1, <1>2, QuietIs, SameList DEF Sound, Quiet

LEMMA LockKeeps ==
    ASSUME Sound, Lock
    PROVE  Sound' /\ asked' = <<>>
  BY SoundIs, SilentKeeps DEF Lock, Sound, Housing

\* Switching off and on leaves an output at rest.
LEMMA SwitchedIs ==
    ASSUME NEW r \in Records, Good(r), NEW ok \in BOOLEAN
    PROVE  /\ Good(Disable(r, ok)) /\ Disable(r, ok).gx = r.gx /\ Disable(r, ok).wants = r.wants
           /\ Disable(r, ok).enabled => Disable(r, ok).stuck
           /\ r.wants => Good(Enable(r, ok))
           /\ Enable(r, ok).gx = r.gx /\ Enable(r, ok).wants = r.wants
  <1>1. /\ Good(Disable(r, ok)) /\ Disable(r, ok).gx = r.gx /\ Disable(r, ok).wants = r.wants
        /\ Disable(r, ok).enabled => Disable(r, ok).stuck
    BY DEF Disable, Good, Fit, InStep, Records, Links
  <1> DEFINE link1 == IF r.link = "init" THEN "in" ELSE r.link
  <1>2. Enable(r, ok) = IF ~r.enabled /\ ok
                        THEN [r EXCEPT !.lit = TRUE, !.enabled = TRUE, !.link = link1] ELSE r
    BY DEF Enable, Records
  <1>3. ~r.enabled => r.link = "init" /\ link1 = "in"
    BY DEF Good, Fit, Records, Links
  <1> HIDE DEF link1
  <1>4. Enable(r, ok).gx = r.gx /\ Enable(r, ok).wants = r.wants
    BY <1>2 DEF Records
  <1>5. r.wants => Good(Enable(r, ok))
    BY <1>2, <1>3 DEF Good, Fit, InStep, Records
  <1> QED
    BY <1>1, <1>4, <1>5

LEMMA DisableOutputsHandlerKeeps ==
    ASSUME Sound, DisableOutputsHandler
    PROVE  Sound' /\ asked' = <<>>
  <1>1. /\ list \in Lists /\ Listed \subseteq Outputs /\ out \in States /\ Kempt(out)
        /\ \A o \in Outputs : out[o] \in Records
        /\ \A o \in Listed : Good(out[o])
        /\ \A o \in Outputs \ Listed : Away(out[o])
    BY SoundIs
  <1>2. PICK failing : out' = [o \in Outputs |-> IF o \in Listed THEN Disable(out[o], o \notin failing)
                                                                 ELSE out[o]]
    BY DEF DisableOutputsHandler
  <1>3. ASSUME NEW o \in Listed
        PROVE  /\ out'[o] \in Records /\ Good(out'[o]) /\ out'[o].gx = out[o].gx
               /\ out'[o].wants = out[o].wants /\ (out'[o].enabled => out'[o].stuck)
    <2> DEFINE ok == o \notin failing
    <2>1. out'[o] = Disable(out[o], ok) /\ ok \in BOOLEAN /\ out[o] \in Records /\ Good(out[o])
      BY <1>1, <1>2
    <2> HIDE DEF ok
    <2> QED
      BY <2>1, SwitchType, SwitchedIs
  <1>4. \A o \in Outputs \ Listed : out'[o] = out[o]
    BY <1>2
  <1>5. Kempt(out')
    <2>1. out' \in States
      <3>1. \A o \in Outputs : out'[o] \in Records
        BY <1>1, <1>3, <1>4
      <3> QED
        BY <1>2, <3>1 DEF States
    <2> QED
      BY <1>1, <1>3, <1>4, <2>1 DEF Kempt
  <1> QED
    BY <1>3, <1>5, SilentKeeps DEF DisableOutputsHandler, Sound, Housing

LEMMA EnableOutputsKeeps ==
    ASSUME Sound, NEW unlock \in BOOLEAN, EnableOutputs(unlock)
    PROVE  Sound' /\ asked' = <<>>
  <1>1. /\ list \in Lists /\ Listed \subseteq Outputs /\ out \in States /\ Kempt(out)
        /\ \A o \in Outputs : out[o] \in Records
        /\ \A o \in Listed : Good(out[o])
        /\ \A o \in Outputs \ Listed : Away(out[o])
    BY SoundIs
  <1>2. PICK failing : out' = LitAgain(failing)
    BY DEF EnableOutputs
  <1> DEFINE r(o) == [out[o] EXCEPT !.stuck = FALSE]
  <1>3. out' = [o \in Outputs |-> IF o \in Listed /\ r(o).wants THEN Enable(r(o), o \notin failing) ELSE r(o)]
    BY <1>2 DEF LitAgain
  <1>4. ASSUME NEW o \in Outputs
        PROVE  /\ r(o) \in Records /\ r(o).gx = out[o].gx /\ r(o).wants = out[o].wants
               /\ Good(out[o]) => Good(r(o))
               /\ Away(out[o]) => Away(r(o))
    <2>1. out[o] \in Records
      BY <1>1
    <2> QED
      BY <2>1 DEF Records, Good, Fit, InStep, Away
  <1>5. ASSUME NEW o \in Listed
        PROVE  /\ out'[o] \in Records /\ Good(out'[o]) /\ out'[o].gx = out[o].gx
               /\ out'[o].wants = out[o].wants
    <2> DEFINE ok == o \notin failing
    <2>1. /\ out'[o] = IF r(o).wants THEN Enable(r(o), ok) ELSE r(o)
          /\ ok \in BOOLEAN /\ r(o) \in Records /\ Good(r(o))
          /\ r(o).gx = out[o].gx /\ r(o).wants = out[o].wants
      BY <1>1, <1>3, <1>4
    <2> HIDE DEF ok, r
    <2>2. /\ Enable(r(o), ok) \in Records /\ (r(o).wants => Good(Enable(r(o), ok)))
          /\ Enable(r(o), ok).gx = r(o).gx /\ Enable(r(o), ok).wants = r(o).wants
      BY <2>1, SwitchType, SwitchedIs
    <2> QED
      BY <2>1, <2>2
  <1>6. ASSUME NEW o \in Outputs \ Listed PROVE out'[o] \in Records /\ Away(out'[o])
    <2>1. out'[o] = r(o)
      BY <1>3
    <2> QED
      BY <1>1, <1>4, <2>1
  <1> HIDE DEF r
  <1>7. Kempt(out')
    <2>1. out' \in States
      <3>1. \A o \in Outputs : out'[o] \in Records
        BY <1>5, <1>6
      <3> QED
        BY <1>3, <3>1 DEF States
    <2> QED
      BY <1>5, <1>6, <2>1 DEF Kempt
  <1>8. lock' \in {"open", "locked"}
    BY DEF EnableOutputs
  <1> QED
    BY <1>5, <1>7, <1>8, SilentKeeps DEF EnableOutputs, Sound, Housing

LEMMA RequestStateKeeps ==
    ASSUME Sound, NEW o \in Outputs, NEW on \in BOOLEAN, RequestState(o, on)
    PROVE  Sound' /\ asked' = <<>>
  <1>1. /\ list \in Lists /\ Listed \subseteq Outputs /\ out \in States /\ Kempt(out)
        /\ \A p \in Outputs : out[p] \in Records
        /\ \A p \in Listed : Good(out[p])
        /\ \A p \in Outputs \ Listed : Away(out[p])
    BY SoundIs
  <1> DEFINE r == out[o]
             q == [r EXCEPT !.lit = on]
  <1>2. out' = [out EXCEPT ![o] = q]
    BY DEF RequestState
  <1>3. r \in Records /\ r.link = "in"
    BY <1>1 DEF RequestState
  <1>4. o \in Listed
    BY <1>1, <1>3 DEF Away
  <1>5. Good(r) /\ r.enabled
    BY <1>1, <1>3, <1>4 DEF Good, Fit
  <1> HIDE DEF r
  <1>6. q \in Records /\ Good(q) /\ q.gx = r.gx /\ q.wants = r.wants /\ q.enabled = r.enabled /\ q.stuck = r.stuck
    BY <1>3, <1>5 DEF Records, Good, Fit, InStep
  <1> HIDE DEF q
  <1>7. out' \in States /\ out'[o] = q /\ \A p \in Outputs \ {o} : out'[p] = out[p]
    BY <1>1, <1>2, <1>6 DEF States
  <1>8. Kempt(out')
    BY <1>1, <1>4, <1>6, <1>7 DEF Kempt
  <1>9. \A p \in Listed : /\ out'[p].gx = out[p].gx /\ out'[p].wants = out[p].wants
                          /\ out'[p].enabled = out[p].enabled /\ out'[p].stuck = out[p].stuck
    BY <1>1, <1>6, <1>7 DEF r
  <1>10. lock' = "blank" => \A p \in Listed : out'[p].enabled => out'[p].stuck
    BY <1>9 DEF RequestState, Sound, Darkening, Blank
  <1> QED
    BY <1>8, <1>9, <1>10, SilentKeeps DEF RequestState, Sound, Housing, Darkening

LEMMA ReloadKeeps ==
    ASSUME Sound, NEW leads \in BOOLEAN, NEW S \in SUBSET Outputs, NEW to \in [S -> Xs],
           Reload(leads, to)
    PROVE  Sound' /\ asked' = <<>>
  <1>1. list \in Lists /\ Kempt(out) /\ out \in States
    BY SoundIs
  <1> DEFINE t == Repositioned(to)
  <1>2. t = Repositioned(to) /\ \A p \in DOMAIN to : to[p] \in Xs
    OBVIOUS
  <1>3. out' = out \/ out' = t
    BY DEF Reload
  <1> HIDE DEF t
  <1>4. Kempt(t) /\ \A o \in Outputs : t[o].wants = out[o].wants
    BY <1>1, <1>2, ReloadIs
  <1>5. Kempt(out') /\ out' \in States /\ \A o \in Outputs : out'[o].wants = out[o].wants
    BY <1>1, <1>3, <1>4 DEF Kempt
  <1>6. /\ lock' = "open" /\ overrides' = leads /\ Quiet
        /\ UNCHANGED <<list, present, home, current, lock, crash>>
        /\ IF out' = out THEN UNCHANGED <<told, missed>> ELSE Broadcast(out', list, told)
    BY DEF Reload
  <1>7. Telling'
    <2>1. CASE out' = out
      BY <1>6, <2>1, UntoldIs DEF Sound
    <2>2. CASE out' # out
      BY <1>1, <1>5, <1>6, <2>2, BroadcastIs DEF Sound
    <2> QED
      BY <2>1, <2>2
  <1>8. list # <<>> => \E o \in Listed : out'[o].wants
    BY <1>5, SoundIs DEF Sound, Housing
  <1>9. /\ home' \in Places \cup {"closed"} /\ current' \in Places
        /\ list # <<>> => home' # Noop /\ current' # Noop
    BY <1>6 DEF Sound, Housing
  <1>10. Sound'
    BY <1>5, <1>6, <1>7, <1>8, <1>9, QuietIs, SameList DEF Sound
  <1> QED
    BY <1>6, <1>10 DEF Quiet

LEMMA RefreshBarsKeeps ==
    ASSUME Sound, RefreshBars
    PROVE  Sound' /\ asked' = <<>>
  <1>1. /\ list \in Lists /\ Listed \subseteq Outputs /\ out \in States /\ Kempt(out)
        /\ \A p \in Outputs : out[p] \in Records
    BY SoundIs
  <1>2. ASSUME NEW r \in Records PROVE RefreshBar(r) \in Records /\ Alike(RefreshBar(r), r) /\ Alike(r, r)
    BY DEF RefreshBar, Records, Alike
  <1>3. out' = [o \in Outputs |-> IF o \in Listed THEN RefreshBar(out[o]) ELSE out[o]]
    BY DEF RefreshBars
  <1>4. \A o \in Outputs : out'[o] \in Records /\ Alike(out'[o], out[o])
    BY <1>1, <1>2, <1>3
  <1>5. out' \in States
    BY <1>3, <1>4 DEF States
  <1>6. Kempt(out')
    BY <1>1, <1>4, <1>5, AlikeKempt
  <1>7. \A o \in Listed : /\ out'[o].gx = out[o].gx /\ out'[o].wants = out[o].wants
                          /\ out'[o].enabled = out[o].enabled /\ out'[o].stuck = out[o].stuck
    BY <1>1, <1>4 DEF Alike
  <1>8. lock' = "blank" => \A o \in Listed : out'[o].enabled => out'[o].stuck
    BY <1>7 DEF RefreshBars, Sound, Darkening, Blank
  <1> QED
    BY <1>6, <1>7, <1>8, SilentKeeps DEF RefreshBars, Sound, Housing, Darkening

LEMMA UseKeeps ==
    ASSUME Sound, Use
    PROVE  Sound' /\ asked' = <<>>
  <1>1. Listed \subseteq Outputs /\ Kempt(out)
    BY SoundIs
  <1>2. /\ home' \in Places \cup {"closed"} /\ current' \in Places
        /\ list # <<>> => home' # Noop /\ current' # Noop
    BY <1>1, OutputsAssumption DEF Use, Sound, Housing, Places
  <1>3. /\ UNCHANGED <<out, list, present, lock, overrides, told, missed, crash>> /\ Quiet
    BY DEF Use
  <1>4. lock' = "blank" => \A o \in Listed : out'[o].enabled => out'[o].stuck
    BY <1>3 DEF Sound, Darkening, Blank
  <1> QED
    BY <1>1, <1>2, <1>3, <1>4, SilentKeeps DEF Sound, Darkening

LEMMA CycleWorkspaceKeeps ==
    ASSUME Races = {}, Sound, CycleWorkspace
    PROVE  Sound' /\ asked' = <<>>
  <1>1. Kempt(out) /\ list \in Lists /\ out \in States
    BY SoundIs
  <1>2. current # Noop /\ current' = NextOutput(out, list, current) /\ crash' = crash
    BY DEF CycleWorkspace
  <1>3. current \in Outputs
    BY <1>2 DEF Sound, Housing, Places
  <1>4. current' \in Places /\ current' # Noop
    BY <1>1, <1>2, <1>3, NextIs, OutputsAssumption DEF Places
  <1>5. /\ UNCHANGED <<out, list, present, home, lock, overrides, told, missed>> /\ Quiet
    BY DEF CycleWorkspace
  <1>6. lock' = "blank" => \A o \in Listed : out'[o].enabled => out'[o].stuck
    BY <1>5 DEF Sound, Darkening, Blank
  <1> QED
    BY <1>1, <1>2, <1>4, <1>5, <1>6, SilentKeeps DEF Sound, Housing, Darkening

-----------------------------------------------------------------------------
(* The theorems *)

LEMMA Stays ==
    ASSUME Sound, UNCHANGED outputVars
    PROVE  Sound'
  <1> USE DEF outputVars
  <1>1. Listed' = Listed
    BY DEF Listed
  <1>2. Kempt(out)' /\ Listing' /\ Housing' /\ Darkening' /\ Answering'
    BY <1>1 DEF Sound, Kempt, Listing, Housing, Darkening, Answering, Blank
  <1>3. Telling'
    <2>1. out' = out
      OBVIOUS
    <2> QED
      BY <2>1, UntoldIs DEF Sound
  <1> QED
    BY <1>2, <1>3 DEF Sound

\* Each step keeps the invariant, and answers a configuration whole.
LEMMA NextKeeps ==
    ASSUME Races = {}, Sound, OutputsNext
    PROVE  Sound' /\ (asked' # <<>> => Whole)
  <1>1. ASSUME NEW o \in Outputs, PlugUnlit(o) \/ PlugUnplaced(o) \/ Plug(o) \/ Unplug(o)
        PROVE  Sound' /\ asked' = <<>>
    BY <1>1, PlugUnlitKeeps, PlugUnplacedKeeps, PlugKeeps, UnplugKeeps
  <1>2. ASSUME NEW heads \in Configurations,
               \/ \E kind \in {"test", "apply"} : Refuse(heads, kind)
               \/ \E n \in 1 .. Len(heads) : ApplyFails(heads, n)
               \/ Apply(heads)
        PROVE  Sound' /\ (asked' # <<>> => Whole)
    BY <1>2, RefuseKeeps, ApplyFailsKeeps, ApplyKeeps
  <1>3. CASE Lock \/ DisableOutputsHandler \/ \E unlock \in BOOLEAN : EnableOutputs(unlock)
    BY <1>3, LockKeeps, DisableOutputsHandlerKeeps, EnableOutputsKeeps
  <1>4. CASE \E o \in Outputs, on \in BOOLEAN : RequestState(o, on)
    BY <1>4, RequestStateKeeps
  <1>5. CASE \E leads \in BOOLEAN : \E S \in SUBSET Outputs : \E to \in [S -> Xs] : Reload(leads, to)
    BY <1>5, ReloadKeeps
  <1>6. CASE RefreshBars \/ Use \/ CycleWorkspace
    BY <1>6, RefreshBarsKeeps, UseKeeps, CycleWorkspaceKeeps
  <1> QED
    BY <1>1, <1>2, <1>3, <1>4, <1>5, <1>6 DEF OutputsNext, ManagementNext

(* The invariant holds in every state, for any monitors, places and failures
   (output.c, output_management.c, lock_mode.c, the outputs of
   configuration.c). *)
THEOREM OutputsSound ==
    ASSUME Races = {}
    PROVE  OutputsSpec => []Sound
  <1>1. Sound /\ [OutputsNext]_outputVars => Sound'
    BY NextKeeps, Stays
  <1> QED
    BY <1>1, SoundAtFirst, PTL DEF OutputsSpec

(* However monitors come, go and are configured, and whichever of the calls for
   it fail, clients were last told the present list and places of the monitors
   unless the last publication itself failed. *)
THEOREM OutputsPublished ==
    ASSUME Races = {}
    PROVE  OutputsSpec => []PublishedIsCurrent
  <1>1. Sound => PublishedIsCurrent
    BY DEF Sound, Telling
  <1> QED
    BY <1>1, OutputsSound, PTL

(* Every listed monitor is wholly part of the desktop or not at all, no link is
   left loose, no window is on the fallback while a monitor is part of the
   desktop, and no step follows NULL looking for the next one. *)
THEOREM OutputsConsistent ==
    ASSUME Races = {}
    PROVE  OutputsSpec => []DesktopConsistent
  <1>1. ASSUME Sound PROVE DesktopConsistent
    <2>1. /\ list \in Lists /\ Listed \subseteq Outputs /\ out \in States /\ Kempt(out)
          /\ \A o \in Outputs : out[o] \in Records
          /\ \A o \in Listed : Good(out[o])
          /\ \A o \in Outputs \ Listed : Away(out[o])
          /\ list = <<>> <=> Listed = {}
          /\ \A o \in Outputs : out[o].enabled <=> out[o].link = "in"
      BY <1>1, SoundIs, KemptIs
    <2>2. OutputsTypeOK
      BY <1>1, <2>1 DEF OutputsTypeOK, Sound, Listing, Telling, Answering, Housing, Darkening, States,
                        Records, Lists
    <2>3. ASSUME NEW o \in Listed
          PROVE  /\ out[o].wants <=> out[o].scene
                 /\ out[o].wants <=> out[o].x # Nowhere
                 /\ out[o].link # "loose"
                 /\ out[o].bar => out[o].x # Nowhere
      <3>1. out[o] \in Records /\ Good(out[o])
        BY <2>1
      <3> QED
        BY <3>1 DEF Good, Fit, Records
    <2>4. \A o \in Outputs \ Listed : ~out[o].enabled /\ out[o].x = Nowhere
      BY <2>1 DEF Away
    <2>5. (\E o \in Listed : out[o].wants) => home # Noop
      BY <1>1, <2>1 DEF Sound, Housing
    <2>6. ~crash
      BY <1>1 DEF Sound
    <2> QED
      BY <2>1, <2>2, <2>3, <2>4, <2>5, <2>6 DEF DesktopConsistent
  <1> QED
    BY <1>1, OutputsSound, PTL

(* While the lock keeps the screens dark no monitor is lit but one whose commit
   failed. *)
THEOREM OutputsStayDark ==
    ASSUME Races = {}
    PROVE  OutputsSpec => []DarkStaysDark
  <1>1. Sound => DarkStaysDark
    BY SoundIs DEF Sound, Darkening, DarkStaysDark, Good
  <1> QED
    BY <1>1, OutputsSound, PTL

(* A client's configuration of any number of heads in any order is applied as a
   whole or not at all, whichever head fails, and what other monitors are is not
   touched by it. *)
THEOREM OutputsWhole ==
    ASSUME Races = {}
    PROVE  OutputsSpec => WholeOrNothing
  <1>1. Sound /\ [OutputsNext]_outputVars => [asked' # <<>> => Whole]_outputVars
    BY NextKeeps
  <1>2. [asked' # <<>> => Whole]_outputVars => [asked' # <<>> =>
        /\ news' <= 1
        /\ \/ /\ answered' = "failed" /\ UNCHANGED <<home, current>>
              /\ \A o \in Outputs : Unbarred(out'[o]) = Unbarred(out[o])
           \/ /\ \A h \in ToSet(asked') :
                    /\ out'[h.o].wants = h.on /\ out'[h.o].lit = h.on
                    /\ h.on /\ answered' = "succeeded" => out'[h.o].x = h.x
              /\ \A o \in Outputs : (\A h \in ToSet(asked') : h.o # o)
                    => Unbarred(out'[o]) = Unbarred(out[o])]_outputVars
    BY DEF Whole
  <1> QED
    BY <1>1, <1>2, OutputsSound, PTL DEF OutputsSpec, WholeOrNothing
=============================================================================
