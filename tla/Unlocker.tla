------------------------------ MODULE Unlocker ------------------------------
(***************************************************************************)
(* The screen locker and its PAM helper (src/src/lock_mode.c and           *)
(* src/hikari_unlocker.c).                                                 *)
(*                                                                         *)
(* The compositor is one thread: each of its handlers below is one action. *)
(* A helper is a process of its own, forked by start_unlocker(), that      *)
(* reads framed requests from one pipe and writes replies to another; its  *)
(* actions interleave freely with the compositor's.                        *)
(*                                                                         *)
(* A key press carries one keysym.  The two descriptors the compositor     *)
(* holds on a helper, locker_pipe[0][1] and locker_pipe[1][0], are opened  *)
(* together and closed together in every handler, so one variable, pipe,   *)
(* stands for both and names the helper at the other end.                  *)
(***************************************************************************)
EXTENDS Integers, Sequences, FiniteSets

CONSTANTS Pids,          \* process ids fork() can return, none twice
          NoPid,         \* the -1 of locker_pid and locker_pipe
          Bytes,         \* bytes of a typed text
          Keys,          \* UTF-8 encodings of the characters a key can type
          Password,      \* the text PAM accepts
          NoAttempt,     \* no undecided attempt
          BufferSize,    \* BUFFER_SIZE, and the helper's INPUT_BUFFER_SIZE
          PendingSlots,  \* HIKARI_MAX_PENDING_LOCKERS
          MaxSeq,        \* bound on the attempts of a behaviour
          BlankTimeouts, \* seconds the configured blank timeouts can give
          Faults         \* the calls that may fail: "pipe", "fork", "source"
                         \* (add_fd), "timer" (add_timer); "helper": it dies

ASSUME PidAssumption == NoPid \notin Pids
ASSUME TextAssumption ==
    /\ NoAttempt \notin Seq(Bytes)
    /\ Keys \subseteq Seq(Bytes) \ {<<>>}
    /\ Password \in Seq(Bytes)
ASSUME SizeAssumption ==
    /\ BufferSize \in Nat \ {0}
    /\ PendingSlots \in Nat \ {0}
    /\ MaxSeq \in Nat
ASSUME TimeoutAssumption == BlankTimeouts \subseteq Nat /\ BlankTimeouts # {}

VARIABLES
    \* the compositor
    locked,     \* hikari_server.mode is the lock mode
    buffer,     \* input_buffer, its first cursor bytes
    nextSeq,    \* mode->next_seq
    attempt,    \* history: the text nextSeq was given to, until it is decided
    pipe,       \* the helper locker_pipe leads to, or NoPid
    source,     \* mode->locker_event_source is registered
    lockerPid,  \* locker_pid
    pending,    \* the occupied slots of pending_locker_pids
    reapTimer,  \* mode->locker_reap_timer exists, and is armed
    indicator,  \* lock_indicator->current
    message,    \* lock_indicator->message: the attempts PAM's words are about
    dark,       \* mode->outputs_disabled
    blank,      \* mode->disable_outputs: "none", "idle" or "armed"
    \* the helpers
    proc,       \* what each process is doing
    job,        \* the request a helper is checking
    said,       \* message_buffer: the attempts its PAM text is about
    requests,   \* bytes on their way to a helper, one entry per request
    replies     \* bytes on their way back, one entry per reply

lockVars   == <<locked, buffer, nextSeq, attempt, indicator, message>>
childVars  == <<pipe, source, lockerPid, pending, reapTimer>>
screenVars == <<dark, blank>>
helperVars == <<proc, job, said, requests, replies>>
vars == <<lockVars, childVars, screenVars, helperVars>>

Text    == Seq(Bytes)
Request == [seq : 0..MaxSeq, text : Text]
Reply   == [seq : 0..MaxSeq, success : BOOLEAN, text : SUBSET (0..MaxSeq)]
NoJob   == [seq |-> 0, text |-> <<>>]

Alive  == {"reading", "checking", "closing"}
Status == Alive \cup {"unused", "zombie", "reaped"}

TypeOK ==
    /\ locked \in BOOLEAN
    /\ buffer \in Text
    /\ nextSeq \in 0..MaxSeq
    /\ attempt \in Text \cup {NoAttempt}
    /\ pipe \in Pids \cup {NoPid}
    /\ source \in BOOLEAN
    /\ lockerPid \in Pids \cup {NoPid}
    /\ pending \subseteq Pids
    /\ reapTimer \in BOOLEAN
    /\ indicator \in {"none", "wait", "type", "verify", "deny"}
    /\ message \subseteq 0..MaxSeq
    /\ dark \in BOOLEAN
    /\ blank \in {"none", "idle", "armed"}
    /\ proc \in [Pids -> Status]
    /\ job \in [Pids -> Request]
    /\ said \in [Pids -> SUBSET (0..MaxSeq)]
    /\ requests \in [Pids -> Seq(Request)]
    /\ replies \in [Pids -> Seq(Reply)]

Init ==
    /\ locked = FALSE
    /\ buffer = <<>>
    /\ nextSeq = 0
    /\ attempt = NoAttempt
    /\ pipe = NoPid
    /\ source = FALSE
    /\ lockerPid = NoPid
    /\ pending = {}
    /\ reapTimer = FALSE
    /\ indicator = "none"
    /\ message = {}
    /\ dark = FALSE
    /\ blank = "none"
    /\ proc = [p \in Pids |-> "unused"]
    /\ job = [p \in Pids |-> NoJob]
    /\ said = [p \in Pids |-> {}]
    /\ requests = [p \in Pids |-> <<>>]
    /\ replies = [p \in Pids |-> <<>>]
-----------------------------------------------------------------------------
(* Child processes: which ones the compositor still knows, and reaping.    *)

Gone(p) == proc[p] \in {"zombie", "reaped"}

\* The children a waitpid() of the compositor can still name.
Tracked(lpid, parked) == parked \cup ({lpid} \ {NoPid})

Exited(children) == {p \in children : proc[p] = "zombie"}

AfterReap(children) ==
    [p \in Pids |-> IF p \in Exited(children) THEN "reaped" ELSE proc[p]]

\* Mutant: the timer is never armed again once it has fired.
NeverRearmed(children) == {reapTimer}

\* reap_locker_deferred(): the timer is created once, and re-armed, when a
\* child is still running; creating it can fail.  A timer that exists is left
\* alone when everything was collected inline.
ReapTimerAfter(children) ==
    IF Exited(children) = children THEN {reapTimer}
    ELSE {TRUE} \cup (IF "timer" \in Faults THEN {reapTimer} ELSE {})

\* Mutant: a round of reaping clears the whole table.
ReapDropsPending(lpid, parked) ==
    LET children == Tracked(lpid, parked)
    IN  /\ pending' = {}
        /\ reapTimer' \in ReapTimerAfter(children)
        /\ lockerPid' = IF lpid \in Exited(children) THEN NoPid ELSE lpid
        /\ proc' = AfterReap(children)

ReapDeferred(lpid, parked) ==
    LET children == Tracked(lpid, parked)
    IN  /\ pending' = parked \ Exited(children)
        /\ reapTimer' \in ReapTimerAfter(children)
        /\ lockerPid' = IF lpid \in Exited(children) THEN NoPid ELSE lpid
        /\ proc' = AfterReap(children)

\* reap_locker_handler(): collect what has exited; disarm when nothing is left.
ReapTick ==
    LET children == Tracked(lockerPid, pending)
    IN  /\ reapTimer
        /\ pending' = pending \ Exited(children)
        /\ lockerPid' = IF lockerPid \in Exited(children) THEN NoPid
                        ELSE lockerPid
        /\ proc' = AfterReap(children)
        /\ reapTimer' = (children # Exited(children))
        /\ UNCHANGED <<lockVars, pipe, source, screenVars,
                       job, said, requests, replies>>
-----------------------------------------------------------------------------
(* Parts the key handlers share.                                           *)

\* Mutant: the text goes, PAM's words stay.
ClearTextOnly ==
    /\ buffer' = <<>>
    /\ UNCHANGED message

ClearBuffer ==
    /\ buffer' = <<>>
    /\ message' = {}

\* Mutant: a key lights the outputs and does not push the blanking back.
NotRearmed == blank' = blank

\* arm_blank_timer(): a timeout of 0 disarms; a timer that could not be
\* created is left alone.
ArmBlankTimer ==
    IF blank = "none" THEN blank' = blank
    ELSE \E seconds \in BlankTimeouts :
            blank' = IF seconds > 0 THEN "armed" ELSE "idle"

\* Every key press relights blanked outputs and pushes the blanking back.
KeyPressed ==
    /\ locked
    /\ dark' = FALSE
    /\ ArmBlankTimer

\* Mutant: the outputs go dark over a typed text.
DisableKeepsText ==
    /\ blank' = IF blank = "none" THEN blank ELSE "idle"
    /\ dark' = TRUE
    /\ indicator' = "none"
    /\ UNCHANGED <<locked, buffer, message, nextSeq, attempt, childVars, helperVars>>

\* disable_outputs(), from the blank timer and from Ctrl+C.
DisableOutputs ==
    /\ blank' = IF blank = "none" THEN blank ELSE "idle"
    /\ dark' = TRUE
    /\ ClearBuffer
    /\ indicator' = "none"
    /\ UNCHANGED <<locked, nextSeq, attempt, childVars, helperVars>>
-----------------------------------------------------------------------------
(* Entering the lock mode.                                                 *)

\* fork() may also find the process table full.
ForkMayFail == "fork" \in Faults \/ \A p \in Pids : proc[p] # "unused"

\* hikari_lock_mode_enter(): a new indicator and an empty buffer, and a first
\* helper.  locker_pid is not parked first: a successful fork() overwrites it,
\* a failed one sets it to -1, and only a failed pipe() leaves it alone.
Enter ==
    /\ ~locked
    /\ locked' = TRUE
    /\ ClearBuffer
    /\ indicator' = "none"
    /\ attempt' = NoAttempt
    /\ \/ \E p \in Pids :
            /\ proc[p] = "unused"
            /\ proc' = [proc EXCEPT ![p] = "reading"]
            /\ lockerPid' = p
            /\ pipe' = p
       \/ /\ ForkMayFail
          /\ lockerPid' = NoPid
          /\ UNCHANGED <<proc, pipe>>
       \/ /\ "pipe" \in Faults
          /\ UNCHANGED <<lockerPid, proc, pipe>>
    /\ \/ \E seconds \in BlankTimeouts :
            blank' = IF seconds > 0 THEN "armed" ELSE "idle"
       \/ "timer" \in Faults /\ blank' = "none"
    /\ UNCHANGED <<nextSeq, source, pending, reapTimer, dark,
                   job, said, requests, replies>>
-----------------------------------------------------------------------------
(* Keys.                                                                   *)

\* Mutant: the encoding of a key is stored as if it were one byte.
PutKey(k) ==
    /\ KeyPressed
    /\ buffer' = Append(buffer, k) /\ indicator' = "type"
    /\ UNCHANGED <<locked, nextSeq, attempt, message, childVars, helperVars>>

PutChar(k) ==
    /\ KeyPressed
    /\ IF Len(buffer) + Len(k) < BufferSize
       THEN buffer' = buffer \o k /\ indicator' = "type"
       ELSE UNCHANGED <<buffer, indicator>>
    /\ UNCHANGED <<locked, nextSeq, attempt, message, childVars, helperVars>>

\* delete_char() drops one byte, whatever character it belongs to.
DeleteChar ==
    /\ KeyPressed
    /\ IF buffer = <<>> THEN UNCHANGED <<buffer, indicator>>
       ELSE /\ buffer' = SubSeq(buffer, 1, Len(buffer) - 1)
            /\ indicator' = IF Len(buffer) = 1 THEN "none" ELSE "type"
    /\ UNCHANGED <<locked, nextSeq, attempt, message, childVars, helperVars>>

\* Escape.
ClearPassword ==
    /\ KeyPressed
    /\ ClearBuffer
    /\ indicator' = "none"
    /\ UNCHANGED <<locked, nextSeq, attempt, childVars, helperVars>>

\* A modifier alone, or a key that encodes no character.
OtherKey ==
    /\ KeyPressed
    /\ UNCHANGED <<lockVars, childVars, helperVars>>

\* Ctrl+C wakes the outputs like any key, then powers them down and returns
\* before the blank timer is pushed back.
BlankByKey ==
    /\ locked
    /\ DisableOutputs

BlankByTimer ==
    /\ locked
    /\ blank = "armed"
    /\ DisableOutputs

\* reset_state_handler(): the indicator's own timer is armed by set_type and
\* set_deny alone, and disarmed by set_verify and clear.
ResetIndicator ==
    /\ locked
    /\ indicator \in {"type", "deny"}
    /\ indicator' = IF indicator = "deny" THEN "none" ELSE "wait"
    /\ UNCHANGED <<locked, buffer, nextSeq, attempt, message, childVars,
                   screenVars, helperVars>>
-----------------------------------------------------------------------------
(* Return: submit_password().                                              *)

\* defer_locker_pid() finds no free slot: the attempt is denied unsent.
SubmitTableFull ==
    /\ KeyPressed
    /\ pipe = NoPid
    /\ lockerPid # NoPid
    /\ Cardinality(pending) >= PendingSlots
    /\ ClearBuffer
    /\ ReapDeferred(lockerPid, pending)
    /\ indicator' = "deny"
    /\ UNCHANGED <<locked, nextSeq, attempt, pipe, source,
                   job, said, requests, replies>>

\* Mutant: locker_pid is parked whether or not a slot is free.
AlwaysRestarts == pipe = NoPid

\* The pipes are closed and locker_pid can be parked.
MayRestart ==
    /\ pipe = NoPid
    /\ lockerPid = NoPid \/ Cardinality(pending) < PendingSlots

\* start_unlocker() fails: the attempt is denied with its text left in place.
SubmitNoHelper ==
    /\ KeyPressed
    /\ MayRestart
    /\ ForkMayFail \/ "pipe" \in Faults
    /\ IF lockerPid = NoPid THEN UNCHANGED <<lockerPid, pending, reapTimer, proc>>
       ELSE ReapDeferred(NoPid, pending \cup {lockerPid})
    /\ indicator' = "deny"
    /\ UNCHANGED <<locked, buffer, nextSeq, attempt, message, pipe, source,
                   job, said, requests, replies>>

\* The request reaches a helper that still reads; a dead one makes the write
\* fail with EPIPE, which is tolerated.
Write(p) ==
    requests' =
        [requests EXCEPT ![p] =
            IF proc'[p] \in Alive
            THEN Append(@, [seq |-> nextSeq + 1, text |-> buffer]) ELSE @]

\* The attempt is numbered and sent, and its result awaited; or, when add_fd
\* fails, torn down although the request is already on its way.
Watched(p) ==
    /\ source' = TRUE
    /\ pipe' = p
    /\ attempt' = buffer
    /\ indicator' = "verify"
    /\ UNCHANGED replies

\* Mutant: the attempt is torn down and the screen still says "verifying".
UnwatchedSilently(p) ==
    /\ "source" \in Faults
    /\ source' = FALSE
    /\ pipe' = NoPid
    /\ attempt' = NoAttempt
    /\ indicator' = "verify"
    /\ replies' = [replies EXCEPT ![p] = <<>>]

Unwatched(p) ==
    /\ "source" \in Faults
    /\ source' = FALSE
    /\ pipe' = NoPid
    /\ attempt' = NoAttempt
    /\ indicator' = "deny"
    /\ replies' = [replies EXCEPT ![p] = <<>>]

Send(p) ==
    /\ nextSeq < MaxSeq
    /\ nextSeq' = nextSeq + 1
    /\ Write(p)
    /\ ClearBuffer
    /\ UNCHANGED <<locked, job, said>>

SubmitToHelper ==
    /\ KeyPressed
    /\ pipe # NoPid
    /\ \/ /\ Watched(pipe)
          /\ UNCHANGED <<lockerPid, pending, reapTimer, proc>>
       \/ /\ Unwatched(pipe)
          /\ ReapDeferred(lockerPid, pending)
    /\ Send(pipe)

\* The child that is left is parked, and collected if it has exited; an
\* attempt torn down makes one more round of reaping, past the new child.
SubmitToNewHelper ==
    /\ KeyPressed
    /\ MayRestart
    /\ \E p \in Pids :
        /\ proc[p] = "unused"
        /\ lockerPid' = p
        /\ \/ /\ Watched(p)
              /\ LET parked == Tracked(lockerPid, pending)
                     waited == IF lockerPid = NoPid THEN {} ELSE parked
                 IN  /\ pending' = parked \ Exited(waited)
                     /\ reapTimer' \in ReapTimerAfter(waited)
                     /\ proc' = [AfterReap(waited) EXCEPT ![p] = "reading"]
           \/ /\ Unwatched(p)
              /\ LET parked == Tracked(lockerPid, pending)
                 IN  /\ pending' = parked \ Exited(parked)
                     /\ reapTimer' \in ReapTimerAfter(parked \cup {p})
                     /\ proc' = [AfterReap(parked) EXCEPT ![p] = "reading"]
        /\ Send(p)
-----------------------------------------------------------------------------
(* The result: locker_result_handler().  hangup is the mask the event loop *)
(* sampled, so it may be FALSE of a helper that has exited since.          *)

\* Mutant: a hangup without a reply is not noticed.
ReadyWithReply(hangup) ==
    /\ source
    /\ replies[pipe] # <<>>
    /\ hangup => Gone(pipe)

Ready(hangup) ==
    /\ source
    /\ IF hangup THEN Gone(pipe) ELSE replies[pipe] # <<>>

\* One reply without a hangup, every reply that is left with one.
ReadNow(hangup) == IF hangup THEN replies[pipe] ELSE <<Head(replies[pipe])>>

\* Mutant: the sequence number of a reply is not compared.
AnyReply(read) == DOMAIN read

Current(read) == {i \in DOMAIN read : read[i].seq = nextSeq}

\* The last reply read that answers the current attempt decides.
Verdict(read) ==
    {read[i] : i \in {i \in Current(read) : \A j \in Current(read) : j <= i}}

Unread(hangup) ==
    [replies EXCEPT ![pipe] = IF hangup THEN <<>> ELSE Tail(@)]

\* A refusal, with PAM's explanation if the reply brings one.
ShowRefusal(text) ==
    /\ indicator' = "deny"
    /\ message' = IF text # {} THEN text ELSE message

\* A reply to a superseded attempt is read and dropped; the source stays.
ResultStale ==
    /\ Ready(FALSE)
    /\ Current(ReadNow(FALSE)) = {}
    /\ replies' = Unread(FALSE)
    /\ UNCHANGED <<lockVars, childVars, screenVars, proc, job, said, requests>>

\* A refusal by a helper that lives on: the pipes stay for the next attempt.
ResultRefused ==
    /\ Ready(FALSE)
    /\ \E reply \in Verdict(ReadNow(FALSE)) :
          ~reply.success /\ ShowRefusal(reply.text)
    /\ replies' = Unread(FALSE)
    /\ source' = FALSE
    /\ attempt' = NoAttempt
    /\ UNCHANGED <<locked, buffer, nextSeq, pipe, lockerPid, pending,
                   reapTimer, screenVars, proc, job, said, requests>>

\* The helper is gone without having granted the current attempt.
ResultHangup ==
    /\ Ready(TRUE)
    /\ \/ Current(ReadNow(TRUE)) = {} /\ ShowRefusal({})
       \/ \E reply \in Verdict(ReadNow(TRUE)) :
             ~reply.success /\ ShowRefusal(reply.text)
    /\ replies' = Unread(TRUE)
    /\ source' = FALSE
    /\ attempt' = NoAttempt
    /\ ReapDeferred(lockerPid, pending)
    /\ pipe' = NoPid
    /\ UNCHANGED <<locked, buffer, nextSeq, screenVars, job, said, requests>>

\* The current attempt is granted: the child is left to the reaper, and
\* cancel() takes the lock screen down.  The text buffer is not touched.
ResultUnlock ==
    /\ \E hangup \in BOOLEAN :
          /\ Ready(hangup)
          /\ \E reply \in Verdict(ReadNow(hangup)) : reply.success
    /\ replies' = [replies EXCEPT ![pipe] = <<>>]
    /\ source' = FALSE
    /\ attempt' = NoAttempt
    /\ ReapDeferred(lockerPid, pending)
    /\ pipe' = NoPid
    /\ indicator' = "none"
    /\ message' = {}
    /\ dark' = FALSE
    /\ blank' = "none"
    /\ locked' = FALSE
    /\ UNCHANGED <<buffer, nextSeq, job, said, requests>>
-----------------------------------------------------------------------------
(* The helper: main() and check_password() of hikari_unlocker.c.           *)

\* What PAM may say of a text.  An empty one is never accepted
\* (PAM_DISALLOW_NULL_AUTHTOK), one too long for the helper's buffer is fatal,
\* and the right one can still meet a locked tally or an expired account.
PamVerdicts(text) ==
    IF Len(text) > BufferSize - 1 THEN {"fatal"}
    ELSE IF text = Password /\ text # <<>> THEN {"success", "retry", "fatal"}
    ELSE {"retry", "fatal"}

\* Mutant: the message accumulator is not reset.
HelperReadOn(p) ==
    /\ proc[p] = "reading"
    /\ requests[p] # <<>>
    /\ job' = [job EXCEPT ![p] = Head(requests[p])]
    /\ requests' = [requests EXCEPT ![p] = Tail(@)]
    /\ proc' = [proc EXCEPT ![p] = "checking"]
    /\ UNCHANGED <<lockVars, childVars, screenVars, said, replies>>

\* A new attempt starts with an empty message accumulator.
HelperRead(p) ==
    /\ proc[p] = "reading"
    /\ requests[p] # <<>>
    /\ job' = [job EXCEPT ![p] = Head(requests[p])]
    /\ requests' = [requests EXCEPT ![p] = Tail(@)]
    /\ said' = [said EXCEPT ![p] = {}]
    /\ proc' = [proc EXCEPT ![p] = "checking"]
    /\ UNCHANGED <<lockVars, childVars, screenVars, replies>>

\* The compositor closed its end and nothing is left to read.
HelperEof(p) ==
    /\ proc[p] = "reading"
    /\ requests[p] = <<>>
    /\ pipe # p
    /\ proc' = [proc EXCEPT ![p] = "zombie"]
    /\ UNCHANGED <<lockVars, childVars, screenVars, job, said, requests, replies>>

\* conversation_handler() and pam_strerror(): append_message().
HelperSay(p) ==
    /\ proc[p] = "checking"
    /\ said' = [said EXCEPT ![p] = @ \cup {job[p].seq}]
    /\ UNCHANGED <<lockVars, childVars, screenVars, proc, job, requests, replies>>

\* write_reply(), lost when the compositor has closed its end.
HelperReply(p, verdict) ==
    /\ proc[p] = "checking"
    /\ verdict \in PamVerdicts(job[p].text)
    /\ replies' =
         [replies EXCEPT ![p] =
            IF pipe # p THEN @
            ELSE Append(@, [seq |-> job[p].seq,
                            success |-> verdict = "success",
                            text |-> said[p]])]
    /\ proc' = [proc EXCEPT ![p] = IF verdict = "retry" THEN "reading"
                                   ELSE "closing"]
    /\ UNCHANGED <<lockVars, childVars, screenVars, job, said, requests>>

\* pam_end() and the exit of a helper that is done.
HelperExit(p) ==
    /\ proc[p] = "closing"
    /\ proc' = [proc EXCEPT ![p] = "zombie"]
    /\ UNCHANGED <<lockVars, childVars, screenVars, job, said, requests, replies>>

\* A failed exec, a failed getpwuid or mlock, or a crash.
HelperDie(p) ==
    /\ "helper" \in Faults
    /\ proc[p] \in Alive
    /\ proc' = [proc EXCEPT ![p] = "zombie"]
    /\ UNCHANGED <<lockVars, childVars, screenVars, job, said, requests, replies>>
-----------------------------------------------------------------------------
Key ==
    \/ \E k \in Keys : PutChar(k)
    \/ DeleteChar
    \/ ClearPassword
    \/ OtherKey
    \/ BlankByKey
    \/ SubmitTableFull
    \/ SubmitNoHelper
    \/ SubmitToHelper
    \/ SubmitToNewHelper

Result == ResultStale \/ ResultRefused \/ ResultHangup \/ ResultUnlock

Helper(p) ==
    \/ HelperRead(p)
    \/ HelperEof(p)
    \/ HelperSay(p)
    \/ \E verdict \in {"success", "retry", "fatal"} : HelperReply(p, verdict)
    \/ HelperExit(p)
    \/ HelperDie(p)

Next ==
    \/ Enter
    \/ Key
    \/ BlankByTimer
    \/ ResetIndicator
    \/ Result
    \/ ReapTick
    \/ \E p \in Pids : Helper(p)

Spec == Init /\ [][Next]_vars

\* The event loop keeps dispatching, a helper keeps running, and PAM returns
\* from every conversation; nobody has to press a key and nothing has to fail.
HelperRuns(p) ==
    \/ HelperRead(p)
    \/ HelperEof(p)
    \/ \E verdict \in {"success", "retry", "fatal"} : HelperReply(p, verdict)
    \/ HelperExit(p)

FairSpec ==
    /\ Spec
    /\ WF_vars(Result)
    /\ WF_vars(ReapTick)
    /\ \A p \in Pids : WF_vars(HelperRuns(p))
-----------------------------------------------------------------------------
(* What the screen locker promises.                                        *)

Promise == INSTANCE ScreenLock WITH Texts <- Text

\* Whatever the helpers, their crashes, their late replies and the restarts
\* do, the session opens only when the text of the attempt submitted last, in
\* this lock and not yet refused, is the password.
Implements == Promise!Spec

\* Everything in the open channel is about the attempt it is numbered for: a
\* request or a check numbered nextSeq carries the text submitted last, and a
\* grant numbered nextSeq was given for the password; PAM's words are about
\* their own attempt.  A helper not yet forked has nothing in its pipes.
About(request) ==
    /\ request.seq <= nextSeq
    /\ source /\ request.seq = nextSeq => request.text = attempt

Grants(reply) ==
    /\ reply.seq <= nextSeq
    /\ reply.text \subseteq {reply.seq}
    /\ source /\ reply.seq = nextSeq /\ reply.success =>
          attempt = Password /\ attempt # <<>>

HonestChannel ==
    /\ \A p \in Pids : proc[p] = "unused" =>
          pipe # p /\ requests[p] = <<>> /\ replies[p] = <<>>
    /\ pipe # NoPid =>
          /\ \A i \in 1..Len(requests[pipe]) : About(requests[pipe][i])
          /\ proc[pipe] = "checking" =>
                About(job[pipe]) /\ said[pipe] \subseteq {job[pipe].seq}
          /\ \A i \in 1..Len(replies[pipe]) : Grants(replies[pipe][i])

\* An attempt is undecided exactly while its result is awaited on an open
\* pipe, and the screen says "verifying" only then: no path of
\* submit_password() or locker_result_handler() leaves it waiting for nothing.
AwaitedAttempt ==
    /\ source <=> attempt # NoAttempt
    /\ source => locked /\ pipe # NoPid
    /\ indicator = "verify" => source

\* Blanked outputs hide no typed text, whichever of the timer and Ctrl+C took
\* them down: assert(cursor == 0) of enable_outputs().
DarkScreenHoldsNoText == dark => buffer = <<>>

\* A lit lock screen is always counting down to its blanking, unless the
\* timer could not be created or a timeout of 0 says never.
LitScreenWillBlank ==
    locked /\ ~dark /\ 0 \notin BlankTimeouts => blank # "idle"

\* The lock screen is well-formed, and neither dark on half a password nor lit
\* for ever.
ScreenSound == TypeOK /\ DarkScreenHoldsNoText /\ LitScreenWillBlank

\* Neither the text buffer, with its terminating zero, nor the table of parked
\* children is ever written past its end.
LimitsKept ==
    /\ Len(buffer) < BufferSize
    /\ IsFiniteSet(pending) /\ Cardinality(pending) <= PendingSlots

\* PAM's words on the lock screen are about the attempt submitted last, never
\* about an earlier one, and never stand under an attempt still undecided.
MessageOfLastAttempt ==
    /\ message \subseteq {nextSeq}
    /\ source => message = {}

\* While the screen is locked no step forgets a child before it is collected:
\* restarts, a full pending table and torn down attempts included.
ChildrenKept ==
    [][locked => \A p \in Tracked(lockerPid, pending) :
                    \/ p \in Tracked(lockerPid, pending)'
                    \/ proc'[p] = "reaped"]_vars

\* An attempt is decided: the screen never stays on "verifying".
AttemptDecided == source ~> ~source

\* A child still known when the session opens is collected, unless the screen
\* is locked again first: the retry timer does not stop short.
ChildrenCollected ==
    \A p \in Pids :
        (~locked /\ p \in Tracked(lockerPid, pending))
            ~> (locked \/ proc[p] = "reaped")
=============================================================================
