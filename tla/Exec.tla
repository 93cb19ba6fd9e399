--------------------------------- MODULE Exec ---------------------------------
(***************************************************************************)
(* One command executed in a container: client.Exec and its session        *)
(* (lxf/exec.go), as ExecSync (cri/runtime.go) and the streaming server    *)
(* (cri/streaming.go) call it.                                             *)
(*                                                                         *)
(* Four goroutines take part: the caller; the control handler, which the   *)
(* LXD client starts when it has the control socket; the goroutine that    *)
(* forwards terminal sizes, which the handler starts; and the LXD client's *)
(* copying of the streams, which closes DataDone at its end.  They share   *)
(* the session without a lock.                                             *)
(*                                                                         *)
(* LXD and its client are external: the command runs on its own, may close *)
(* its output before it ends, and the operation is done when it has ended. *)
(***************************************************************************)
EXTENDS Naturals

CONSTANT MaxResizes    \* bound: how often the user changes the terminal

ASSUME BoundsAssumption == MaxResizes \in Nat

VARIABLES
    pc,            \* the caller of Exec
    timeout,       \* was a timeout given?
    resize,        \* the channel of terminal sizes: none, or empty or full
    resizes,       \* how often the user has changed the terminal
    deadline,      \* has the timer fired?
    result,        \* what Exec returned
    command,       \* LXD: the command
    output,        \* LXD: its output, open or closed
    dataDone,      \* LXD client: is DataDone closed?
    control,       \* session: the control socket
    handler,       \* the goroutine of controlHandler
    listener,      \* the goroutine of listenResize
    closeResize    \* session: is the channel closed?

callerVars  == <<timeout, deadline, result>>
lxdVars     == <<command, output, dataDone>>
sessionVars == <<control, handler, listener, closeResize>>
resizeVars  == <<resize, resizes>>
vars == <<pc, callerVars, lxdVars, sessionVars, resizeVars>>

CodeExecError   == 128
CodeExecTimeout == CodeExecError + 15

\* Exit codes of commands: 0 stands for all of them.
Result == [code : {0, CodeExecError, CodeExecTimeout},
           err : {"none", "failed", "timeout"}]

Init == /\ pc = "idle" /\ timeout = FALSE /\ resize = "none" /\ resizes = 0
        /\ deadline = FALSE
        /\ result = [code |-> 0, err |-> "none"]
        /\ command = "none" /\ output = "open" /\ dataDone = FALSE
        /\ control = FALSE /\ handler = "none" /\ listener = "none"
        /\ closeResize = FALSE

Return(code, err) == pc' = "done" /\ result' = [code |-> code, err |-> err]

-----------------------------------------------------------------------------
(* ExecSync passes its timeout, zero for none, and no channel.              *)
ExecSync ==
    /\ pc = "idle"
    /\ pc' = "request"
    /\ timeout' \in BOOLEAN
    /\ UNCHANGED <<deadline, result, lxdVars, sessionVars, resizeVars>>

\* Mutant: the streaming server passes a timeout too.
StreamExec_Timeout ==
    /\ pc = "idle"
    /\ pc' = "request"
    /\ timeout' = TRUE
    /\ resize' = "empty"
    /\ UNCHANGED <<deadline, result, lxdVars, sessionVars, resizes>>

(* The streaming server passes the channel of its client and no timeout.    *)
StreamExec ==
    /\ pc = "idle"
    /\ pc' = "request"
    /\ resize' = "empty"
    /\ UNCHANGED <<callerVars, lxdVars, sessionVars, resizes>>

(* LXD starts the command, or the call fails: at once, or after the client  *)
(* has started the control handler, when a later socket cannot be opened.   *)
(* Exec then returns without closing closeResize.                           *)
ExecContainer ==
    /\ pc = "request"
    /\ \/ /\ pc' = "select"
          /\ command' = "running"
          /\ handler' = "started"
          /\ UNCHANGED result
       \/ /\ Return(CodeExecError, "failed")
          /\ handler' \in {"none", "started"}
          /\ UNCHANGED command
    /\ UNCHANGED <<timeout, deadline, output, dataDone, control, listener,
                   closeResize, resizeVars>>

\* Mutant: the deadline is not among the cases.
Select_NoDeadline ==
    /\ pc = "select"
    /\ dataDone /\ pc' = "close"
    /\ UNCHANGED <<callerVars, lxdVars, sessionVars, resizeVars>>

(* The select of Exec: Go takes any case that is ready.                     *)
Select ==
    /\ pc = "select"
    /\ \/ deadline /\ pc' = "cancel"
       \/ dataDone /\ pc' = "close"
    /\ UNCHANGED <<callerVars, lxdVars, sessionVars, resizeVars>>

(* sendCancel writes to the control socket if it sees one.  The handler     *)
(* sets it without synchronisation, so a socket that is there may be missed. *)
SendCancel ==
    /\ pc = "cancel"
    /\ \/ control /\ pc' = "writing" /\ UNCHANGED result
       \/ Return(CodeExecTimeout, "timeout")
    /\ UNCHANGED <<timeout, deadline, lxdVars, sessionVars, resizeVars>>

\* Mutant: the code is that of the signal, without the offset of a shell.
CancelSent_Signal ==
    /\ pc = "writing"
    /\ Return(15, "timeout")
    /\ UNCHANGED <<timeout, deadline, lxdVars, sessionVars, resizeVars>>

(* The signal and the close message are out, or could not be written.       *)
CancelSent ==
    /\ pc = "writing"
    /\ Return(CodeExecTimeout, "timeout")
    /\ UNCHANGED <<timeout, deadline, lxdVars, sessionVars, resizeVars>>

\* Mutant: a message that is dropped if nobody receives it at this moment.
CloseResize_Signal ==
    /\ pc = "close"
    /\ closeResize' = (listener = "listening")
    /\ pc' = "wait"
    /\ UNCHANGED <<callerVars, lxdVars, control, handler, listener, resizeVars>>

(* close(ses.closeResize).                                                  *)
CloseResize ==
    /\ pc = "close"
    /\ closeResize' = TRUE
    /\ pc' = "wait"
    /\ UNCHANGED <<callerVars, lxdVars, control, handler, listener, resizeVars>>

\* Mutant: the operation is not waited for.
OpWait_NoWait ==
    /\ pc = "wait"
    /\ Return(0, "none")
    /\ UNCHANGED <<timeout, deadline, lxdVars, sessionVars, resizeVars>>

(* op.Wait, and the exit code from the metadata of the operation.           *)
OpWait ==
    /\ pc = "wait"
    /\ command = "ended"
    /\ Return(0, "none") \/ Return(CodeExecError, "failed")
    /\ UNCHANGED <<timeout, deadline, lxdVars, sessionVars, resizeVars>>

-----------------------------------------------------------------------------
(* controlHandler keeps the socket and starts listenResize.                 *)
ControlHandler ==
    /\ handler = "started"
    /\ handler' = "ended"
    /\ control' = TRUE
    /\ listener' = "listening"
    /\ UNCHANGED <<pc, callerVars, lxdVars, closeResize, resizeVars>>

(* The select of listenResize: a size, or the end.  A nil channel is never  *)
(* ready.                                                                   *)
ListenResize ==
    /\ listener = "listening"
    /\ \/ /\ resize = "full" /\ resize' = "empty"
          /\ listener' = "sending"
       \/ /\ closeResize
          /\ listener' = "ended"
          /\ UNCHANGED resize
    /\ UNCHANGED <<pc, callerVars, lxdVars, control, handler, closeResize, resizes>>

(* sendResize writes to the control socket; an error is only logged.        *)
SendResize ==
    /\ listener = "sending"
    /\ listener' = "listening"
    /\ UNCHANGED <<pc, callerVars, lxdVars, control, handler, closeResize, resizeVars>>

-----------------------------------------------------------------------------
(* The timer of Exec.                                                       *)
Deadline ==
    /\ timeout /\ ~deadline
    /\ pc \notin {"idle", "request"}
    /\ deadline' = TRUE
    /\ UNCHANGED <<pc, timeout, result, lxdVars, sessionVars, resizeVars>>

(* The user changes the size of the terminal.                               *)
UserResizes ==
    /\ resize = "empty" /\ resizes < MaxResizes
    /\ resize' = "full" /\ resizes' = resizes + 1
    /\ UNCHANGED <<pc, callerVars, lxdVars, sessionVars>>

(* The command closes its output, and goes on.                              *)
CommandCloses ==
    /\ command = "running" /\ output = "open"
    /\ output' = "closed"
    /\ UNCHANGED <<pc, callerVars, command, dataDone, sessionVars, resizeVars>>

(* The command ends, by itself or by the signal.                            *)
CommandEnds ==
    /\ command = "running"
    /\ command' = "ended" /\ output' = "closed"
    /\ UNCHANGED <<pc, callerVars, dataDone, sessionVars, resizeVars>>

(* The LXD client has copied all output, and closes DataDone.               *)
DataDone ==
    /\ output = "closed" /\ ~dataDone
    /\ dataDone' = TRUE
    /\ UNCHANGED <<pc, callerVars, command, output, sessionVars, resizeVars>>

Caller == \/ ExecContainer \/ Select \/ SendCancel \/ CancelSent
          \/ CloseResize \/ OpWait

Next == \/ ExecSync \/ StreamExec \/ Caller
        \/ ControlHandler \/ ListenResize \/ SendResize
        \/ Deadline \/ UserResizes \/ CommandCloses \/ CommandEnds \/ DataDone

Spec == Init /\ [][Next]_vars

(* Every goroutine is run, the timer fires and LXD's client copies to the   *)
(* end.  A command need not end.                                            *)
FairSpec == /\ Spec
            /\ WF_vars(Caller) /\ WF_vars(ControlHandler)
            /\ WF_vars(ListenResize) /\ WF_vars(SendResize)
            /\ WF_vars(Deadline) /\ WF_vars(DataDone)

-----------------------------------------------------------------------------
(* Well-formed states.                                                      *)
TypeOK ==
    /\ pc \in {"idle", "request", "select", "cancel", "writing", "close", "wait", "done"}
    /\ timeout \in BOOLEAN /\ deadline \in BOOLEAN
    /\ resize \in {"none", "empty", "full"} /\ resizes \in 0..MaxResizes
    /\ result \in Result
    /\ command \in {"none", "running", "ended"}
    /\ output \in {"open", "closed"} /\ dataDone \in BOOLEAN
    /\ control \in BOOLEAN /\ closeResize \in BOOLEAN
    /\ handler \in {"none", "started", "ended"}
    /\ listener \in {"none", "listening", "sending", "ended"}

(* Exec "will block till the command terminated AND all data was written"   *)
(* (lxf/exec.go): an exit code is that of a command that has ended and      *)
(* whose output has been copied, whatever it closed before.                 *)
ExitIsReal ==
    pc = "done" /\ result.err = "none" => command = "ended" /\ dataDone

(* The control socket takes one writer at a time, and neither sendCancel    *)
(* nor sendResize locks it: they never write at once, because no caller     *)
(* passes both a timeout and a channel of sizes.                            *)
OneWriter == ~(pc = "writing" /\ listener = "sending")

(* Exec returns when the command has ended, and with a timeout also when it *)
(* has not, unless it has closed its output: op.Wait has no timeout.        *)
ExecReturns ==
    /\ (command = "ended") ~> (pc = "done")
    /\ (timeout /\ pc = "select") ~> (pc = "done" \/ output = "closed")

(* listenResize "doesn't get closed automatically": after a command that    *)
(* was executed and did not time out it ends, also when the control handler *)
(* came late.  After a timeout, or a call that failed with its handler      *)
(* started, nothing closes closeResize and the goroutine is left behind.    *)
ListenerStops ==
    (pc = "done" /\ command # "none" /\ result.err # "timeout") ~>
        (handler # "started" /\ listener \in {"none", "ended"})
=============================================================================
