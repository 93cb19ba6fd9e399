------------------------------ MODULE ExecProofs ------------------------------
(* Proofs about Exec, for any number of terminal sizes.                     *)
EXTENDS Exec, TLAPS

LEMMA Codes == /\ [code |-> 0, err |-> "none"] \in Result
               /\ [code |-> CodeExecError, err |-> "failed"] \in Result
               /\ [code |-> CodeExecTimeout, err |-> "timeout"] \in Result
  BY DEF Result

LEMMA TypeStep ==
    ASSUME TypeOK, [Next]_vars
    PROVE  TypeOK'
<1> USE BoundsAssumption, Codes DEF TypeOK
<1>1. CASE ExecSync
  BY <1>1 DEF ExecSync, Return, callerVars, lxdVars, sessionVars, resizeVars
<1>2. CASE StreamExec
  BY <1>2 DEF StreamExec, Return, callerVars, lxdVars, sessionVars, resizeVars
<1>3. CASE ExecContainer
  BY <1>3 DEF ExecContainer, Return, callerVars, lxdVars, sessionVars, resizeVars
<1>4. CASE Select
  BY <1>4 DEF Select, Return, callerVars, lxdVars, sessionVars, resizeVars
<1>5. CASE SendCancel
  BY <1>5 DEF SendCancel, Return, callerVars, lxdVars, sessionVars, resizeVars
<1>6. CASE CancelSent
  BY <1>6 DEF CancelSent, Return, callerVars, lxdVars, sessionVars, resizeVars
<1>7. CASE CloseResize
  BY <1>7 DEF CloseResize, Return, callerVars, lxdVars, sessionVars, resizeVars
<1>8. CASE OpWait
  BY <1>8 DEF OpWait, Return, callerVars, lxdVars, sessionVars, resizeVars
<1>9. CASE ControlHandler
  BY <1>9 DEF ControlHandler, Return, callerVars, lxdVars, sessionVars, resizeVars
<1>10. CASE ListenResize
  BY <1>10 DEF ListenResize, Return, callerVars, lxdVars, sessionVars, resizeVars
<1>11. CASE SendResize
  BY <1>11 DEF SendResize, Return, callerVars, lxdVars, sessionVars, resizeVars
<1>12. CASE Deadline
  BY <1>12 DEF Deadline, Return, callerVars, lxdVars, sessionVars, resizeVars
<1>13. CASE UserResizes
  BY <1>13 DEF UserResizes, Return, callerVars, lxdVars, sessionVars, resizeVars
<1>14. CASE CommandCloses
  BY <1>14 DEF CommandCloses, Return, callerVars, lxdVars, sessionVars, resizeVars
<1>15. CASE CommandEnds
  BY <1>15 DEF CommandEnds, Return, callerVars, lxdVars, sessionVars, resizeVars
<1>16. CASE DataDone
  BY <1>16 DEF DataDone, Return, callerVars, lxdVars, sessionVars, resizeVars
<1>17. CASE UNCHANGED vars
  BY <1>17 DEF vars, callerVars, lxdVars, sessionVars, resizeVars
<1> QED
  BY <1>1, <1>2, <1>3, <1>4, <1>5, <1>6, <1>7, <1>8, <1>9, <1>10, <1>11, <1>12,
     <1>13, <1>14, <1>15, <1>16, <1>17 DEF Next, Caller

\* The states of Exec, of its session and of the goroutines are well formed.
THEOREM ExecTypes == Spec => []TypeOK
<1>1. Init => TypeOK
  <2>1. 0 \in 0..MaxResizes
    BY BoundsAssumption
  <2> QED BY <2>1, Codes DEF Init, TypeOK
<1> QED BY <1>1, TypeStep, PTL DEF Spec

-----------------------------------------------------------------------------
(* ExitIsReal: the caller waits for the operation only after DataDone, and  *)
(* neither the end of the command nor DataDone is ever taken back.          *)
DataInv ==
    /\ pc \in {"close", "wait"} => dataDone
    /\ pc = "idle" => result.err = "none"
    /\ ExitIsReal

LEMMA DataStep ==
    ASSUME DataInv, [Next]_vars
    PROVE  DataInv'
<1> USE BoundsAssumption DEF DataInv, ExitIsReal
<1>1. CASE ExecSync
  BY <1>1 DEF ExecSync, Return, callerVars, lxdVars, sessionVars, resizeVars
<1>2. CASE StreamExec
  BY <1>2 DEF StreamExec, Return, callerVars, lxdVars, sessionVars, resizeVars
<1>3. CASE ExecContainer
  BY <1>3 DEF ExecContainer, Return, callerVars, lxdVars, sessionVars, resizeVars
<1>4. CASE Select
  BY <1>4 DEF Select, Return, callerVars, lxdVars, sessionVars, resizeVars
<1>5. CASE SendCancel
  BY <1>5 DEF SendCancel, Return, callerVars, lxdVars, sessionVars, resizeVars
<1>6. CASE CancelSent
  BY <1>6 DEF CancelSent, Return, callerVars, lxdVars, sessionVars, resizeVars
<1>7. CASE CloseResize
  BY <1>7 DEF CloseResize, Return, callerVars, lxdVars, sessionVars, resizeVars
<1>8. CASE OpWait
  BY <1>8 DEF OpWait, Return, callerVars, lxdVars, sessionVars, resizeVars
<1>9. CASE ControlHandler
  BY <1>9 DEF ControlHandler, Return, callerVars, lxdVars, sessionVars, resizeVars
<1>10. CASE ListenResize
  BY <1>10 DEF ListenResize, Return, callerVars, lxdVars, sessionVars, resizeVars
<1>11. CASE SendResize
  BY <1>11 DEF SendResize, Return, callerVars, lxdVars, sessionVars, resizeVars
<1>12. CASE Deadline
  BY <1>12 DEF Deadline, Return, callerVars, lxdVars, sessionVars, resizeVars
<1>13. CASE UserResizes
  BY <1>13 DEF UserResizes, Return, callerVars, lxdVars, sessionVars, resizeVars
<1>14. CASE CommandCloses
  BY <1>14 DEF CommandCloses, Return, callerVars, lxdVars, sessionVars, resizeVars
<1>15. CASE CommandEnds
  BY <1>15 DEF CommandEnds, Return, callerVars, lxdVars, sessionVars, resizeVars
<1>16. CASE DataDone
  BY <1>16 DEF DataDone, Return, callerVars, lxdVars, sessionVars, resizeVars
<1>17. CASE UNCHANGED vars
  BY <1>17 DEF vars, callerVars, lxdVars, sessionVars, resizeVars
<1> QED
  BY <1>1, <1>2, <1>3, <1>4, <1>5, <1>6, <1>7, <1>8, <1>9, <1>10, <1>11, <1>12,
     <1>13, <1>14, <1>15, <1>16, <1>17 DEF Next, Caller

\* An exit code that Exec returns is that of a command that has ended and
\* whose output has been copied, for any sequence of sizes, timer and socket.
THEOREM ExecExitIsReal == Spec => []ExitIsReal
<1>1. Init => DataInv
  BY DEF Init, DataInv, ExitIsReal
<1>2. DataInv => ExitIsReal
  BY DEF DataInv
<1> QED BY <1>1, <1>2, DataStep, PTL DEF Spec

-----------------------------------------------------------------------------
(* OneWriter: only a call with a timeout cancels, only a call with a        *)
(* channel of sizes resizes, and a call has one of them at most.            *)
WriterInv ==
    /\ pc = "idle" => ~timeout /\ resize = "none"
    /\ resize # "none" => ~timeout
    /\ deadline => timeout
    /\ pc \in {"cancel", "writing"} => deadline
    /\ listener = "sending" => resize # "none"

LEMMA WriterStep ==
    ASSUME TypeOK, WriterInv, [Next]_vars
    PROVE  WriterInv'
<1> USE BoundsAssumption DEF TypeOK, WriterInv
<1>1. CASE ExecSync
  BY <1>1 DEF ExecSync, Return, callerVars, lxdVars, sessionVars, resizeVars
<1>2. CASE StreamExec
  BY <1>2 DEF StreamExec, Return, callerVars, lxdVars, sessionVars, resizeVars
<1>3. CASE ExecContainer
  BY <1>3 DEF ExecContainer, Return, callerVars, lxdVars, sessionVars, resizeVars
<1>4. CASE Select
  BY <1>4 DEF Select, Return, callerVars, lxdVars, sessionVars, resizeVars
<1>5. CASE SendCancel
  BY <1>5 DEF SendCancel, Return, callerVars, lxdVars, sessionVars, resizeVars
<1>6. CASE CancelSent
  BY <1>6 DEF CancelSent, Return, callerVars, lxdVars, sessionVars, resizeVars
<1>7. CASE CloseResize
  BY <1>7 DEF CloseResize, Return, callerVars, lxdVars, sessionVars, resizeVars
<1>8. CASE OpWait
  BY <1>8 DEF OpWait, Return, callerVars, lxdVars, sessionVars, resizeVars
<1>9. CASE ControlHandler
  BY <1>9 DEF ControlHandler, Return, callerVars, lxdVars, sessionVars, resizeVars
<1>10. CASE ListenResize
  BY <1>10 DEF ListenResize, Return, callerVars, lxdVars, sessionVars, resizeVars
<1>11. CASE SendResize
  BY <1>11 DEF SendResize, Return, callerVars, lxdVars, sessionVars, resizeVars
<1>12. CASE Deadline
  BY <1>12 DEF Deadline, Return, callerVars, lxdVars, sessionVars, resizeVars
<1>13. CASE UserResizes
  BY <1>13 DEF UserResizes, Return, callerVars, lxdVars, sessionVars, resizeVars
<1>14. CASE CommandCloses
  BY <1>14 DEF CommandCloses, Return, callerVars, lxdVars, sessionVars, resizeVars
<1>15. CASE CommandEnds
  BY <1>15 DEF CommandEnds, Return, callerVars, lxdVars, sessionVars, resizeVars
<1>16. CASE DataDone
  BY <1>16 DEF DataDone, Return, callerVars, lxdVars, sessionVars, resizeVars
<1>17. CASE UNCHANGED vars
  BY <1>17 DEF vars, callerVars, lxdVars, sessionVars, resizeVars
<1> QED
  BY <1>1, <1>2, <1>3, <1>4, <1>5, <1>6, <1>7, <1>8, <1>9, <1>10, <1>11, <1>12,
     <1>13, <1>14, <1>15, <1>16, <1>17 DEF Next, Caller

\* sendCancel and sendResize never write to the control socket at once, in
\* whatever order timer, handler and sizes come.
THEOREM ExecOneWriter == Spec => []OneWriter
<1>1. Init => WriterInv
  BY DEF Init, WriterInv
<1>2. WriterInv => OneWriter
  BY DEF WriterInv, OneWriter
<1>3. TypeOK /\ WriterInv /\ [Next]_vars => WriterInv'
  BY WriterStep
<1> QED BY <1>1, <1>2, <1>3, ExecTypes, PTL DEF Spec

-----------------------------------------------------------------------------
(* The safety part of ExecReturns and ListenerStops: what a goroutine waits  *)
(* for is there, or a goroutine that never waits is about to provide it.     *)
Provided ==
    /\ command = "ended" => pc \notin {"idle", "request"} /\ output = "closed"
    /\ pc \in {"idle", "request"} => command = "none" /\ handler = "none"
    /\ pc = "wait" => closeResize
    /\ pc = "done" /\ command # "none" /\ result.err # "timeout" => closeResize

\* Once the command has ended, its output is closed, so that DataDone will be,
\* and op.Wait returns; and an Exec that has returned, with its command
\* executed and not by its timeout, has closed the channel listenResize waits
\* for, in whatever order the control handler, the command and the copying
\* come (lxf/exec.go).
THEOREM ExecWaitsForWhatComes ==
    Spec => [](/\ command = "ended" => pc \notin {"idle", "request"} /\ output = "closed"
               /\ pc = "done" /\ command # "none" /\ result.err # "timeout" => closeResize)
<1>1. Init => Provided
  BY DEF Init, Provided
<1>2. Provided /\ [Next]_vars => Provided'
  <2> SUFFICES ASSUME Provided, [Next]_vars PROVE Provided'
    OBVIOUS
  <2>1. CASE Caller
    BY <2>1 DEF Provided, Caller, ExecContainer, Select, SendCancel, CancelSent, CloseResize,
       OpWait, Return, callerVars, lxdVars, sessionVars, resizeVars
  <2>2. CASE ExecSync \/ StreamExec \/ ControlHandler \/ ListenResize \/ SendResize
    BY <2>2 DEF Provided, ExecSync, StreamExec, ControlHandler, ListenResize, SendResize,
       callerVars, lxdVars, sessionVars, resizeVars
  <2>3. CASE Deadline \/ UserResizes \/ CommandCloses \/ CommandEnds \/ DataDone
    BY <2>3 DEF Provided, Deadline, UserResizes, CommandCloses, CommandEnds, DataDone,
       callerVars, lxdVars, sessionVars, resizeVars
  <2>4. CASE UNCHANGED vars
    BY <2>4 DEF Provided, vars, callerVars, lxdVars, sessionVars, resizeVars
  <2> QED BY <2>1, <2>2, <2>3, <2>4 DEF Next
<1> QED BY <1>1, <1>2, PTL DEF Spec, Provided
=============================================================================
