---------------------------- MODULE ExecSession ----------------------------
(***************************************************************************)
(* DockerPod.Exec, DockerContainerExec.Wait and Stdin (src/internal/       *)
(* services/executor/driver/docker.go 625-751).                            *)
(*                                                                         *)
(* Every session s has three actors:                                       *)
(*   - its caller, which runs Exec, closes stdin and calls Wait;           *)
(*   - the copy goroutine that Exec starts, which copies hresp.Reader to   *)
(*     the sinks and then sends the copy's error on the unbuffered endCh;  *)
(*   - the command the daemon runs in the container.                       *)
(* The caller's context may be cancelled at any time.  Daemon RPCs may     *)
(* fail (at most MaxFaults in a behaviour), and so may the copy's reads.   *)
(* The bytes themselves are abstracted: the model only records whether     *)
(* the copy reached EOF, i.e. whether all the output was delivered.        *)
(***************************************************************************)
EXTENDS Integers, FiniteSets

CONSTANTS
  Sessions,        \* concurrent Exec calls on one pod
  Targets,         \* ExecConfig.Container values the callers may pass
  PodKeys,         \* the keys of the pod's containersMap
  Codes,           \* exit codes the command may return
  NeedsStdinEOF,   \* whether the command runs until its stdin is closed
  MayCancel,       \* whether a caller's context may be cancelled
  MaxFaults        \* bound on failed RPCs and failed reads

ASSUME /\ PodKeys \subseteq Targets
       /\ Codes # {} /\ Codes \subseteq Nat
       /\ NeedsStdinEOF \in BOOLEAN /\ MayCancel \in BOOLEAN
       /\ MaxFaults \in Nat

VARIABLES
  caller,  \* the caller's control point in Exec/Stdin().Close/Wait
  result,  \* what Exec or Wait returned to the caller
  proc,    \* the exec'd command in the daemon
  conn,    \* the hijacked connection hresp
  copy,    \* the copy goroutine
  ctxDone, \* the caller's ctx.Done() is closed
  faults   \* RPC and read failures so far

vars == <<caller, result, proc, conn, copy, ctxDone, faults>>

CallerPCs == {"idle", "create", "attach", "session", "stdinClosed",
              "waiting", "inspecting", "returned"}
\* What a return carries: -1 from an error path, 0 with ctx.Err(), the exit
\* code from the inspect loop.
Result == [kind: {"none", "notFound", "error", "inspectError"}, code: {-1}]
            \cup [kind: {"cancelled"}, code: {0}] \cup [kind: {"ok"}, code: Codes]
NoResult == [kind |-> "none", code |-> -1]
Proc == [state: {"none", "created", "running", "exited"}, code: Codes]
\* copy: "none" before the goroutine exists, "copying", then "sending" with
\* its outcome until Wait receives it, then "done".
Copy == [pc: {"none", "copying", "sending", "done"}, eof: BOOLEAN]

Fault == faults < MaxFaults /\ faults' = faults + 1

Init ==
  /\ caller = [s \in Sessions |-> [pc |-> "idle", target |-> CHOOSE t \in Targets : TRUE]]
  /\ result = [s \in Sessions |-> NoResult]
  /\ proc = [s \in Sessions |-> [state |-> "none", code |-> CHOOSE c \in Codes : TRUE]]
  /\ conn = [s \in Sessions |-> "none"]
  /\ copy = [s \in Sessions |-> [pc |-> "none", eof |-> FALSE]]
  /\ ctxDone = [s \in Sessions |-> FALSE]
  /\ faults = 0

SetPC(s, pc) == caller' = [caller EXCEPT ![s].pc = pc]
Return(s, kind, code) ==
  /\ SetPC(s, "returned")
  /\ result' = [result EXCEPT ![s] = [kind |-> kind, code |-> code]]

(***************************************************************************)
(* Exec                                                                    *)
(***************************************************************************)
\* The caller picks its target; containersMap lookup fails with NotFound.
ExecLookup(s) ==
  /\ caller[s].pc = "idle"
  /\ \E t \in Targets :
       \/ /\ t \in PodKeys
          /\ caller' = [caller EXCEPT ![s] = [pc |-> "create", target |-> t]]
          /\ UNCHANGED result
       \/ /\ t \notin PodKeys
          /\ caller' = [caller EXCEPT ![s] = [pc |-> "returned", target |-> t]]
          /\ result' = [result EXCEPT ![s].kind = "notFound"]
  /\ UNCHANGED <<proc, conn, copy, ctxDone, faults>>

\* ContainerExecCreate; it fails when the RPC fails or ctx is done.
ExecCreate(s) ==
  /\ caller[s].pc = "create"
  /\ \/ /\ ~ctxDone[s]
        /\ SetPC(s, "attach")
        /\ proc' = [proc EXCEPT ![s].state = "created"]
        /\ UNCHANGED <<result, faults>>
     \/ ctxDone[s] /\ Return(s, "error", -1) /\ UNCHANGED <<proc, faults>>
     \/ Fault /\ Return(s, "error", -1) /\ UNCHANGED proc
  /\ UNCHANGED <<conn, copy, ctxDone>>

\* ContainerExecAttach starts the exec and hijacks the connection; on
\* success the copy goroutine is started and the session returned.
ExecAttach(s) ==
  /\ caller[s].pc = "attach"
  /\ \/ /\ ~ctxDone[s]
        /\ \E c \in Codes : proc' = [proc EXCEPT ![s] = [state |-> "running", code |-> c]]
        /\ conn' = [conn EXCEPT ![s] = "open"]
        /\ copy' = [copy EXCEPT ![s].pc = "copying"]
        /\ SetPC(s, "session")
        /\ UNCHANGED <<result, faults>>
     \/ ctxDone[s] /\ Return(s, "error", -1) /\ UNCHANGED <<proc, conn, copy, faults>>
     \/ Fault /\ Return(s, "error", -1) /\ UNCHANGED <<proc, conn, copy>>
  /\ UNCHANGED ctxDone

(***************************************************************************)
(* Stdin().Close(): hresp.CloseWrite, the write half only.                 *)
(***************************************************************************)
(* mutant: Close closes the whole connection *)
CloseStdinFull(s) ==
  /\ caller[s].pc = "session"
  /\ conn' = [conn EXCEPT ![s] = "closed"]
  /\ SetPC(s, "stdinClosed")
  /\ UNCHANGED <<result, proc, copy, ctxDone, faults>>
(* mutant: Close is a no-op *)
CloseStdinNoop(s) ==
  /\ caller[s].pc = "session"
  /\ SetPC(s, "stdinClosed")
  /\ UNCHANGED <<result, proc, conn, copy, ctxDone, faults>>
CloseStdin(s) ==
  /\ caller[s].pc = "session"
  /\ conn' = [conn EXCEPT ![s] = IF @ = "open" THEN "halfClosed" ELSE @]
  /\ SetPC(s, "stdinClosed")
  /\ UNCHANGED <<result, proc, copy, ctxDone, faults>>

CallWait(s) ==
  /\ caller[s].pc = "stdinClosed"
  /\ SetPC(s, "waiting")
  /\ UNCHANGED <<result, proc, conn, copy, ctxDone, faults>>

(***************************************************************************)
(* The copy goroutine: io.Copy / stdcopy.StdCopy of hresp.Reader until EOF *)
(* (the command has exited) or a read error (a failed read, or the         *)
(* connection closed under it), then `endCh <- err`, which blocks until a  *)
(* Wait receives it.                                                       *)
(***************************************************************************)
CopyEOF(s) ==
  /\ copy[s].pc = "copying" /\ proc[s].state = "exited" /\ conn[s] # "closed"
  /\ copy' = [copy EXCEPT ![s] = [pc |-> "sending", eof |-> TRUE]]
  /\ UNCHANGED <<caller, result, proc, conn, ctxDone, faults>>

CopyReadError(s) ==
  /\ copy[s].pc = "copying"
  /\ \/ conn[s] = "closed" /\ UNCHANGED faults
     \/ conn[s] # "closed" /\ Fault
  /\ copy' = [copy EXCEPT ![s] = [pc |-> "sending", eof |-> FALSE]]
  /\ UNCHANGED <<caller, result, proc, conn, ctxDone>>

(***************************************************************************)
(* The command: it exits with its code once it may (a command reading its  *)
(* stdin runs until the write half is closed).                             *)
(***************************************************************************)
StdinAtEOF(s) == conn[s] \in {"halfClosed", "closed"}

ProcExit(s) ==
  /\ proc[s].state = "running"
  /\ ~NeedsStdinEOF \/ StdinAtEOF(s)
  /\ proc' = [proc EXCEPT ![s].state = "exited"]
  /\ UNCHANGED <<caller, result, conn, copy, ctxDone, faults>>

(***************************************************************************)
(* Wait                                                                    *)
(***************************************************************************)
(* mutant: the cancelled return carries -1 like the other error paths *)
WaitCancelledMinusOne(s) ==
  /\ caller[s].pc = "waiting" /\ ctxDone[s]
  /\ Return(s, "cancelled", -1)
  /\ UNCHANGED <<proc, conn, copy, ctxDone, faults>>
\* select { case <-ctx.Done(): return 0, ctx.Err() ... }: nothing is closed
\* and nobody will ever receive from endCh.
WaitCancelled(s) ==
  /\ caller[s].pc = "waiting" /\ ctxDone[s]
  /\ Return(s, "cancelled", 0)
  /\ UNCHANGED <<proc, conn, copy, ctxDone, faults>>

\* select { ... case <-e.endCh: }: the rendezvous with the goroutine's send;
\* the error it carries is ignored.
WaitReceive(s) ==
  /\ caller[s].pc = "waiting" /\ copy[s].pc = "sending"
  /\ copy' = [copy EXCEPT ![s].pc = "done"]
  /\ SetPC(s, "inspecting")
  /\ UNCHANGED <<result, proc, conn, ctxDone, faults>>

\* ContainerExecInspect(ctx): an error (a failed RPC or a done ctx) returns
\* -1 and leaves hresp open; a running exec is polled again after 500ms;
\* otherwise the exit code is taken, hresp closed and returned.
(* mutant: resp.Running not checked *)
InspectIgnoresRunning(s) ==
  /\ caller[s].pc = "inspecting"
  /\ \/ /\ ~ctxDone[s]
        /\ Return(s, "ok", proc[s].code)
        /\ conn' = [conn EXCEPT ![s] = "closed"]
        /\ UNCHANGED faults
     \/ ctxDone[s] /\ Return(s, "inspectError", -1) /\ UNCHANGED <<conn, faults>>
     \/ Fault /\ Return(s, "inspectError", -1) /\ UNCHANGED conn
  /\ UNCHANGED <<proc, copy, ctxDone>>
Inspect(s) ==
  /\ caller[s].pc = "inspecting"
  /\ \/ /\ ~ctxDone[s] /\ proc[s].state = "running"
        /\ UNCHANGED <<caller, result, conn, faults>>
     \/ /\ ~ctxDone[s] /\ proc[s].state = "exited"
        /\ Return(s, "ok", proc[s].code)
        /\ conn' = [conn EXCEPT ![s] = "closed"]
        /\ UNCHANGED faults
     \/ ctxDone[s] /\ Return(s, "inspectError", -1) /\ UNCHANGED <<conn, faults>>
     \/ Fault /\ Return(s, "inspectError", -1) /\ UNCHANGED conn
  /\ UNCHANGED <<proc, copy, ctxDone>>

(***************************************************************************)
(* Environment                                                             *)
(***************************************************************************)
\* The caller's context is cancelled (job cancelled, executor shutdown).
Cancel(s) ==
  /\ MayCancel /\ ~ctxDone[s] /\ caller[s].pc # "returned"
  /\ ctxDone' = [ctxDone EXCEPT ![s] = TRUE]
  /\ UNCHANGED <<caller, result, proc, conn, copy, faults>>

\* Every caller has returned; goroutines may remain blocked for good.
Finished ==
  /\ \A s \in Sessions : caller[s].pc = "returned"
  /\ UNCHANGED vars

CallerStep(s) ==
  \/ ExecLookup(s) \/ ExecCreate(s) \/ ExecAttach(s) \/ CloseStdin(s)
  \/ CallWait(s) \/ WaitCancelled(s) \/ WaitReceive(s) \/ Inspect(s)
CopyStep(s) == CopyEOF(s) \/ CopyReadError(s)

Next ==
  \/ \E s \in Sessions : CallerStep(s) \/ CopyStep(s) \/ ProcExit(s) \/ Cancel(s)
  \/ Finished

\* Goroutines are scheduled and RPCs return: the caller and the copy
\* goroutine of each session are weakly fair.  The command is assumed to
\* terminate once its stdin is at EOF (a step's command, not a daemon).
Fairness ==
  \A s \in Sessions : /\ WF_vars(CallerStep(s))
                      /\ WF_vars(CopyStep(s))
                      /\ WF_vars(ProcExit(s))

Spec == Init /\ [][Next]_vars /\ Fairness

(***************************************************************************)
(* Properties                                                              *)
(***************************************************************************)
TypeOK ==
  /\ \A s \in Sessions : caller[s].pc \in CallerPCs /\ caller[s].target \in Targets
  /\ result \in [Sessions -> Result]
  /\ proc \in [Sessions -> Proc]
  /\ conn \in [Sessions -> {"none", "open", "halfClosed", "closed"}]
  /\ copy \in [Sessions -> Copy]
  /\ ctxDone \in [Sessions -> BOOLEAN]
  /\ faults \in 0..MaxFaults

\* Wait returns an exit code only once the copy goroutine has handed over
\* its outcome and the daemon reports the command has exited, and the code
\* is the command's (Wait's endCh receive, then the inspect loop's Running
\* check).
WaitCodeIsCommandExit ==
  \A s \in Sessions :
    result[s].kind = "ok" =>
      /\ proc[s].state = "exited"
      /\ result[s].code = proc[s].code
      /\ copy[s].pc = "done"

\* The hijacked connection is never fully closed while the copy goroutine is
\* still reading it: Stdin().Close only half-closes it, and Wait closes it
\* only after receiving from endCh.
ConnectionOutlivesCopy ==
  \A s \in Sessions : copy[s].pc = "copying" => conn[s] # "closed"

\* A Wait call always returns: by cancellation, an inspect error or the
\* exit code (the command sees EOF on stdin after Stdin().Close, exits, and
\* the goroutine's send on endCh meets Wait's receive).
WaitEventuallyReturns ==
  \A s \in Sessions : caller[s].pc = "waiting" ~> caller[s].pc = "returned"

\* Spec 4.10/8: when Wait returns, the session is torn down: the copy
\* goroutine ends and the attached connection is closed, also when the
\* context was cancelled.
SessionEventuallyReleased ==
  \A s \in Sessions :
    (caller[s].pc = "returned" /\ copy[s].pc # "none")
      ~> (copy[s].pc = "done" /\ conn[s] = "closed")

\* Spec 7: streaming I/O errors during exec are surfaced through Wait: a
\* Wait that returns an exit code without error had all output copied.
CopyErrorSurfaced ==
  \A s \in Sessions : result[s].kind = "ok" => copy[s].eof

====
