----------------------------- MODULE SshTransfer -----------------------------
(* One run of the git SSH wrapper (docs/ssh_git_wrapper_v3.py): the argument  *)
(* loop, the start-up of main(), and the transfer, in which the main thread   *)
(* (io_loop) and a daemon thread (forward_stdin) use ONE paramiko channel.    *)
(* The channel has one timeout, shared by every send and receive on it:       *)
(* setblocking(True) means no limit, setblocking(False) means zero.  A call   *)
(* reads it when it starts to wait.  Streams are counted in blocks.           *)
EXTENDS SshArgs

CONSTANTS
    Argvs,        \* the argument lists the wrapper may be started with
    LocalEnv,     \* the variables set in the local environment
    StdinBlocks,  \* how many blocks of local input there are
    OutBlocks,    \* the most blocks the remote writes, per stream
    StatusCodes   \* the exit statuses the remote command may end with

Streams == {"stdout", "stderr"}

NoRequest == RequestOf(EmptyConfig, {})

\* What paramiko holds as the exit status of a command that sent none; here
\* it also stands for "the process has not exited".
NoStatus == -1

ASSUME TransferAssumption ==
    /\ Argvs \subseteq Seq(Arguments)
    /\ StdinBlocks \in Nat
    /\ OutBlocks \in [Streams -> Nat]
    /\ StatusCodes \subseteq 0..255

VARIABLES
    argv, i, config,   \* the arguments, the position in them, what was parsed
    request,           \* what paramiko was asked for with it, or NoRequest
    pc,                \* where the main thread is
    cur,               \* the stream the final drain reads
    waiting,           \* the limit of the receive in progress, or "idle"
    spc,               \* where the stdin thread is
    sendLimit,         \* the limit of the send in progress, or "idle"
    left,              \* blocks of local input not read yet
    block,             \* the block read and not sent yet
    sent,              \* blocks the remote has taken
    readFailed,        \* the local input could not be read any more
    shutdown_event,
    signalled,
    timeout,           \* the channel's: "none" (blocking), "zero" or "drain"
    window,            \* the remote accepts another block
    eof, closed,       \* the remote ended its output; the channel is closed
    eofSent,           \* shutdown_write() was called
    status,            \* the remote's exit status, or NoStatus
    remote,            \* blocks of each stream the remote has written
    buffered,          \* blocks of each stream received and not read
    written,           \* blocks of each stream given to the local streams
    drain,             \* how the drain began: "no", "alone", "shared"
    expired,           \* the limits that have cut a receive of the drain short
    writeFailed,       \* a local stream refused a block
    exit               \* the process's exit status, or NoStatus

argVars    == <<argv, i, config, request>>
stdinVars  == <<spc, sendLimit, left, block, sent, readFailed, eofSent>>
remoteVars == <<window, eof, closed, status, remote>>
outVars    == <<buffered, written>>
drainVars  == <<cur, waiting, drain, expired>>
vars == <<argVars, pc, stdinVars, remoteVars, outVars, drainVars, timeout,
          shutdown_event, signalled, writeFailed, exit>>

ioVars == <<stdinVars, remoteVars, outVars, drainVars, timeout, shutdown_event,
            signalled, writeFailed>>

Init ==
    /\ argv \in Argvs /\ i = 1 /\ config = EmptyConfig /\ request = NoRequest
    /\ pc = "scan" /\ spc = "off"
    /\ cur = "stdout" /\ waiting = "idle" /\ sendLimit = "idle"
    /\ left = StdinBlocks /\ block = 0 /\ sent = 0 /\ readFailed = FALSE
    /\ shutdown_event = FALSE /\ signalled = FALSE
    /\ timeout = "none" /\ window = TRUE
    /\ eof = FALSE /\ closed = FALSE /\ eofSent = FALSE /\ status = NoStatus
    /\ remote = [s \in Streams |-> 0]
    /\ buffered = [s \in Streams |-> 0]
    /\ written = [s \in Streams |-> 0]
    /\ drain = "no" /\ expired = {} /\ writeFailed = FALSE /\ exit = NoStatus

Exit(code) == pc' = "exited" /\ exit' = code

-----------------------------------------------------------------------------
(* parse_args: one action per branch of the loop.                             *)

Scanning(form) == pc = "scan" /\ i <= Len(argv) /\ argv[i].form = form

ScanGlued ==
    /\ Scanning("glued")
    /\ config' = ApplyGlued(config, argv[i])
    /\ i' = i + 1
    /\ UNCHANGED <<argv, pc, request, ioVars, exit>>

ScanFlag_one_step ==
    /\ Scanning("flag")
    /\ config' = IF i < Len(argv)
                 THEN ApplyFlag(config, argv[i].flag, TextOf(argv[i + 1]))
                 ELSE config
    /\ i' = i + 1
    /\ UNCHANGED <<argv, pc, request, ioVars, exit>>

\* A flag at the very end has no value and is ignored.
ScanFlag ==
    /\ Scanning("flag")
    /\ config' = IF i < Len(argv)
                 THEN ApplyFlag(config, argv[i].flag, TextOf(argv[i + 1]))
                 ELSE config
    /\ i' = i + 2
    /\ UNCHANGED <<argv, pc, request, ioVars, exit>>

ScanStandalone ==
    /\ Scanning("verbose") \/ Scanning("standalone")
    /\ config' = ApplyStandalone(config, argv[i])
    /\ i' = i + 1
    /\ UNCHANGED <<argv, pc, request, ioVars, exit>>

\* The first argument that is no flag is the host; the rest is the command.
ScanHost ==
    /\ Scanning("word")
    /\ LET rest == SubSeq(argv, i + 1, Len(argv))
           c    == DecomposeHost(config, argv[i].text)
       IN  IF rest # <<>> /\ SplitRaises(rest)
           THEN Exit(1) /\ UNCHANGED config
           ELSE /\ config' = ResolveUser(
                       IF rest = <<>> THEN c
                       ELSE [c EXCEPT !.command = RemoteCommand(rest)])
                /\ pc' = "validate"
                /\ UNCHANGED exit
    /\ UNCHANGED <<argv, i, request, ioVars>>

ScanEnds ==
    /\ pc = "scan" /\ i > Len(argv)
    /\ config' = ResolveUser(config)
    /\ pc' = "validate"
    /\ UNCHANGED <<argv, i, request, ioVars, exit>>

-----------------------------------------------------------------------------
(* main(): validation, connection, channel.                                   *)

\* No host, no command, or an identity file that is missing or unreadable.
Validate ==
    /\ pc = "validate"
    /\ \/ /\ config.hostname \notin {None, ""}
          /\ config.command \notin {None, ""}
          /\ pc' = "connect"
          /\ UNCHANGED exit
       \/ /\ \/ config.hostname \in {None, ""}
             \/ config.command \in {None, ""}
             \/ config.identity # Name("")
          /\ Exit(1)
    /\ UNCHANGED <<argVars, ioVars>>

\* What known_hosts says of the host's key decides, and for a host it does not
\* name (or a file that cannot be read) the policy.
HostKeyAccepted(known) ==
    \/ known = "same"
    \/ known = "unknown" /\ HostKeyPolicy(config) # "reject"

\* ssh.connect: every exception ends the process with 1.
Connect ==
    /\ pc = "connect"
    /\ \/ /\ \E known \in {"same", "unknown", "changed"} : HostKeyAccepted(known)
          /\ request' = RequestOf(config, LocalEnv)
          /\ pc' = "exec"
          /\ UNCHANGED exit
       \/ Exit(1) /\ UNCHANGED request
    /\ UNCHANGED <<argv, i, config, ioVars>>

\* get_transport, the keepalive, open_session, the environment (a variable the
\* server refuses is passed over) and exec_command.  What the session or the
\* command raises is caught nowhere.  The channel is non-blocking from here on,
\* the arguments are not read again, and io_loop starts the stdin thread.
OpenChannel ==
    /\ pc = "exec"
    /\ \/ /\ pc' = "loop" /\ spc' = "check"
          /\ timeout' = "zero"
          /\ argv' = <<>> /\ i' = 1 /\ config' = EmptyConfig /\ request' = NoRequest
          /\ UNCHANGED exit
       \/ Exit(1) /\ UNCHANGED <<spc, timeout, argVars>>
    /\ UNCHANGED <<sendLimit, left, block, sent, readFailed, eofSent, remoteVars,
                   outVars, drainVars, shutdown_event, signalled, writeFailed>>

-----------------------------------------------------------------------------
(* io_loop, the main thread.                                                  *)

mainOnly == <<argVars, stdinVars, remoteVars, signalled>>

LoopCheck ==
    /\ pc = "loop"
    /\ pc' = IF shutdown_event THEN "cleanup" ELSE "stdout"
    /\ UNCHANGED <<mainOnly, outVars, drainVars, timeout, shutdown_event,
                   writeFailed, exit>>

\* Take a block of stream s and write it; a local stream may refuse it, and
\* then the exception leaves the loop.
Take(s, next) ==
    /\ buffered[s] > 0
    /\ buffered' = [buffered EXCEPT ![s] = @ - 1]
    /\ \/ /\ written' = [written EXCEPT ![s] = @ + 1]
          /\ pc' = next
          /\ UNCHANGED writeFailed
       \/ /\ pc' = "cleanup"
          /\ writeFailed' = TRUE
          /\ UNCHANGED written

NextStep(s) == IF s = "stdout" THEN "stderr" ELSE "status"

\* recv_ready / recv_stderr_ready, then one receive that finds data.
PollStream(s) ==
    /\ pc = s
    /\ \/ Take(s, NextStep(s))
       \/ /\ buffered[s] = 0
          /\ pc' = NextStep(s)
          /\ UNCHANGED <<outVars, writeFailed>>
    /\ UNCHANGED <<mainOnly, drainVars, timeout, shutdown_event, exit>>

\* paramiko's exit_status_ready: a status came, or the channel is closed.
ExitStatusReady == status # NoStatus \/ closed

BeginDrain_unlimited ==
    /\ timeout' = "none"
    /\ pc' = "drain" /\ cur' = "stdout"
    /\ drain' = IF spc = "done" THEN "alone" ELSE "shared"
    /\ UNCHANGED <<waiting, expired>>


BeginDrain ==
    /\ timeout' = "drain"
    /\ pc' = "drain" /\ cur' = "stdout"
    /\ drain' = IF spc = "done" THEN "alone" ELSE "shared"
    /\ UNCHANGED <<waiting, expired>>

CheckStatus ==
    /\ pc = "status"
    /\ \/ ExitStatusReady /\ BeginDrain
       \/ ~ExitStatusReady /\ pc' = "closed" /\ UNCHANGED <<timeout, drainVars>>
    /\ UNCHANGED <<mainOnly, outVars, shutdown_event, writeFailed, exit>>

\* Only a channel closed since the check before gets here; the sleep that
\* ends the iteration changes nothing.
CheckClosed ==
    /\ pc = "closed"
    /\ \/ closed /\ BeginDrain
       \/ ~closed /\ pc' = "loop" /\ UNCHANGED <<timeout, drainVars>>
    /\ UNCHANGED <<mainOnly, outVars, shutdown_event, writeFailed, exit>>

NextDrain_stdout_only ==
    waiting' = "idle" /\ pc' = "cleanup" /\ UNCHANGED cur


NextDrain ==
    /\ waiting' = "idle"
    /\ IF cur = "stdout" THEN cur' = "stderr" /\ UNCHANGED pc
                         ELSE pc' = "cleanup" /\ UNCHANGED cur

\* A receive that finds a block, at once or while it waits.
DrainData ==
    /\ pc = "drain"
    /\ Take(cur, "drain")
    /\ waiting' = "idle"
    /\ UNCHANGED <<mainOnly, cur, drain, expired, timeout, shutdown_event, exit>>

\* A receive that finds the end of the stream.
DrainEnd ==
    /\ pc = "drain" /\ buffered[cur] = 0 /\ (eof \/ closed)
    /\ NextDrain
    /\ UNCHANGED <<mainOnly, outVars, drain, expired, timeout, shutdown_event,
                   writeFailed, exit>>

\* A receive that has to wait: it takes the channel's limit as it is now.
DrainWait ==
    /\ pc = "drain" /\ waiting = "idle"
    /\ buffered[cur] = 0 /\ ~eof /\ ~closed
    /\ waiting' = timeout
    /\ UNCHANGED <<mainOnly, pc, cur, drain, expired, outVars, timeout,
                   shutdown_event, writeFailed, exit>>

\* The limit runs out; the drain goes on to the other stream.
DrainExpires ==
    /\ pc = "drain" /\ waiting \in {"zero", "drain"}
    /\ buffered[cur] = 0 /\ ~eof /\ ~closed
    /\ expired' = expired \cup {waiting}
    /\ NextDrain
    /\ UNCHANGED <<mainOnly, outVars, drain, timeout, shutdown_event,
                   writeFailed, exit>>

\* finally: the handlers are restored and the stdin thread told to stop.
Cleanup ==
    /\ pc = "cleanup"
    /\ shutdown_event' = TRUE
    /\ pc' = "join"
    /\ UNCHANGED <<mainOnly, outVars, drainVars, timeout, writeFailed, exit>>

\* The status of a channel that closed without one is -1; the process's exit
\* status is a byte, so that is 255 as well.
ExitCode == IF ExitStatusReady THEN status % 256 ELSE 255

Join_unlimited ==
    /\ pc = "join" /\ spc = "done"
    /\ Exit(ExitCode)
    /\ UNCHANGED <<argVars, ioVars>>

\* join(timeout=2.0) returns when the thread has ended or the time is up: no
\* state of the thread holds it back.
Join ==
    /\ pc = "join"
    /\ Exit(ExitCode)
    /\ UNCHANGED <<argVars, ioVars>>

MainNext ==
    \/ ScanGlued \/ ScanFlag \/ ScanStandalone \/ ScanHost \/ ScanEnds
    \/ Validate \/ Connect \/ OpenChannel
    \/ LoopCheck \/ (\E s \in Streams : PollStream(s))
    \/ CheckStatus \/ CheckClosed
    \/ DrainData \/ DrainEnd \/ DrainWait \/ DrainExpires
    \/ Cleanup \/ Join

\* SIGINT or SIGTERM: the handlers are installed while the loop runs.  What
\* became of send_signal does not matter: any exception is dropped.
Signal ==
    /\ pc \in {"loop", "stdout", "stderr", "status", "closed", "drain"}
    /\ shutdown_event' = TRUE /\ signalled' = TRUE
    /\ UNCHANGED <<argVars, pc, stdinVars, remoteVars, outVars, drainVars,
                   timeout, writeFailed, exit>>

-----------------------------------------------------------------------------
(* forward_stdin, the daemon thread: it ends with the process.                *)

mainAndRemote == <<argVars, pc, remoteVars, outVars, drainVars, shutdown_event,
                   signalled, writeFailed, exit>>
stdinOnly == <<mainAndRemote, readFailed>>

StdinCheck ==
    /\ spc = "check" /\ pc # "exited"
    /\ spc' = IF shutdown_event THEN "finish" ELSE "read"
    /\ UNCHANGED <<stdinOnly, timeout, sendLimit, left, block, sent, eofSent>>

\* select finds nothing within its 0.1 s, so the event is looked at again.
StdinIdle ==
    /\ spc = "read" /\ pc # "exited"
    /\ spc' = "check"
    /\ UNCHANGED <<stdinOnly, timeout, sendLimit, left, block, sent, eofSent>>

\* A block, the end of the input, or a select or read that raises, which ends
\* the upload as the end of the input would.
StdinRead ==
    /\ spc = "read" /\ pc # "exited"
    /\ \/ /\ left > 0 /\ left' = left - 1 /\ block' = 1 /\ spc' = "unlimit"
          /\ UNCHANGED readFailed
       \/ spc' = "finish" /\ readFailed' = (left > 0) /\ UNCHANGED <<left, block>>
    /\ UNCHANGED <<mainAndRemote, timeout, sendLimit, sent, eofSent>>

StdinBlocking_dropped ==
    /\ spc = "unlimit" /\ pc # "exited"
    /\ spc' = "send"
    /\ UNCHANGED <<stdinOnly, timeout, sendLimit, left, block, sent, eofSent>>

\* setblocking(True)
StdinBlocking ==
    /\ spc = "unlimit" /\ pc # "exited"
    /\ timeout' = "none"
    /\ spc' = "send"
    /\ UNCHANGED <<stdinOnly, sendLimit, left, block, sent, eofSent>>

\* sendall: the remote takes the block, ...
SendTaken ==
    /\ spc = "send" /\ pc # "exited"
    /\ window /\ ~closed
    /\ block' = 0 /\ sent' = sent + 1 /\ sendLimit' = "idle"
    /\ window' = FALSE
    /\ spc' = "limit"
    /\ UNCHANGED <<argVars, pc, eof, closed, status, remote, outVars, drainVars,
                   shutdown_event, signalled, writeFailed, exit, timeout, left,
                   readFailed, eofSent>>

\* ... the send starts to wait, with the limit of that moment, ...
SendWait ==
    /\ spc = "send" /\ pc # "exited"
    /\ ~window /\ ~closed /\ sendLimit = "idle"
    /\ sendLimit' = timeout
    /\ UNCHANGED <<stdinOnly, spc, timeout, left, block, sent, eofSent>>

\* ... or it raises: its limit ran out, or the channel is closed.
SendRaises ==
    /\ spc = "send" /\ pc # "exited"
    /\ \/ closed
       \/ ~window /\ sendLimit \in {"zero", "drain"}
    /\ sendLimit' = "idle"
    /\ spc' = "abandon"
    /\ UNCHANGED <<stdinOnly, timeout, left, block, sent, eofSent>>

\* The inner finally: setblocking(False), after a send or on the way out.
StdinNonBlocking ==
    /\ spc \in {"limit", "abandon"} /\ pc # "exited"
    /\ timeout' = "zero"
    /\ spc' = IF spc = "limit" THEN "check" ELSE "finish"
    /\ UNCHANGED <<stdinOnly, sendLimit, left, block, sent, eofSent>>

\* The outer finally: shutdown_write(), whatever the reason to stop was.
StdinFinish ==
    /\ spc = "finish" /\ pc # "exited"
    /\ eofSent' = TRUE
    /\ spc' = "done"
    /\ UNCHANGED <<stdinOnly, timeout, sendLimit, left, block, sent>>

StdinNext ==
    \/ StdinCheck \/ StdinIdle \/ StdinRead \/ StdinBlocking
    \/ SendTaken \/ SendWait \/ SendRaises \/ StdinNonBlocking \/ StdinFinish

-----------------------------------------------------------------------------
(* The remote end and the connection (external).                              *)

InTransfer == spc # "off" /\ pc # "exited" /\ ~closed

remoteOnly == <<argVars, pc, stdinVars, drainVars, timeout, shutdown_event,
                signalled, writeFailed, exit, written>>

RemoteWrites(s) ==
    /\ InTransfer /\ ~eof /\ remote[s] < OutBlocks[s]
    /\ remote' = [remote EXCEPT ![s] = @ + 1]
    /\ buffered' = [buffered EXCEPT ![s] = @ + 1]
    /\ UNCHANGED <<remoteOnly, window, eof, closed, status>>

RemoteReads ==
    /\ InTransfer /\ ~window
    /\ window' = TRUE
    /\ UNCHANGED <<remoteOnly, eof, closed, status, remote, buffered>>

\* The command ends; its output may still be on the way.
RemoteExits ==
    /\ InTransfer /\ status = NoStatus
    /\ status' \in StatusCodes
    /\ UNCHANGED <<remoteOnly, window, eof, closed, remote, buffered>>

RemoteEof ==
    /\ InTransfer /\ ~eof
    /\ eof' = TRUE
    /\ UNCHANGED <<remoteOnly, window, closed, status, remote, buffered>>

ConnectionCloses ==
    /\ InTransfer
    /\ eof' = TRUE /\ closed' = TRUE
    /\ UNCHANGED <<remoteOnly, window, status, remote, buffered>>

RemoteNext ==
    \/ \E s \in Streams : RemoteWrites(s)
    \/ RemoteReads \/ RemoteExits \/ RemoteEof \/ ConnectionCloses

Exited == pc = "exited" /\ UNCHANGED vars

Next == MainNext \/ StdinNext \/ RemoteNext \/ Signal \/ Exited

\* The main thread is scheduled, and its waits with a limit end.  Nothing is
\* asked of the remote, which need not end its output, of the connection or of
\* the stdin thread.
Fairness == WF_vars(MainNext)

Spec == Init /\ [][Next]_vars
FairSpec == Spec /\ Fairness
=============================================================================
