-------------------------- MODULE SshTransferProofs -------------------------
(***************************************************************************)
(* Theorems about the SSH wrapper's transfer for every amount of local      *)
(* input and remote output, every set of exit statuses and every set of     *)
(* argument lists.  TransferInv has one part per question: the upload, the  *)
(* limit of the final drain, and what the exit status says.  ScanInv, of    *)
(* the argument loop and what main() asks for, stands by itself.            *)
(***************************************************************************)
EXTENDS SshTransferProps, WellFoundedInduction, TLAPS

Running == status = NoStatus /\ ~closed

Starting == {"scan", "validate", "connect", "exec"}

\* While the remote command runs, a send waits without a limit, so the stdin
\* thread gives up no block and closes the sending side only at the end of the
\* input or when it is told to stop.
UploadInv ==
    /\ BlocksAccounted
    /\ spc \in {"off", "check", "read", "limit"} => block = 0
    /\ spc \in {"unlimit", "send"} => block = 1
    /\ sendLimit # "idle" => spc = "send"
    /\ eofSent => spc = "done"
    /\ Running =>
         /\ spc # "abandon"
         /\ spc = "send" => timeout = "none" /\ sendLimit \in {"idle", "none"}
         /\ spc \in {"finish", "done"} /\ ~shutdown_event /\ ~readFailed =>
              left = 0 /\ block = 0

\* Nobody but the stdin thread changes the limit of a drain that has begun.
DrainInv ==
    /\ pc \in Starting => spc = "off"
    /\ drain = "no" => waiting = "idle" /\ expired = {}
    /\ pc = "drain" => drain # "no"
    /\ drain # "no" => pc \in {"drain", "cleanup", "join", "exited"}
    /\ drain = "alone" => spc = "done" /\ timeout = "drain"
    /\ LimitKeptWhenAlone

\* Nothing more is to come, or the output was cut short for a reason.
Settled ==
    \/ signalled \/ writeFailed \/ expired # {}
    \/ (eof /\ \A s \in Streams : buffered[s] = 0)

DeliveryInv ==
    /\ closed => eof
    /\ ~writeFailed => \A s \in Streams : written[s] + buffered[s] = remote[s]
    /\ shutdown_event /\ ~signalled => pc \in {"join", "exited"}
    /\ pc = "drain" /\ cur = "stderr" =>
         expired # {} \/ (eof /\ buffered["stdout"] = 0)
    /\ pc \in {"cleanup", "join"} => Settled
    /\ exit # NoStatus => pc = "exited"
    /\ exit = 0 => status = 0 /\ Settled

TransferInv == TypeOK /\ UploadInv /\ DrainInv /\ DeliveryInv

-----------------------------------------------------------------------------
(* Initial states. *)

LEMMA TransferInit == Init => TransferInv
<1>1. SUFFICES ASSUME Init PROVE TransferInv
  OBVIOUS
<1>2. /\ remote \in [Streams -> Nat] /\ buffered \in [Streams -> Nat]
      /\ written \in [Streams -> Nat]
      /\ \A s \in Streams : remote[s] = 0 /\ buffered[s] = 0 /\ written[s] = 0
  BY <1>1 DEF Init
<1>3. TypeOK
  <2>1. /\ left \in 0..StdinBlocks /\ block \in 0..1 /\ sent \in 0..StdinBlocks
    BY <1>1, TransferAssumption DEF Init
  <2>2. QED
    BY <1>1, <1>2, <2>1 DEF Init, TypeOK, Streams
<1>4. UploadInv
  BY <1>1, TransferAssumption DEF Init, UploadInv, BlocksAccounted, Running
<1>5. DrainInv
  BY <1>1 DEF Init, DrainInv, LimitKeptWhenAlone, Starting
<1>6. DeliveryInv
  BY <1>1, <1>2 DEF Init, DeliveryInv, Settled, NoStatus
<1>7. QED
  BY <1>3, <1>4, <1>5, <1>6 DEF TransferInv

-----------------------------------------------------------------------------
(* Steps, one per action. *)

\* The argument loop and the connection, which touch nothing of the transfer.
StartNext ==
    \/ ScanGlued \/ ScanFlag \/ ScanStandalone \/ ScanHost \/ ScanEnds
    \/ Validate \/ Connect

LEMMA StartFrame ==
  ASSUME StartNext
  PROVE  /\ UNCHANGED ioVars
         /\ pc \in Starting
         /\ \/ pc' \in Starting /\ exit' = exit
            \/ pc' = "exited" /\ exit' = 1
<1>1. CASE ScanGlued
  BY <1>1 DEF ScanGlued, Scanning, Starting
<1>2. CASE ScanFlag
  BY <1>2 DEF ScanFlag, Scanning, Starting
<1>3. CASE ScanStandalone
  BY <1>3 DEF ScanStandalone, Scanning, Starting
<1>4. CASE ScanHost
  <2>1. pc \in Starting /\ UNCHANGED ioVars
    BY <1>4 DEF ScanHost, Scanning, Starting
  <2>2. \/ pc' = "exited" /\ exit' = 1
        \/ pc' = "validate" /\ exit' = exit
    BY <1>4 DEF ScanHost, Exit
  <2>3. QED
    BY <2>1, <2>2 DEF Starting
<1>5. CASE ScanEnds
  BY <1>5 DEF ScanEnds, Starting
<1>6. CASE Validate
  <2>1. pc \in Starting /\ UNCHANGED ioVars
    BY <1>6 DEF Validate, Starting
  <2>2. \/ pc' = "exited" /\ exit' = 1
        \/ pc' = "connect" /\ exit' = exit
    BY <1>6 DEF Validate, Exit
  <2>3. QED
    BY <2>1, <2>2 DEF Starting
<1>7. CASE Connect
  <2>1. pc \in Starting /\ UNCHANGED ioVars
    BY <1>7 DEF Connect, Starting
  <2>2. \/ pc' = "exited" /\ exit' = 1
        \/ pc' = "exec" /\ exit' = exit
    BY <1>7 DEF Connect, Exit
  <2>3. QED
    BY <2>1, <2>2 DEF Starting
<1>8. QED
  BY <1>1, <1>2, <1>3, <1>4, <1>5, <1>6, <1>7 DEF StartNext

\* Taking a block of a stream.
LEMMA TakeFacts ==
  ASSUME TypeOK, NEW s \in Streams, NEW next, Take(s, next)
  PROVE  /\ buffered' \in [Streams -> Nat] /\ written' \in [Streams -> Nat]
         /\ writeFailed' \in BOOLEAN /\ pc' \in {next, "cleanup"}
<1>1. buffered' \in [Streams -> Nat]
  BY DEF TypeOK, Take
<1>2. CASE /\ written' = [written EXCEPT ![s] = @ + 1]
           /\ pc' = next /\ UNCHANGED writeFailed
  BY <1>1, <1>2 DEF TypeOK
<1>3. CASE /\ pc' = "cleanup" /\ writeFailed' = TRUE /\ UNCHANGED written
  BY <1>1, <1>3 DEF TypeOK
<1>4. QED
  BY <1>2, <1>3 DEF Take

\* A byte is its own remainder, and -1 counts for 255.
LEMMA ExitCodeIsByte ==
  ASSUME TypeOK
  PROVE  ExitCode \in StatusCodes \cup {255} /\ (ExitCode = 0 => status = 0)
<1>1. \A x \in -1..255 : x % 256 = IF x < 0 THEN 255 ELSE x
  OBVIOUS
<1>2. status \in StatusCodes \cup {NoStatus} /\ StatusCodes \subseteq 0..255
  BY TransferAssumption DEF TypeOK
<1>3. status \in -1..255 /\ (status < 0 \/ status \in StatusCodes)
  BY <1>2 DEF NoStatus
<1>4. QED
  BY <1>1, <1>3 DEF ExitCode

\* What a read of the local input may do.
LEMMA ReadFacts ==
  ASSUME TypeOK, StdinRead
  PROVE  /\ UNCHANGED <<mainAndRemote, timeout, sendLimit, sent, eofSent>>
         /\ spc = "read" /\ pc # "exited"
         /\ \/ /\ left > 0 /\ left' = left - 1 /\ block' = 1 /\ spc' = "unlimit"
               /\ UNCHANGED readFailed
            \/ /\ spc' = "finish" /\ UNCHANGED <<left, block>>
               /\ readFailed' \in BOOLEAN /\ (~readFailed' => left = 0)
<1>1. /\ UNCHANGED <<mainAndRemote, timeout, sendLimit, sent, eofSent>>
      /\ spc = "read" /\ pc # "exited"
      /\ \/ /\ left > 0 /\ left' = left - 1 /\ block' = 1 /\ spc' = "unlimit"
            /\ UNCHANGED readFailed
         \/ spc' = "finish" /\ readFailed' = (left > 0) /\ UNCHANGED <<left, block>>
  BY Zenon DEF StdinRead
<1>2. readFailed' = (left > 0) => readFailed' \in BOOLEAN /\ (~readFailed' => left = 0)
  <2>1. left > 0 \/ left = 0
    BY TransferAssumption DEF TypeOK
  <2>2. CASE left > 0
    BY <2>2
  <2>3. CASE left = 0
    BY <2>3
  <2>4. QED
    BY <2>1, <2>2, <2>3
<1>3. QED
  BY <1>1, <1>2, Zenon

\* Types.
LEMMA TypeStep ==
  ASSUME TransferInv, Next
  PROVE  TypeOK'
<1>1. TypeOK /\ UploadInv /\ DrainInv /\ DeliveryInv
  BY DEF TransferInv
<1> USE TransferAssumption
<1>2. CASE StartNext
  <2>1. exit' \in StatusCodes \cup {NoStatus, 1, 255} /\ UNCHANGED ioVars
    BY <1>1, <1>2, StartFrame DEF TypeOK
  <2>2. pc' \in Starting \/ pc' = "exited"
    BY <1>2, StartFrame
  <2>3. QED
    BY <1>1, <2>1, <2>2 DEF TypeOK, Starting, Streams, stdinVars, remoteVars, outVars,
        drainVars, ioVars
<1>3. CASE OpenChannel
  BY <1>1, <1>3 DEF TypeOK, Streams, NoStatus, OpenChannel, Exit, argVars, stdinVars,
      remoteVars, outVars, drainVars
<1>4. CASE LoopCheck
  BY <1>1, <1>4 DEF TypeOK, Streams, NoStatus, LoopCheck, mainOnly, argVars, stdinVars,
      remoteVars, outVars, drainVars
<1>5. ASSUME NEW s \in Streams, PollStream(s) PROVE TypeOK'
  <2>1. pc = s /\ UNCHANGED <<mainOnly, drainVars, timeout, shutdown_event, exit>>
    BY <1>5 DEF PollStream, mainOnly, Take, NextStep
  <2>2. CASE Take(s, NextStep(s))
    <3>1. buffered' \in [Streams -> Nat] /\ written' \in [Streams -> Nat]
          /\ writeFailed' \in BOOLEAN /\ pc' \in {NextStep(s), "cleanup"}
      BY <1>1, <2>2, TakeFacts
    <3>2. QED
      BY <1>1, <2>1, <3>1 DEF TypeOK, Streams, mainOnly, NextStep, argVars, stdinVars,
          remoteVars, drainVars
  <2>3. CASE buffered[s] = 0 /\ pc' = NextStep(s) /\ UNCHANGED <<outVars, writeFailed>>
    BY <1>1, <2>1, <2>3 DEF TypeOK, Streams, NoStatus, mainOnly, Take, NextStep, argVars,
        stdinVars, remoteVars, outVars, drainVars
  <2>4. QED
    BY <1>5, <2>2, <2>3 DEF PollStream
<1>6. CASE CheckStatus
  <2>1. pc = "status" /\ UNCHANGED <<mainOnly, outVars, shutdown_event, writeFailed, exit>>
    BY <1>6 DEF CheckStatus, mainOnly, BeginDrain, ExitStatusReady
  <2>2. CASE ExitStatusReady /\ BeginDrain
    BY <1>1, <2>1, <2>2 DEF TypeOK, Streams, NoStatus, mainOnly, BeginDrain,
        ExitStatusReady, argVars, stdinVars, remoteVars, outVars, drainVars
  <2>3. CASE ~ExitStatusReady /\ pc' = "closed" /\ UNCHANGED <<timeout, drainVars>>
    BY <1>1, <2>1, <2>3 DEF TypeOK, Streams, NoStatus, mainOnly, BeginDrain,
        ExitStatusReady, argVars, stdinVars, remoteVars, outVars, drainVars
  <2>4. QED
    BY <1>6, <2>2, <2>3 DEF CheckStatus
<1>7. CASE CheckClosed
  <2>1. pc = "closed" /\ UNCHANGED <<mainOnly, outVars, shutdown_event, writeFailed, exit>>
    BY <1>7 DEF CheckClosed, mainOnly, BeginDrain
  <2>2. CASE closed /\ BeginDrain
    BY <1>1, <2>1, <2>2 DEF TypeOK, Streams, NoStatus, mainOnly, BeginDrain, argVars,
        stdinVars, remoteVars, outVars, drainVars
  <2>3. CASE ~closed /\ pc' = "loop" /\ UNCHANGED <<timeout, drainVars>>
    BY <1>1, <2>1, <2>3 DEF TypeOK, Streams, NoStatus, mainOnly, BeginDrain, argVars,
        stdinVars, remoteVars, outVars, drainVars
  <2>4. QED
    BY <1>7, <2>2, <2>3 DEF CheckClosed
<1>8. CASE DrainData
  <2>1. /\ waiting' = "idle"
        /\ UNCHANGED <<mainOnly, cur, drain, expired, timeout, shutdown_event, exit>>
    BY <1>8 DEF DrainData
  <2>2. buffered' \in [Streams -> Nat] /\ written' \in [Streams -> Nat]
        /\ writeFailed' \in BOOLEAN /\ pc' \in {"drain", "cleanup"}
    BY <1>1, <1>8, TakeFacts DEF DrainData, TypeOK
  <2>3. QED
    BY <1>1, <2>1, <2>2 DEF TypeOK, Streams, mainOnly, argVars, stdinVars, remoteVars
<1>9. CASE DrainEnd
  BY <1>1, <1>9 DEF TypeOK, Streams, NoStatus, DrainEnd, mainOnly, NextDrain, argVars,
      stdinVars, remoteVars, outVars, drainVars
<1>10. CASE DrainWait
  BY <1>1, <1>10 DEF TypeOK, Streams, NoStatus, DrainWait, mainOnly, argVars, stdinVars,
      remoteVars, outVars, drainVars
<1>11. CASE DrainExpires
  BY <1>1, <1>11 DEF TypeOK, Streams, NoStatus, DrainExpires, mainOnly, NextDrain,
      argVars, stdinVars, remoteVars, outVars, drainVars
<1>12. CASE Cleanup
  BY <1>1, <1>12 DEF TypeOK, Streams, NoStatus, Cleanup, mainOnly, argVars, stdinVars,
      remoteVars, outVars, drainVars
<1>13. CASE Join
  BY <1>1, <1>13, ExitCodeIsByte DEF TypeOK, Streams, Join, ioVars, Exit, argVars,
      stdinVars, remoteVars, outVars, drainVars
<1>14. CASE StdinCheck
  BY <1>1, <1>14 DEF TypeOK, Streams, NoStatus, StdinCheck, mainAndRemote, stdinOnly, argVars,
      stdinVars, remoteVars, outVars, drainVars
<1>15. CASE StdinIdle
  BY <1>1, <1>15 DEF TypeOK, Streams, NoStatus, StdinIdle, mainAndRemote, stdinOnly, argVars,
      stdinVars, remoteVars, outVars, drainVars
<1>16. CASE StdinRead
  <2>1. TypeOK /\ TransferAssumption
    BY <1>1, TransferAssumption
  <2>2. readFailed' \in BOOLEAN
    BY <1>16, <2>1, ReadFacts DEF TypeOK
  <2>3. {shutdown_event, signalled, window, eof, closed, readFailed, eofSent,
           writeFailed}' \subseteq BOOLEAN
    BY <1>16, <2>1, <2>2, ReadFacts DEF TypeOK, mainAndRemote, remoteVars
  <2>4. left' \in 0..StdinBlocks /\ block' \in 0..1 /\ spc' \in {"unlimit", "finish"}
    BY <1>16, <2>1, ReadFacts DEF TypeOK, TransferAssumption
  <2>5. UNCHANGED <<pc, cur, timeout, waiting, sendLimit, sent, status, remote, buffered,
                    written, drain, expired, exit>>
    BY <1>16, <2>1, ReadFacts DEF mainAndRemote, remoteVars, outVars, drainVars
  <2>6. spc' \in {"off", "check", "read", "unlimit", "send", "limit", "abandon", "finish",
                 "done"}
    BY <2>4
  <2>7. QED
    BY <2>1, <2>3, <2>4, <2>5, <2>6 DEF TypeOK
<1>17. CASE StdinBlocking
  BY <1>1, <1>17 DEF TypeOK, Streams, NoStatus, StdinBlocking, mainAndRemote, stdinOnly, argVars,
      stdinVars, remoteVars, outVars, drainVars
<1>18. CASE SendTaken
  <2>1. sent' \in 0..StdinBlocks /\ block' \in 0..1
    BY <1>1, <1>18 DEF TypeOK, UploadInv, BlocksAccounted, SendTaken
  <2>2. /\ window' = FALSE /\ sendLimit' = "idle" /\ spc' = "limit"
        /\ UNCHANGED <<pc, cur, waiting, timeout, left, status, remote, buffered, written,
                       drain, expired, shutdown_event, signalled, eof, closed, readFailed,
                       eofSent, writeFailed, exit>>
    BY <1>18 DEF SendTaken, outVars, drainVars
  <2>3. {shutdown_event, signalled, window, eof, closed, readFailed, eofSent,
           writeFailed}' \subseteq BOOLEAN
    <3>1. {shutdown_event, signalled, eof, closed, readFailed, eofSent, writeFailed}
            \subseteq BOOLEAN
      BY <1>1 DEF TypeOK
    <3>2. QED
      BY <2>2, <3>1
  <2>4. cur' \in Streams /\ sendLimit' \in {"idle", "none", "zero", "drain"}
        /\ spc' \in {"off", "check", "read", "unlimit", "send", "limit", "abandon",
                     "finish", "done"}
    BY <1>1, <2>2 DEF TypeOK
  <2>5. QED
    BY <1>1, <2>1, <2>2, <2>3, <2>4 DEF TypeOK
<1>19. CASE SendWait
  BY <1>1, <1>19 DEF TypeOK, Streams, NoStatus, SendWait, mainAndRemote, stdinOnly, argVars,
      stdinVars, remoteVars, outVars, drainVars
<1>20. CASE SendRaises
  BY <1>1, <1>20 DEF TypeOK, Streams, NoStatus, SendRaises, mainAndRemote, stdinOnly, argVars,
      stdinVars, remoteVars, outVars, drainVars
<1>21. CASE StdinNonBlocking
  BY <1>1, <1>21 DEF TypeOK, Streams, NoStatus, StdinNonBlocking, mainAndRemote, stdinOnly, argVars,
      stdinVars, remoteVars, outVars, drainVars
<1>22. CASE StdinFinish
  BY <1>1, <1>22 DEF TypeOK, Streams, NoStatus, StdinFinish, mainAndRemote, stdinOnly, argVars,
      stdinVars, remoteVars, outVars, drainVars
<1>23. ASSUME NEW s \in Streams, RemoteWrites(s) PROVE TypeOK'
  BY <1>1, <1>23 DEF TypeOK, Streams, NoStatus, RemoteWrites, remoteOnly, InTransfer,
      argVars, stdinVars, remoteVars, outVars, drainVars
<1>24. CASE RemoteReads
  BY <1>1, <1>24 DEF TypeOK, Streams, NoStatus, RemoteReads, remoteOnly, InTransfer,
      argVars, stdinVars, remoteVars, outVars, drainVars
<1>25. CASE RemoteExits
  BY <1>1, <1>25 DEF TypeOK, Streams, NoStatus, RemoteExits, remoteOnly, InTransfer,
      argVars, stdinVars, remoteVars, outVars, drainVars
<1>26. CASE RemoteEof
  BY <1>1, <1>26 DEF TypeOK, Streams, NoStatus, RemoteEof, remoteOnly, InTransfer,
      argVars, stdinVars, remoteVars, outVars, drainVars
<1>27. CASE ConnectionCloses
  BY <1>1, <1>27 DEF TypeOK, Streams, NoStatus, ConnectionCloses, remoteOnly, InTransfer,
      argVars, stdinVars, remoteVars, outVars, drainVars
<1>28. CASE Signal
  BY <1>1, <1>28 DEF TypeOK, Streams, NoStatus, Signal, argVars, stdinVars, remoteVars,
      outVars, drainVars
<1>29. CASE Exited
  BY <1>1, <1>29 DEF TypeOK, Streams, NoStatus, Exited, vars, argVars, stdinVars,
      remoteVars, outVars, drainVars
<1>30. QED
  BY <1>2, <1>3, <1>4, <1>5, <1>6, <1>7, <1>8, <1>9, <1>10, <1>11, <1>12, <1>13, <1>14,
      <1>15, <1>16, <1>17, <1>18, <1>19, <1>20, <1>21, <1>22, <1>23, <1>24, <1>25, <1>26,
      <1>27, <1>28, <1>29 DEF Next, MainNext, StartNext, StdinNext, RemoteNext

\* The upload.
LEMMA UploadStep ==
  ASSUME TransferInv, Next
  PROVE  UploadInv'
<1>1. TypeOK /\ UploadInv /\ DrainInv /\ DeliveryInv
  BY DEF TransferInv
<1> USE TransferAssumption
<1>2. CASE StartNext
  BY <1>1, <1>2, StartFrame DEF TypeOK, UploadInv, BlocksAccounted, Running, NoStatus,
      argVars, stdinVars, remoteVars, outVars, drainVars, ioVars, Starting
<1>3. CASE OpenChannel
  BY <1>1, <1>3 DEF TypeOK, UploadInv, BlocksAccounted, Running, NoStatus, DrainInv,
      Starting, OpenChannel, Exit, argVars, stdinVars, remoteVars, outVars, drainVars
<1>4. CASE LoopCheck
  BY <1>1, <1>4 DEF TypeOK, UploadInv, BlocksAccounted, Running, NoStatus, LoopCheck,
      mainOnly, argVars, stdinVars, remoteVars, outVars, drainVars
<1>5. ASSUME NEW s \in Streams, PollStream(s) PROVE UploadInv'
  <2>1. pc = s /\ UNCHANGED <<mainOnly, drainVars, timeout, shutdown_event, exit>>
    BY <1>5 DEF PollStream, mainOnly, Take, NextStep
  <2>2. CASE Take(s, NextStep(s))
    BY <1>1, <2>1, <2>2 DEF TypeOK, UploadInv, BlocksAccounted, Running, NoStatus,
        mainOnly, Take, NextStep, argVars, stdinVars, remoteVars, outVars, drainVars
  <2>3. CASE buffered[s] = 0 /\ pc' = NextStep(s) /\ UNCHANGED <<outVars, writeFailed>>
    BY <1>1, <2>1, <2>3 DEF TypeOK, UploadInv, BlocksAccounted, Running, NoStatus,
        mainOnly, Take, NextStep, argVars, stdinVars, remoteVars, outVars, drainVars
  <2>4. QED
    BY <1>5, <2>2, <2>3 DEF PollStream
<1>6. CASE CheckStatus
  <2>1. pc = "status" /\ UNCHANGED <<mainOnly, outVars, shutdown_event, writeFailed, exit>>
    BY <1>6 DEF CheckStatus, mainOnly, BeginDrain, ExitStatusReady
  <2>2. CASE ExitStatusReady /\ BeginDrain
    BY <1>1, <2>1, <2>2 DEF TypeOK, UploadInv, BlocksAccounted, Running, NoStatus,
        mainOnly, BeginDrain, ExitStatusReady, argVars, stdinVars, remoteVars, outVars,
        drainVars
  <2>3. CASE ~ExitStatusReady /\ pc' = "closed" /\ UNCHANGED <<timeout, drainVars>>
    BY <1>1, <2>1, <2>3 DEF TypeOK, UploadInv, BlocksAccounted, Running, NoStatus,
        mainOnly, BeginDrain, ExitStatusReady, argVars, stdinVars, remoteVars, outVars,
        drainVars
  <2>4. QED
    BY <1>6, <2>2, <2>3 DEF CheckStatus
<1>7. CASE CheckClosed
  <2>1. pc = "closed" /\ UNCHANGED <<mainOnly, outVars, shutdown_event, writeFailed, exit>>
    BY <1>7 DEF CheckClosed, mainOnly, BeginDrain
  <2>2. CASE closed /\ BeginDrain
    BY <1>1, <2>1, <2>2 DEF TypeOK, UploadInv, BlocksAccounted, Running, NoStatus,
        mainOnly, BeginDrain, argVars, stdinVars, remoteVars, outVars, drainVars
  <2>3. CASE ~closed /\ pc' = "loop" /\ UNCHANGED <<timeout, drainVars>>
    BY <1>1, <2>1, <2>3 DEF TypeOK, UploadInv, BlocksAccounted, Running, NoStatus,
        mainOnly, BeginDrain, argVars, stdinVars, remoteVars, outVars, drainVars
  <2>4. QED
    BY <1>7, <2>2, <2>3 DEF CheckClosed
<1>8. CASE DrainData
  BY <1>1, <1>8 DEF TypeOK, UploadInv, BlocksAccounted, Running, NoStatus, DrainData,
      mainOnly, Take, argVars, stdinVars, remoteVars, outVars, drainVars
<1>9. CASE DrainEnd
  BY <1>1, <1>9 DEF TypeOK, UploadInv, BlocksAccounted, Running, NoStatus, DrainEnd,
      mainOnly, NextDrain, argVars, stdinVars, remoteVars, outVars, drainVars
<1>10. CASE DrainWait
  BY <1>1, <1>10 DEF TypeOK, UploadInv, BlocksAccounted, Running, NoStatus, DrainWait,
      mainOnly, argVars, stdinVars, remoteVars, outVars, drainVars
<1>11. CASE DrainExpires
  BY <1>1, <1>11 DEF TypeOK, UploadInv, BlocksAccounted, Running, NoStatus, DrainExpires,
      mainOnly, NextDrain, argVars, stdinVars, remoteVars, outVars, drainVars
<1>12. CASE Cleanup
  BY <1>1, <1>12 DEF TypeOK, UploadInv, BlocksAccounted, Running, NoStatus, Cleanup,
      mainOnly, argVars, stdinVars, remoteVars, outVars, drainVars
<1>13. CASE Join
  BY <1>1, <1>13 DEF TypeOK, UploadInv, BlocksAccounted, Running, NoStatus, Join, ioVars,
      Exit, argVars, stdinVars, remoteVars, outVars, drainVars
<1>14. CASE StdinCheck
  BY <1>1, <1>14 DEF TypeOK, UploadInv, BlocksAccounted, Running, NoStatus, StdinCheck,
      mainAndRemote, stdinOnly, argVars, stdinVars, remoteVars, outVars, drainVars
<1>15. CASE StdinIdle
  BY <1>1, <1>15 DEF TypeOK, UploadInv, BlocksAccounted, Running, NoStatus, StdinIdle,
      mainAndRemote, stdinOnly, argVars, stdinVars, remoteVars, outVars, drainVars
<1>16. CASE StdinRead
  <2>1. /\ UNCHANGED <<timeout, sendLimit, sent, eofSent, shutdown_event, status, closed>>
        /\ spc = "read" /\ left \in Nat /\ block = 0 /\ ~eofSent /\ sendLimit = "idle"
    BY <1>1, <1>16, ReadFacts, TransferAssumption DEF mainAndRemote, remoteVars, TypeOK, UploadInv
  <2>2. CASE left > 0 /\ left' = left - 1 /\ block' = 1 /\ spc' = "unlimit"
    BY <1>1, <2>1, <2>2 DEF UploadInv, BlocksAccounted, Running, NoStatus, TypeOK
  <2>3. CASE spc' = "finish" /\ UNCHANGED <<left, block>> /\ (~readFailed' => left = 0)
    BY <1>1, <2>1, <2>3 DEF UploadInv, BlocksAccounted, Running, NoStatus, TypeOK
  <2>4. QED
    BY <1>1, <1>16, <2>2, <2>3, ReadFacts
<1>17. CASE StdinBlocking
  BY <1>1, <1>17 DEF TypeOK, UploadInv, BlocksAccounted, Running, NoStatus, StdinBlocking,
      mainAndRemote, stdinOnly, argVars, stdinVars, remoteVars, outVars, drainVars
<1>18. CASE SendTaken
  BY <1>1, <1>18 DEF TypeOK, UploadInv, BlocksAccounted, Running, NoStatus, SendTaken,
      argVars, stdinVars, remoteVars, outVars, drainVars
<1>19. CASE SendWait
  BY <1>1, <1>19 DEF TypeOK, UploadInv, BlocksAccounted, Running, NoStatus, SendWait,
      mainAndRemote, stdinOnly, argVars, stdinVars, remoteVars, outVars, drainVars
<1>20. CASE SendRaises
  BY <1>1, <1>20 DEF TypeOK, UploadInv, BlocksAccounted, Running, NoStatus, SendRaises,
      mainAndRemote, stdinOnly, argVars, stdinVars, remoteVars, outVars, drainVars
<1>21. CASE StdinNonBlocking
  BY <1>1, <1>21 DEF TypeOK, UploadInv, BlocksAccounted, Running, NoStatus,
      StdinNonBlocking, mainAndRemote, stdinOnly, argVars, stdinVars, remoteVars, outVars, drainVars
<1>22. CASE StdinFinish
  BY <1>1, <1>22 DEF TypeOK, UploadInv, BlocksAccounted, Running, NoStatus, StdinFinish,
      mainAndRemote, stdinOnly, argVars, stdinVars, remoteVars, outVars, drainVars
<1>23. ASSUME NEW s \in Streams, RemoteWrites(s) PROVE UploadInv'
  BY <1>1, <1>23 DEF TypeOK, UploadInv, BlocksAccounted, Running, NoStatus, RemoteWrites,
      remoteOnly, InTransfer, argVars, stdinVars, remoteVars, outVars, drainVars
<1>24. CASE RemoteReads
  BY <1>1, <1>24 DEF TypeOK, UploadInv, BlocksAccounted, Running, NoStatus, RemoteReads,
      remoteOnly, InTransfer, argVars, stdinVars, remoteVars, outVars, drainVars
<1>25. CASE RemoteExits
  BY <1>1, <1>25 DEF TypeOK, UploadInv, BlocksAccounted, Running, NoStatus, RemoteExits,
      remoteOnly, InTransfer, argVars, stdinVars, remoteVars, outVars, drainVars
<1>26. CASE RemoteEof
  BY <1>1, <1>26 DEF TypeOK, UploadInv, BlocksAccounted, Running, NoStatus, RemoteEof,
      remoteOnly, InTransfer, argVars, stdinVars, remoteVars, outVars, drainVars
<1>27. CASE ConnectionCloses
  BY <1>1, <1>27 DEF TypeOK, UploadInv, BlocksAccounted, Running, NoStatus,
      ConnectionCloses, remoteOnly, InTransfer, argVars, stdinVars, remoteVars, outVars,
      drainVars
<1>28. CASE Signal
  BY <1>1, <1>28 DEF TypeOK, UploadInv, BlocksAccounted, Running, NoStatus, Signal,
      argVars, stdinVars, remoteVars, outVars, drainVars
<1>29. CASE Exited
  BY <1>1, <1>29 DEF TypeOK, UploadInv, BlocksAccounted, Running, NoStatus, Exited, vars,
      argVars, stdinVars, remoteVars, outVars, drainVars
<1>30. QED
  BY <1>2, <1>3, <1>4, <1>5, <1>6, <1>7, <1>8, <1>9, <1>10, <1>11, <1>12, <1>13, <1>14,
      <1>15, <1>16, <1>17, <1>18, <1>19, <1>20, <1>21, <1>22, <1>23, <1>24, <1>25, <1>26,
      <1>27, <1>28, <1>29 DEF Next, MainNext, StartNext, StdinNext, RemoteNext

\* The limit of the drain.
LEMMA DrainStep ==
  ASSUME TransferInv, Next
  PROVE  DrainInv'
<1>1. TypeOK /\ UploadInv /\ DrainInv /\ DeliveryInv
  BY DEF TransferInv
<1> USE TransferAssumption
<1>2. CASE StartNext
  <2>1. UNCHANGED ioVars /\ pc \in Starting
    BY <1>2, StartFrame
  <2>2. pc' \in Starting \/ pc' = "exited"
    BY <1>2, StartFrame
  <2>3. QED
    BY <1>1, <2>1, <2>2 DEF DrainInv, LimitKeptWhenAlone, Starting, stdinVars, drainVars, ioVars
<1>3. CASE OpenChannel
  BY <1>1, <1>3 DEF TypeOK, DrainInv, LimitKeptWhenAlone, Starting, Streams, OpenChannel,
      Exit, argVars, stdinVars, remoteVars, outVars, drainVars
<1>4. CASE LoopCheck
  BY <1>1, <1>4 DEF TypeOK, DrainInv, LimitKeptWhenAlone, Starting, Streams, LoopCheck,
      mainOnly, argVars, stdinVars, remoteVars, outVars, drainVars
<1>5. ASSUME NEW s \in Streams, PollStream(s) PROVE DrainInv'
  <2>1. pc = s /\ UNCHANGED <<mainOnly, drainVars, timeout, shutdown_event, exit>>
    BY <1>5 DEF PollStream, mainOnly, Take, NextStep
  <2>2. CASE Take(s, NextStep(s))
    BY <1>1, <2>1, <2>2 DEF TypeOK, DrainInv, LimitKeptWhenAlone, Starting, Streams,
        mainOnly, Take, NextStep, argVars, stdinVars, remoteVars, outVars, drainVars
  <2>3. CASE buffered[s] = 0 /\ pc' = NextStep(s) /\ UNCHANGED <<outVars, writeFailed>>
    BY <1>1, <2>1, <2>3 DEF TypeOK, DrainInv, LimitKeptWhenAlone, Starting, Streams,
        mainOnly, Take, NextStep, argVars, stdinVars, remoteVars, outVars, drainVars
  <2>4. QED
    BY <1>5, <2>2, <2>3 DEF PollStream
<1>6. CASE CheckStatus
  <2>1. pc = "status" /\ UNCHANGED <<mainOnly, outVars, shutdown_event, writeFailed, exit>>
    BY <1>6 DEF CheckStatus, mainOnly, BeginDrain, ExitStatusReady
  <2>2. CASE ExitStatusReady /\ BeginDrain
    BY <1>1, <2>1, <2>2 DEF TypeOK, DrainInv, LimitKeptWhenAlone, Starting, Streams,
        mainOnly, BeginDrain, ExitStatusReady, argVars, stdinVars, remoteVars, outVars,
        drainVars
  <2>3. CASE ~ExitStatusReady /\ pc' = "closed" /\ UNCHANGED <<timeout, drainVars>>
    BY <1>1, <2>1, <2>3 DEF TypeOK, DrainInv, LimitKeptWhenAlone, Starting, Streams,
        mainOnly, BeginDrain, ExitStatusReady, argVars, stdinVars, remoteVars, outVars,
        drainVars
  <2>4. QED
    BY <1>6, <2>2, <2>3 DEF CheckStatus
<1>7. CASE CheckClosed
  <2>1. pc = "closed" /\ UNCHANGED <<mainOnly, outVars, shutdown_event, writeFailed, exit>>
    BY <1>7 DEF CheckClosed, mainOnly, BeginDrain
  <2>2. CASE closed /\ BeginDrain
    BY <1>1, <2>1, <2>2 DEF TypeOK, DrainInv, LimitKeptWhenAlone, Starting, Streams,
        mainOnly, BeginDrain, argVars, stdinVars, remoteVars, outVars, drainVars
  <2>3. CASE ~closed /\ pc' = "loop" /\ UNCHANGED <<timeout, drainVars>>
    BY <1>1, <2>1, <2>3 DEF TypeOK, DrainInv, LimitKeptWhenAlone, Starting, Streams,
        mainOnly, BeginDrain, argVars, stdinVars, remoteVars, outVars, drainVars
  <2>4. QED
    BY <1>7, <2>2, <2>3 DEF CheckClosed
<1>8. CASE DrainData
  BY <1>1, <1>8 DEF TypeOK, DrainInv, LimitKeptWhenAlone, Starting, Streams, DrainData,
      mainOnly, Take, argVars, stdinVars, remoteVars, outVars, drainVars
<1>9. CASE DrainEnd
  BY <1>1, <1>9 DEF TypeOK, DrainInv, LimitKeptWhenAlone, Starting, Streams, DrainEnd,
      mainOnly, NextDrain, argVars, stdinVars, remoteVars, outVars, drainVars
<1>10. CASE DrainWait
  BY <1>1, <1>10 DEF TypeOK, DrainInv, LimitKeptWhenAlone, Starting, Streams, DrainWait,
      mainOnly, argVars, stdinVars, remoteVars, outVars, drainVars
<1>11. CASE DrainExpires
  BY <1>1, <1>11 DEF TypeOK, DrainInv, LimitKeptWhenAlone, Starting, Streams,
      DrainExpires, mainOnly, NextDrain, argVars, stdinVars, remoteVars, outVars, drainVars
<1>12. CASE Cleanup
  BY <1>1, <1>12 DEF TypeOK, DrainInv, LimitKeptWhenAlone, Starting, Streams, Cleanup,
      mainOnly, argVars, stdinVars, remoteVars, outVars, drainVars
<1>13. CASE Join
  BY <1>1, <1>13 DEF TypeOK, DrainInv, LimitKeptWhenAlone, Starting, Streams, Join,
      ioVars, Exit, argVars, stdinVars, remoteVars, outVars, drainVars
<1>14. CASE StdinCheck
  BY <1>1, <1>14 DEF TypeOK, DrainInv, LimitKeptWhenAlone, Starting, Streams, StdinCheck,
      mainAndRemote, stdinOnly, argVars, stdinVars, remoteVars, outVars, drainVars
<1>15. CASE StdinIdle
  BY <1>1, <1>15 DEF TypeOK, DrainInv, LimitKeptWhenAlone, Starting, Streams, StdinIdle,
      mainAndRemote, stdinOnly, argVars, stdinVars, remoteVars, outVars, drainVars
<1>16. CASE StdinRead
  BY <1>1, <1>16 DEF TypeOK, DrainInv, LimitKeptWhenAlone, Starting, Streams, StdinRead,
      mainAndRemote, stdinOnly, argVars, stdinVars, remoteVars, outVars, drainVars
<1>17. CASE StdinBlocking
  BY <1>1, <1>17 DEF TypeOK, DrainInv, LimitKeptWhenAlone, Starting, Streams,
      StdinBlocking, mainAndRemote, stdinOnly, argVars, stdinVars, remoteVars, outVars, drainVars
<1>18. CASE SendTaken
  BY <1>1, <1>18 DEF TypeOK, DrainInv, LimitKeptWhenAlone, Starting, Streams, SendTaken,
      argVars, stdinVars, remoteVars, outVars, drainVars
<1>19. CASE SendWait
  BY <1>1, <1>19 DEF TypeOK, DrainInv, LimitKeptWhenAlone, Starting, Streams, SendWait,
      mainAndRemote, stdinOnly, argVars, stdinVars, remoteVars, outVars, drainVars
<1>20. CASE SendRaises
  BY <1>1, <1>20 DEF TypeOK, DrainInv, LimitKeptWhenAlone, Starting, Streams, SendRaises,
      mainAndRemote, stdinOnly, argVars, stdinVars, remoteVars, outVars, drainVars
<1>21. CASE StdinNonBlocking
  BY <1>1, <1>21 DEF TypeOK, DrainInv, LimitKeptWhenAlone, Starting, Streams,
      StdinNonBlocking, mainAndRemote, stdinOnly, argVars, stdinVars, remoteVars, outVars, drainVars
<1>22. CASE StdinFinish
  BY <1>1, <1>22 DEF TypeOK, DrainInv, LimitKeptWhenAlone, Starting, Streams, StdinFinish,
      mainAndRemote, stdinOnly, argVars, stdinVars, remoteVars, outVars, drainVars
<1>23. ASSUME NEW s \in Streams, RemoteWrites(s) PROVE DrainInv'
  BY <1>1, <1>23 DEF TypeOK, DrainInv, LimitKeptWhenAlone, Starting, Streams,
      RemoteWrites, remoteOnly, InTransfer, argVars, stdinVars, remoteVars, outVars,
      drainVars
<1>24. CASE RemoteReads
  BY <1>1, <1>24 DEF TypeOK, DrainInv, LimitKeptWhenAlone, Starting, Streams, RemoteReads,
      remoteOnly, InTransfer, argVars, stdinVars, remoteVars, outVars, drainVars
<1>25. CASE RemoteExits
  BY <1>1, <1>25 DEF TypeOK, DrainInv, LimitKeptWhenAlone, Starting, Streams, RemoteExits,
      remoteOnly, InTransfer, argVars, stdinVars, remoteVars, outVars, drainVars
<1>26. CASE RemoteEof
  BY <1>1, <1>26 DEF TypeOK, DrainInv, LimitKeptWhenAlone, Starting, Streams, RemoteEof,
      remoteOnly, InTransfer, argVars, stdinVars, remoteVars, outVars, drainVars
<1>27. CASE ConnectionCloses
  BY <1>1, <1>27 DEF TypeOK, DrainInv, LimitKeptWhenAlone, Starting, Streams,
      ConnectionCloses, remoteOnly, InTransfer, argVars, stdinVars, remoteVars, outVars,
      drainVars
<1>28. CASE Signal
  BY <1>1, <1>28 DEF TypeOK, DrainInv, LimitKeptWhenAlone, Starting, Streams, Signal,
      argVars, stdinVars, remoteVars, outVars, drainVars
<1>29. CASE Exited
  BY <1>1, <1>29 DEF TypeOK, DrainInv, LimitKeptWhenAlone, Starting, Streams, Exited,
      vars, argVars, stdinVars, remoteVars, outVars, drainVars
<1>30. QED
  BY <1>2, <1>3, <1>4, <1>5, <1>6, <1>7, <1>8, <1>9, <1>10, <1>11, <1>12, <1>13, <1>14,
      <1>15, <1>16, <1>17, <1>18, <1>19, <1>20, <1>21, <1>22, <1>23, <1>24, <1>25, <1>26,
      <1>27, <1>28, <1>29 DEF Next, MainNext, StartNext, StdinNext, RemoteNext

\* The exit status.
LEMMA DeliveryStep ==
  ASSUME TransferInv, Next
  PROVE  DeliveryInv'
<1>1. TypeOK /\ UploadInv /\ DrainInv /\ DeliveryInv
  BY DEF TransferInv
<1>2. CASE StartNext
  BY <1>1, <1>2, StartFrame DEF TypeOK, DeliveryInv, Settled, Streams, NoStatus, argVars,
      stdinVars, remoteVars, outVars, drainVars, ioVars, Starting
<1>3. CASE OpenChannel
  BY <1>1, <1>3 DEF TypeOK, DeliveryInv, Settled, Streams, NoStatus, OpenChannel, Exit,
      argVars, stdinVars, remoteVars, outVars, drainVars
<1>4. CASE LoopCheck
  BY <1>1, <1>4 DEF TypeOK, DeliveryInv, Settled, Streams, NoStatus, LoopCheck, mainOnly,
      argVars, stdinVars, remoteVars, outVars, drainVars
<1>5. ASSUME NEW s \in Streams, PollStream(s) PROVE DeliveryInv'
  <2>1. pc = s /\ UNCHANGED <<mainOnly, drainVars, timeout, shutdown_event, exit>>
    BY <1>5 DEF PollStream, mainOnly, Take, NextStep
  <2>2. CASE Take(s, NextStep(s))
    BY <1>1, <2>1, <2>2 DEF TypeOK, DeliveryInv, Settled, Streams, NoStatus, mainOnly,
        Take, NextStep, argVars, stdinVars, remoteVars, outVars, drainVars
  <2>3. CASE buffered[s] = 0 /\ pc' = NextStep(s) /\ UNCHANGED <<outVars, writeFailed>>
    BY <1>1, <2>1, <2>3 DEF TypeOK, DeliveryInv, Settled, Streams, NoStatus, mainOnly,
        Take, NextStep, argVars, stdinVars, remoteVars, outVars, drainVars
  <2>4. QED
    BY <1>5, <2>2, <2>3 DEF PollStream
<1>6. CASE CheckStatus
  <2>1. pc = "status" /\ UNCHANGED <<mainOnly, outVars, shutdown_event, writeFailed, exit>>
    BY <1>6 DEF CheckStatus, mainOnly, BeginDrain, ExitStatusReady
  <2>2. CASE ExitStatusReady /\ BeginDrain
    BY <1>1, <2>1, <2>2 DEF TypeOK, DeliveryInv, Settled, Streams, NoStatus, mainOnly,
        BeginDrain, ExitStatusReady, argVars, stdinVars, remoteVars, outVars, drainVars
  <2>3. CASE ~ExitStatusReady /\ pc' = "closed" /\ UNCHANGED <<timeout, drainVars>>
    BY <1>1, <2>1, <2>3 DEF TypeOK, DeliveryInv, Settled, Streams, NoStatus, mainOnly,
        BeginDrain, ExitStatusReady, argVars, stdinVars, remoteVars, outVars, drainVars
  <2>4. QED
    BY <1>6, <2>2, <2>3 DEF CheckStatus
<1>7. CASE CheckClosed
  <2>1. pc = "closed" /\ UNCHANGED <<mainOnly, outVars, shutdown_event, writeFailed, exit>>
    BY <1>7 DEF CheckClosed, mainOnly, BeginDrain
  <2>2. CASE closed /\ BeginDrain
    BY <1>1, <2>1, <2>2 DEF TypeOK, DeliveryInv, Settled, Streams, NoStatus, mainOnly,
        BeginDrain, argVars, stdinVars, remoteVars, outVars, drainVars
  <2>3. CASE ~closed /\ pc' = "loop" /\ UNCHANGED <<timeout, drainVars>>
    BY <1>1, <2>1, <2>3 DEF TypeOK, DeliveryInv, Settled, Streams, NoStatus, mainOnly,
        BeginDrain, argVars, stdinVars, remoteVars, outVars, drainVars
  <2>4. QED
    BY <1>7, <2>2, <2>3 DEF CheckClosed
<1>8. CASE DrainData
  BY <1>1, <1>8 DEF TypeOK, DeliveryInv, Settled, Streams, NoStatus, DrainData, mainOnly,
      Take, argVars, stdinVars, remoteVars, outVars, drainVars
<1>9. CASE DrainEnd
  BY <1>1, <1>9 DEF TypeOK, DeliveryInv, Settled, Streams, NoStatus, DrainEnd, mainOnly,
      NextDrain, argVars, stdinVars, remoteVars, outVars, drainVars
<1>10. CASE DrainWait
  BY <1>1, <1>10 DEF TypeOK, DeliveryInv, Settled, Streams, NoStatus, DrainWait, mainOnly,
      argVars, stdinVars, remoteVars, outVars, drainVars
<1>11. CASE DrainExpires
  BY <1>1, <1>11 DEF TypeOK, DeliveryInv, Settled, Streams, NoStatus, DrainInv, Starting,
      LimitKeptWhenAlone, DrainExpires, mainOnly, NextDrain, argVars, stdinVars, remoteVars,
      outVars, drainVars
<1>12. CASE Cleanup
  BY <1>1, <1>12 DEF TypeOK, DeliveryInv, Settled, Streams, NoStatus, Cleanup, mainOnly,
      argVars, stdinVars, remoteVars, outVars, drainVars
<1>13. CASE Join
  BY <1>1, <1>13, ExitCodeIsByte DEF TypeOK, DeliveryInv, Settled, Streams, NoStatus,
      Join, ioVars, Exit, argVars, stdinVars, remoteVars, outVars, drainVars
<1>14. CASE StdinCheck
  BY <1>1, <1>14 DEF TypeOK, DeliveryInv, Settled, Streams, NoStatus, StdinCheck,
      mainAndRemote, stdinOnly, argVars, stdinVars, remoteVars, outVars, drainVars
<1>15. CASE StdinIdle
  BY <1>1, <1>15 DEF TypeOK, DeliveryInv, Settled, Streams, NoStatus, StdinIdle,
      mainAndRemote, stdinOnly, argVars, stdinVars, remoteVars, outVars, drainVars
<1>16. CASE StdinRead
  BY <1>1, <1>16 DEF TypeOK, DeliveryInv, Settled, Streams, NoStatus, StdinRead,
      mainAndRemote, stdinOnly, argVars, stdinVars, remoteVars, outVars, drainVars
<1>17. CASE StdinBlocking
  BY <1>1, <1>17 DEF TypeOK, DeliveryInv, Settled, Streams, NoStatus, StdinBlocking,
      mainAndRemote, stdinOnly, argVars, stdinVars, remoteVars, outVars, drainVars
<1>18. CASE SendTaken
  BY <1>1, <1>18 DEF TypeOK, DeliveryInv, Settled, Streams, NoStatus, SendTaken, argVars,
      stdinVars, remoteVars, outVars, drainVars
<1>19. CASE SendWait
  BY <1>1, <1>19 DEF TypeOK, DeliveryInv, Settled, Streams, NoStatus, SendWait, mainAndRemote,
      stdinOnly,     argVars, stdinVars, remoteVars, outVars, drainVars
<1>20. CASE SendRaises
  BY <1>1, <1>20 DEF TypeOK, DeliveryInv, Settled, Streams, NoStatus, SendRaises,
      mainAndRemote, stdinOnly, argVars, stdinVars, remoteVars, outVars, drainVars
<1>21. CASE StdinNonBlocking
  BY <1>1, <1>21 DEF TypeOK, DeliveryInv, Settled, Streams, NoStatus, StdinNonBlocking,
      mainAndRemote, stdinOnly, argVars, stdinVars, remoteVars, outVars, drainVars
<1>22. CASE StdinFinish
  BY <1>1, <1>22 DEF TypeOK, DeliveryInv, Settled, Streams, NoStatus, StdinFinish,
      mainAndRemote, stdinOnly, argVars, stdinVars, remoteVars, outVars, drainVars
<1>23. ASSUME NEW s \in Streams, RemoteWrites(s) PROVE DeliveryInv'
  BY <1>1, <1>23 DEF TypeOK, DeliveryInv, Settled, Streams, NoStatus, RemoteWrites,
      remoteOnly, InTransfer, argVars, stdinVars, remoteVars, outVars, drainVars
<1>24. CASE RemoteReads
  BY <1>1, <1>24 DEF TypeOK, DeliveryInv, Settled, Streams, NoStatus, RemoteReads,
      remoteOnly, InTransfer, argVars, stdinVars, remoteVars, outVars, drainVars
<1>25. CASE RemoteExits
  BY <1>1, <1>25 DEF TypeOK, DeliveryInv, Settled, Streams, NoStatus, RemoteExits,
      remoteOnly, InTransfer, argVars, stdinVars, remoteVars, outVars, drainVars
<1>26. CASE RemoteEof
  BY <1>1, <1>26 DEF TypeOK, DeliveryInv, Settled, Streams, NoStatus, RemoteEof,
      remoteOnly, InTransfer, argVars, stdinVars, remoteVars, outVars, drainVars
<1>27. CASE ConnectionCloses
  BY <1>1, <1>27 DEF TypeOK, DeliveryInv, Settled, Streams, NoStatus, ConnectionCloses,
      remoteOnly, InTransfer, argVars, stdinVars, remoteVars, outVars, drainVars
<1>28. CASE Signal
  BY <1>1, <1>28 DEF TypeOK, DeliveryInv, Settled, Streams, NoStatus, Signal, argVars,
      stdinVars, remoteVars, outVars, drainVars
<1>29. CASE Exited
  BY <1>1, <1>29 DEF TypeOK, DeliveryInv, Settled, Streams, NoStatus, Exited, vars,
      argVars, stdinVars, remoteVars, outVars, drainVars
<1>30. QED
  BY <1>2, <1>3, <1>4, <1>5, <1>6, <1>7, <1>8, <1>9, <1>10, <1>11, <1>12, <1>13, <1>14,
      <1>15, <1>16, <1>17, <1>18, <1>19, <1>20, <1>21, <1>22, <1>23, <1>24, <1>25, <1>26,
      <1>27, <1>28, <1>29 DEF Next, MainNext, StartNext, StdinNext, RemoteNext

LEMMA TransferStutter == TransferInv /\ UNCHANGED vars => TransferInv'
  BY DEF TransferInv, TypeOK, UploadInv, DrainInv, DeliveryInv, BlocksAccounted, Running,
      Starting, LimitKeptWhenAlone, Settled, Streams, NoStatus, vars, argVars, stdinVars,
      remoteVars, outVars, drainVars

LEMMA TransferAlways == Spec => []TransferInv
<1>1. TransferInv /\ [Next]_vars => TransferInv'
  BY TypeStep, UploadStep, DrainStep, DeliveryStep, TransferStutter DEF TransferInv
<1>2. QED
  BY TransferInit, <1>1, PTL DEF Spec

-----------------------------------------------------------------------------
(* The theorems. *)

\* The variables keep their types.
THEOREM TransferTypes == Spec => []TypeOK
<1>1. TransferInv => TypeOK
  BY DEF TransferInv
<1>2. QED
  BY <1>1, TransferAlways, PTL

\* Every block of the local input is unread, in hand or with the remote.
THEOREM TransferAccounted == Spec => []BlocksAccounted
<1>1. TransferInv => BlocksAccounted
  BY DEF TransferInv, UploadInv
<1>2. QED
  BY <1>1, TransferAlways, PTL

\* While the remote command and the connection last and nobody has told the
\* thread to stop, the sending side is closed only after the whole input.
THEOREM TransferUploads == Spec => []UploadComplete
<1>1. TransferInv => UploadComplete
  BY TransferAssumption DEF TransferInv, TypeOK, UploadInv, BlocksAccounted, Running, UploadComplete
<1>2. QED
  BY <1>1, TransferAlways, PTL

\* A drain that begins after the stdin thread has ended keeps its limit.
THEOREM TransferLimit == Spec => []LimitKeptWhenAlone
<1>1. TransferInv => LimitKeptWhenAlone
  BY DEF TransferInv, DrainInv
<1>2. QED
  BY <1>1, TransferAlways, PTL

\* Success means that the remote succeeded and that what it wrote was written,
\* unless a signal, a write error or an expired limit cut it short.
THEOREM TransferDelivers == Spec => []ZeroMeansDelivered
<1>1. ASSUME TransferInv PROVE ZeroMeansDelivered
  <2>1. SUFFICES ASSUME exit = 0, ~writeFailed, eof, \A s \in Streams : buffered[s] = 0
                 PROVE  written = remote
    BY <1>1 DEF TransferInv, DeliveryInv, Settled, ZeroMeansDelivered
  <2>2. \A s \in Streams : written[s] = remote[s]
    BY <1>1, <2>1 DEF TransferInv, DeliveryInv, TypeOK, Streams
  <2>3. QED
    BY <1>1, <2>2 DEF TransferInv, TypeOK
<1>2. QED
  BY <1>1, TransferAlways, PTL

-----------------------------------------------------------------------------
(* The argument loop.  parse_args is followed from position to position: the  *)
(* configuration says what the arguments before the position say, so behind   *)
(* the last one it says what RequestMatchesArgv reads from the whole list.    *)

\* What the loop has parsed when it stands at position k: what the arguments
\* before k say, whichever of them are values.
Before(at, k) == {j \in at : j < k}
PortBefore(k) ==
    LET at == Before(Ports, k) IN IF at # {} THEN Given("p", Latest(at)).n ELSE DEFAULT_PORT
LoginBefore(k) ==
    LET at == Before(Logins, k) IN IF at # {} THEN LoginName(Given("l", Latest(at))) ELSE None
DirectivesBefore(k) == {Given("o", j).val : j \in Before(SendEnvs, k)}

\* The configuration's keys, and the SendEnv directives it holds.
IsConfig(c) ==
    /\ DOMAIN c = DOMAIN EmptyConfig
    /\ DOMAIN c.options = DOMAIN NoOptions
    /\ c.options.sendenv \in Seq(Seq(STRING))
Directives(c) == {c.options.sendenv[k] : k \in DOMAIN c.options.sendenv}

NoHostBefore(k) == \A j \in DOMAIN argv : j < k => ~IsHost(j)

ParsedBefore(c, k) ==
    /\ c.username = None
    /\ c.port = PortBefore(k)
    /\ c.login_name = LoginBefore(k)
    /\ Directives(c) = DirectivesBefore(k)

\* In the loop the position never stands on a value and the host is not passed;
\* after it the configuration is the one the whole list asks for.
ScanInv ==
    /\ argv \in Seq(Arguments)
    /\ pc = "scan" =>
         /\ i \in Nat \ {0}
         /\ i <= Len(argv) => ~IsValue(i)
         /\ NoHostBefore(i)
         /\ IsConfig(config)
         /\ ParsedBefore(config, i)
    /\ pc \in {"validate", "connect"} =>
         /\ config.port = ExpectedPort
         /\ config.username = ExpectedUser
         /\ EnvironmentFor(config, LocalEnv) = ExpectedEnv
    /\ RequestMatchesArgv

-----------------------------------------------------------------------------
(* Positions. *)

\* A set of positions up to a bound has a latest one.
LEMMA LatestOf ==
  ASSUME NEW n \in Nat, NEW at, at \subseteq 0..n, at # {}
  PROVE  Latest(at) \in at /\ \A l \in at : l <= Latest(at)
<1> DEFINE back == {n - l : l \in at}
           less == OpToRel(<, Nat)
<1> HIDE DEF less
<1>1. back \subseteq Nat /\ back # {}
  <2>1. PICK w \in at : TRUE
    OBVIOUS
  <2>2. n - w \in back
    BY <2>1
  <2>3. \A l \in at : n - l \in Nat
    OBVIOUS
  <2>4. QED
    BY <2>2, <2>3
<1>2. PICK m \in back : \A l \in back : <<l, m>> \notin less
  <2> HIDE DEF back
  <2>1. QED
    BY <1>1, NatLessThanWellFounded, WFMin DEF less
<1>3. PICK k \in at : m = n - k
  BY <1>2
<1>4. \A l \in at : l <= k
  <2> SUFFICES ASSUME NEW l \in at PROVE ~(n - l < m)
    BY <1>3
  <2>1. n - l \in back /\ <<n - l, m>> \in Nat \X Nat
    BY <1>1, <1>2
  <2>2. QED
    BY <1>2, <2>1 DEF less, OpToRel
<1>5. QED
  BY <1>3, <1>4 DEF Latest

\* A set's latest and earliest positions are the ones with nothing past them.
LEMMA LatestIs ==
  ASSUME NEW at, at \subseteq Int, NEW k \in at, \A l \in at : l <= k
  PROVE  Latest(at) = k
<1>1. \A m \in at : (\A l \in at : l <= m) => m = k
  OBVIOUS
<1>2. QED
  BY <1>1 DEF Latest

LEMMA EarliestIs ==
  ASSUME NEW at, at \subseteq Int, NEW k \in at, \A l \in at : k <= l
  PROVE  Earliest(at) = k
<1>1. \A m \in at : (\A l \in at : m <= l) => m = k
  OBVIOUS
<1>2. QED
  BY <1>1 DEF Earliest

\* The flags in a row before the next position: one more after a flag, none
\* after anything else.
LEMMA FlagsInARow ==
  ASSUME NEW k \in Nat \ {0}
  PROVE  /\ FlagsBefore(k) \in Nat
         /\ FlagsBefore(1) = 0
         /\ FlagsBefore(k + 1) = IF argv[k].form = "flag" THEN FlagsBefore(k) + 1 ELSE 0
<1> DEFINE others(m) == {j \in 1..(m - 1) : argv[j].form # "flag"}
           last(m) == IF others(m) = {} THEN 0 ELSE Latest(others(m))
<1>1. FlagsBefore(k) = k - 1 - last(k) /\ FlagsBefore(k + 1) = k - last(k + 1)
  BY DEF FlagsBefore
<1>2. last(k) \in 0..(k - 1)
  <2>1. CASE others(k) = {}
    BY <2>1
  <2>2. CASE others(k) # {}
    <3>1. others(k) \subseteq 0..(k - 1) /\ k - 1 \in Nat
      OBVIOUS
    <3>2. Latest(others(k)) \in others(k)
      BY <2>2, <3>1, LatestOf
    <3>3. QED
      BY <2>2, <3>2
  <2>3. QED
    BY <2>1, <2>2
<1>3. FlagsBefore(1) = 0
  <2>1. {j \in 1..(1 - 1) : argv[j].form # "flag"} = {}
    OBVIOUS
  <2>2. QED
    BY <2>1 DEF FlagsBefore
<1>4. CASE argv[k].form = "flag"
  <2>1. others(k + 1) = others(k)
    BY <1>4
  <2>2. last(k + 1) = last(k)
    BY <2>1
  <2>3. QED
    BY <1>1, <1>2, <1>3, <1>4, <2>2
<1>5. CASE argv[k].form # "flag"
  <2>1. k \in others(k + 1) /\ others(k + 1) \subseteq Int /\ \A l \in others(k + 1) : l <= k
    BY <1>5
  <2>2. Latest(others(k + 1)) = k
    BY <2>1, LatestIs
  <2>3. last(k + 1) = k
    BY <2>1, <2>2
  <2>4. QED
    BY <1>1, <1>2, <1>3, <1>5, <2>3
<1>6. QED
  BY <1>4, <1>5

\* The argument after a flag that is no value is one, and the one after that is
\* not; after any other argument stands no value.
LEMMA ValuesAlternate ==
  ASSUME NEW k \in Nat \ {0}
  PROVE  /\ ~IsValue(1)
         /\ argv[k].form # "flag" => ~IsValue(k + 1)
         /\ argv[k].form = "flag" /\ ~IsValue(k) => IsValue(k + 1) /\ ~IsValue(k + 2)
<1>1. \A n \in Nat : n % 2 # 1 => (n + 1) % 2 = 1 /\ (n + 2) % 2 # 1
  OBVIOUS
<1>2. 0 % 2 # 1
  OBVIOUS
<1>3. /\ FlagsBefore(k) \in Nat /\ FlagsBefore(1) = 0
      /\ FlagsBefore(k + 1) = IF argv[k].form = "flag" THEN FlagsBefore(k) + 1 ELSE 0
      /\ FlagsBefore(k + 2) = IF argv[k + 1].form = "flag" THEN FlagsBefore(k + 1) + 1 ELSE 0
  <2>1. k + 1 \in Nat \ {0} /\ (k + 1) + 1 = k + 2
    OBVIOUS
  <2>2. QED
    BY <2>1, FlagsInARow
<1> HIDE DEF FlagsBefore
<1>4. QED
  BY <1>1, <1>2, <1>3 DEF IsValue

LEMMA EarliestOf ==
  ASSUME NEW at, at \subseteq Nat, at # {}
  PROVE  Earliest(at) \in at /\ \A l \in at : Earliest(at) <= l
<1> DEFINE less == OpToRel(<, Nat)
<1> HIDE DEF less
<1>1. PICK k \in at : \A l \in at : <<l, k>> \notin less
  BY NatLessThanWellFounded, WFMin DEF less
<1>2. \A l \in at : k <= l
  <2> SUFFICES ASSUME NEW l \in at PROVE ~(l < k)
    OBVIOUS
  <2>1. <<l, k>> \in Nat \X Nat
    OBVIOUS
  <2>2. QED
    BY <1>1, <2>1 DEF less, OpToRel
<1>3. QED
  BY <1>2 DEF Earliest

\* Going on from k to n passes no place but k.
Passes(at, k, n) == \A j \in at : j < n <=> j < k \/ j = k

\* The places before the next position: with the one just passed, which is then
\* the last of them, or without it.
LEMMA NotPassed ==
  ASSUME NEW at, NEW k, NEW n, Passes(at, k, n), k \notin at
  PROVE  Before(at, n) = Before(at, k)
BY DEF Before, Passes

LEMMA JustPassed ==
  ASSUME NEW at, NEW k, NEW n, Passes(at, k, n), k \in at
  PROVE  Before(at, n) = Before(at, k) \cup {k}
BY Zenon DEF Before, Passes

LEMMA LastPassed ==
  ASSUME NEW at, at \subseteq Int, NEW k \in Int, NEW n, Passes(at, k, n), k \in at
  PROVE  Before(at, n) # {} /\ Latest(Before(at, n)) = k
<1>1. Before(at, n) \subseteq Int /\ k \in Before(at, n)
  BY DEF Before, Passes
<1>2. \A l \in Before(at, n) : l <= k
  BY DEF Before, Passes
<1>3. QED
  BY <1>1, <1>2, LatestIs

\* As long as no host has been passed, what an argument gives is in it.
LEMMA GivenHere ==
  ASSUME argv \in Seq(Arguments), NEW k \in DOMAIN argv, NoHostBefore(k), ~IsHost(k),
         ~IsValue(k), NEW f
  PROVE  Given(f, k) =
            IF argv[k].form = "glued" /\ argv[k].flag = f THEN argv[k].text
            ELSE IF argv[k].form = "flag" /\ argv[k].flag = f /\ k < Len(argv)
                 THEN TextOf(argv[k + 1])
            ELSE NoText
<1> DEFINE hosts == {j \in DOMAIN argv : IsHost(j)}
<1>1. k \in Nat /\ k <= Len(argv) /\ Len(argv) \in Nat /\ hosts \subseteq Nat
  OBVIOUS
<1>2. \A j \in hosts : ~(j < k) /\ j # k
  BY DEF NoHostBefore
<1>3. CASE hosts = {}
  <2>1. HostAt = Len(argv) + 1
    BY <1>3 DEF HostAt
  <2>2. QED
    BY <1>1, <2>1 DEF Given
<1>4. CASE hosts # {}
  <2>1. Earliest(hosts) \in hosts
    BY <1>1, <1>4, EarliestOf
  <2>2. HostAt = Earliest(hosts)
    BY <1>4 DEF HostAt
  <2>3. ~(k >= HostAt)
    BY <1>1, <1>2, <2>1, <2>2
  <2>4. QED
    BY <2>3 DEF Given
<1>5. QED
  BY <1>3, <1>4

\* What one step of the loop makes of the configuration, when the argument at k
\* says what Given says.
Takes(c, d, k) ==
    /\ IsConfig(d)
    /\ d.username = c.username
    /\ d.port = IF Given("p", k).is = "num" THEN Given("p", k).n ELSE c.port
    /\ d.login_name = IF Given("l", k) # NoText THEN LoginName(Given("l", k)) ELSE c.login_name
    /\ Directives(d) = Directives(c) \cup
          (IF Given("o", k).is = "opt" /\ Lower(Given("o", k).key) = "sendenv"
           THEN {Given("o", k).val} ELSE {})

\* A step that takes the argument at k and goes on behind it, or behind its value.
LEMMA ParsedNext ==
  ASSUME argv \in Seq(Arguments), NEW k \in DOMAIN argv, NEW n \in {k + 1, k + 2},
         n = k + 2 => IsValue(k + 1), NoHostBefore(k), ~IsHost(k),
         NEW c, NEW d, ParsedBefore(c, k), Takes(c, d, k)
  PROVE  NoHostBefore(n) /\ ParsedBefore(d, n)
<1>1. k \in Int /\ DOMAIN argv \subseteq Int
  OBVIOUS
<1>2. /\ Ports \subseteq Int /\ Logins \subseteq Int /\ SendEnvs \subseteq Int
      /\ k \in Ports <=> Given("p", k).is = "num"
      /\ k \in Logins <=> Given("l", k) # NoText
      /\ k \in SendEnvs <=> Given("o", k).is = "opt" /\ Lower(Given("o", k).key) = "sendenv"
  BY <1>1 DEF Ports, Logins, SendEnvs
<1>3. Passes(Ports, k, n) /\ Passes(Logins, k, n) /\ Passes(SendEnvs, k, n)
  <2>1. n = k + 2 => \A f : Given(f, k + 1) = NoText
    BY DEF Given
  <2>2. NoText.is = "nothing"
    BY DEF NoText
  <2>3. n = k + 2 => k + 1 \notin Ports /\ k + 1 \notin Logins /\ k + 1 \notin SendEnvs
    BY <2>1, <2>2 DEF Ports, Logins, SendEnvs
  <2>4. \A j \in Int : (j < n <=> j < k \/ j = k) \/ (n = k + 2 /\ j = k + 1)
    BY <1>1
  <2>5. QED
    BY <1>2, <2>3, <2>4 DEF Passes
<1> n \in Int
  BY <1>1
<1>4. NoHostBefore(n)
  <2>1. n = k + 2 => ~IsHost(k + 1)
    BY DEF IsHost
  <2>2. \A j \in DOMAIN argv : j < n => j < k \/ j = k \/ (n = k + 2 /\ j = k + 1)
    BY <1>1
  <2>3. QED
    BY <2>1, <2>2 DEF NoHostBefore
<1>5. d.port = PortBefore(n)
  <2>1. CASE k \in Ports
    BY <1>1, <1>2, <1>3, <2>1, LastPassed DEF Takes, PortBefore
  <2>2. CASE k \notin Ports
    <3>1. Before(Ports, n) = Before(Ports, k)
      BY <1>1, <1>2, <1>3, <2>2, NotPassed
    <3>2. QED
      BY <1>2, <2>2, <3>1 DEF Takes, PortBefore, ParsedBefore
  <2>3. QED
    BY <2>1, <2>2
<1>6. d.login_name = LoginBefore(n)
  <2>1. CASE k \in Logins
    BY <1>1, <1>2, <1>3, <2>1, LastPassed DEF Takes, LoginBefore
  <2>2. CASE k \notin Logins
    <3>1. Before(Logins, n) = Before(Logins, k)
      BY <1>1, <1>2, <1>3, <2>2, NotPassed
    <3>2. QED
      BY <1>2, <2>2, <3>1 DEF Takes, LoginBefore, ParsedBefore
  <2>3. QED
    BY <2>1, <2>2
<1>7. Directives(d) = DirectivesBefore(n)
  <2>1. CASE k \in SendEnvs
    <3>1. Before(SendEnvs, n) = Before(SendEnvs, k) \cup {k}
      BY <1>1, <1>2, <1>3, <2>1, JustPassed
    <3>2. Directives(d) = Directives(c) \cup {Given("o", k).val}
      BY <1>2, <2>1 DEF Takes
    <3>3. QED
      BY <3>1, <3>2 DEF DirectivesBefore, ParsedBefore
  <2>2. CASE k \notin SendEnvs
    <3>1. Before(SendEnvs, n) = Before(SendEnvs, k)
      BY <1>1, <1>2, <1>3, <2>2, NotPassed
    <3>2. Directives(d) = Directives(c)
      BY <1>2, <2>2 DEF Takes
    <3>3. QED
      BY <3>1, <3>2 DEF DirectivesBefore, ParsedBefore
  <2>3. QED
    BY <2>1, <2>2
<1>8. QED
  BY <1>4, <1>5, <1>6, <1>7 DEF Takes, ParsedBefore

-----------------------------------------------------------------------------
(* The configuration after one flag. *)

\* A SendEnv directive, and what may be one as far as the options go.
IsDirective(t) == t.is = "opt" /\ Lower(t.key) = "sendenv"
MaySet(t) == IsDirective(t) => t.val \in Seq(STRING)

LEMMA AppliedOption ==
  ASSUME NEW o, DOMAIN o = DOMAIN NoOptions, o.sendenv \in Seq(Seq(STRING)), NEW t, MaySet(t)
  PROVE  LET d == SetOption(o, t)
         IN  /\ DOMAIN d = DOMAIN NoOptions
             /\ d.sendenv = IF IsDirective(t)
                            THEN Append(o.sendenv, t.val) ELSE o.sendenv
             /\ IsDirective(t) => t.val \in Seq(STRING)
<1>1. "sendenv" \in DOMAIN o
  BY DEF NoOptions
<1>2. CASE t.is # "opt"
  BY <1>2 DEF SetOption, IsDirective
<1>3. CASE IsDirective(t)
  <2>1. t.val \in Seq(STRING)
    BY <1>3 DEF MaySet
  <2>2. SetOption(o, t) = [o EXCEPT !.sendenv = Append(@, t.val)]
    BY <1>3 DEF SetOption, IsDirective
  <2>3. QED
    BY <1>1, <1>3, <2>1, <2>2
<1>4. CASE t.is = "opt" /\ ~IsDirective(t)
  <2>1. Lower(t.key) # "sendenv"
    BY <1>4 DEF IsDirective
  <2>2. SetOption(o, t) = [o EXCEPT ![Lower(t.key)] = t.val]
    BY <1>4, <2>1 DEF SetOption
  <2>3. QED
    BY <1>1, <1>4, <2>1, <2>2
<1>5. QED
  BY <1>2, <1>3, <1>4

LEMMA AppliedFlag ==
  ASSUME NEW c, IsConfig(c), NEW f \in SSH_FLAGS_WITH_ARG, NEW t, MaySet(t)
  PROVE  LET d == ApplyFlag(c, f, t)
         IN  /\ IsConfig(d)
             /\ d.username = c.username
             /\ d.port = IF f = "p" /\ t.is = "num" THEN t.n ELSE c.port
             /\ d.login_name = IF f = "l" THEN LoginName(t) ELSE c.login_name
             /\ Directives(d) = Directives(c) \cup
                   (IF f = "o" /\ IsDirective(t) THEN {t.val} ELSE {})
<1> DEFINE d == ApplyFlag(c, f, t)
           o == IF f = "o" THEN SetOption(c.options, t) ELSE c.options
           isDirective == f = "o" /\ IsDirective(t)
<1>1. {"port", "username", "login_name", "options", "identity"} \subseteq DOMAIN c
  BY DEF IsConfig, EmptyConfig
<1>2. /\ DOMAIN d = DOMAIN c
      /\ d.username = c.username
      /\ d.port = IF f = "p" /\ t.is = "num" THEN t.n ELSE c.port
      /\ d.login_name = IF f = "l" THEN LoginName(t) ELSE c.login_name
      /\ d.options = o
  BY <1>1 DEF ApplyFlag
<1>3. c.options.sendenv \in Seq(Seq(STRING)) /\ DOMAIN c.options = DOMAIN NoOptions
  BY DEF IsConfig
<1> HIDE DEF d
<1>4. /\ DOMAIN o = DOMAIN NoOptions
      /\ o.sendenv = IF isDirective THEN Append(c.options.sendenv, t.val)
                     ELSE c.options.sendenv
      /\ isDirective => t.val \in Seq(STRING)
  <2>1. CASE f = "o"
    BY <1>3, <2>1, AppliedOption
  <2>2. CASE f # "o"
    BY <1>3, <2>2
  <2>3. QED
    BY <2>1, <2>2
<1> HIDE DEF o
<1>5. IsConfig(d)
  <2>1. o.sendenv \in Seq(Seq(STRING))
    <3>1. \A q \in Seq(Seq(STRING)), x \in Seq(STRING) : Append(q, x) \in Seq(Seq(STRING))
      OBVIOUS
    <3>2. QED
      BY <1>3, <1>4, <3>1
  <2>2. QED
    BY <1>2, <1>4, <2>1 DEF IsConfig
<1>6. Directives(d) = Directives(c) \cup (IF isDirective THEN {t.val} ELSE {})
  <2> DEFINE q == c.options.sendenv
  <2>1. d.options.sendenv = IF isDirective THEN Append(q, t.val) ELSE q
    BY <1>2, <1>4
  <2>2. q \in Seq(Seq(STRING)) /\ (isDirective => t.val \in Seq(STRING))
    BY <1>3, <1>4
  <2>3. CASE isDirective
    <3>1. /\ DOMAIN Append(q, t.val) = DOMAIN q \cup {Len(q) + 1}
          /\ Len(q) + 1 \notin DOMAIN q
          /\ \A k \in DOMAIN q : Append(q, t.val)[k] = q[k]
          /\ Append(q, t.val)[Len(q) + 1] = t.val
      <4> HIDE DEF q
      <4>1. QED
        BY <2>2, <2>3
    <3>2. d.options.sendenv = Append(q, t.val)
      BY <2>1, <2>3
    <3> HIDE DEF q, isDirective
    <3>3. {Append(q, t.val)[k] : k \in DOMAIN Append(q, t.val)}
             = {q[k] : k \in DOMAIN q} \cup {t.val}
      BY <3>1
    <3>4. QED
      BY <2>3, <3>2, <3>3 DEF Directives, q
  <2>4. CASE ~isDirective
    BY <2>1, <2>4 DEF Directives
  <2>5. QED
    BY <2>3, <2>4
<1>7. QED
  BY <1>2, <1>5, <1>6 DEF d

\* The text of an argument and the kinds of one.
LEMMA TextTypes ==
  ASSUME NEW a \in Arguments
  PROVE  /\ a.form \in {"glued", "flag", "verbose", "standalone", "word"}
         /\ a.form = "glued" => a.flag \in SSH_FLAGS_WITH_ARG /\ MaySet(a.text)
         /\ a.form = "flag" => a.flag \in SSH_FLAGS_WITH_ARG
         /\ MaySet(TextOf(a))
         /\ TextOf(a) # NoText
         /\ a.form = "glued" => a.text # NoText
<1>1. \A t \in Texts : t.is # "nothing" /\ MaySet(t)
  <2>1. \A t \in Texts : t.is \in {"num", "name", "opt", "host", "cmd"}
    BY DEF Texts
  <2>2. \A t \in Texts : MaySet(t)
    BY DEF Texts, MaySet, IsDirective, Lower
  <2>3. QED
    BY <2>1, <2>2
<1>2. NoText.is = "nothing"
  BY DEF NoText
<1>3. Name("flag").is = "name"
  BY DEF Name
<1>4. a.form \in {"glued", "flag", "verbose", "standalone", "word"}
  BY DEF Arguments
<1>5. /\ a.form = "glued" => a.flag \in SSH_FLAGS_WITH_ARG /\ a.text \in Texts
      /\ a.form = "flag" => a.flag \in SSH_FLAGS_WITH_ARG
      /\ a.form = "word" => a.text \in Texts
  BY DEF Arguments, GLUEABLE_FLAGS, SSH_FLAGS_WITH_ARG
<1>6. TextOf(a).is # "nothing" /\ MaySet(TextOf(a))
  BY <1>1, <1>3, <1>5 DEF TextOf, MaySet, IsDirective
<1>7. QED
  BY <1>1, <1>2, <1>4, <1>5, <1>6

-----------------------------------------------------------------------------
(* The steps of the loop. *)

AtArgument == ScanInv /\ pc = "scan" /\ i <= Len(argv)

LEMMA HereFacts ==
  ASSUME AtArgument
  PROVE  /\ argv \in Seq(Arguments) /\ i \in DOMAIN argv /\ argv[i] \in Arguments
         /\ i \in Nat \ {0} /\ ~IsValue(i) /\ NoHostBefore(i)
         /\ IsConfig(config) /\ ParsedBefore(config, i)
  BY DEF AtArgument, ScanInv

LEMMA GluedTaken ==
  ASSUME AtArgument, argv[i].form = "glued"
  PROVE  Takes(config, ApplyGlued(config, argv[i]), i)
<1>1. ~IsHost(i)
  BY DEF IsHost
<1>2. \A f : Given(f, i) = IF argv[i].flag = f THEN argv[i].text ELSE NoText
  BY <1>1, HereFacts, GivenHere
<1>3. NoText.is = "nothing"
  BY DEF NoText
<1>4. argv[i].flag \in SSH_FLAGS_WITH_ARG /\ MaySet(argv[i].text) /\ argv[i].text # NoText
  BY HereFacts, TextTypes
<1>5. QED
  BY <1>2, <1>3, <1>4, HereFacts, AppliedFlag DEF Takes, ApplyGlued, IsDirective

LEMMA FlagTaken ==
  ASSUME AtArgument, argv[i].form = "flag"
  PROVE  Takes(config, IF i < Len(argv)
                       THEN ApplyFlag(config, argv[i].flag, TextOf(argv[i + 1]))
                       ELSE config, i)
<1>1. ~IsHost(i)
  BY DEF IsHost
<1>2. \A f : Given(f, i) = IF argv[i].flag = f /\ i < Len(argv)
                           THEN TextOf(argv[i + 1]) ELSE NoText
  BY <1>1, HereFacts, GivenHere
<1>3. NoText.is = "nothing"
  BY DEF NoText
<1>4. CASE i < Len(argv)
  <2>1. argv[i + 1] \in Arguments
    BY <1>4, HereFacts
  <2>2. /\ argv[i].flag \in SSH_FLAGS_WITH_ARG
        /\ MaySet(TextOf(argv[i + 1])) /\ TextOf(argv[i + 1]) # NoText
    BY <2>1, HereFacts, TextTypes
  <2>3. QED
    BY <1>2, <1>3, <1>4, <2>2, HereFacts, AppliedFlag DEF Takes, IsDirective
<1>5. CASE ~(i < Len(argv))
  BY <1>2, <1>3, <1>5, HereFacts DEF Takes
<1>6. QED
  BY <1>4, <1>5

LEMMA StandaloneTaken ==
  ASSUME AtArgument, argv[i].form \in {"verbose", "standalone"}
  PROVE  Takes(config, ApplyStandalone(config, argv[i]), i)
<1>1. ~IsHost(i)
  BY DEF IsHost
<1>2. \A f : Given(f, i) = NoText
  BY <1>1, HereFacts, GivenHere
<1>3. NoText.is = "nothing"
  BY DEF NoText
<1> DEFINE d == ApplyStandalone(config, argv[i])
<1>4. IsConfig(d) /\ d.username = config.username /\ d.port = config.port
      /\ d.login_name = config.login_name /\ d.options = config.options
  BY HereFacts DEF ApplyStandalone, IsConfig, EmptyConfig
<1>5. QED
  BY <1>2, <1>3, <1>4 DEF Takes, Directives

\* What is said of the argument list stays as long as the list does.
LEMMA ArgvFrame ==
  ASSUME argv' = argv
  PROVE  /\ HostAt' = HostAt
         /\ \A k : (IsValue(k)' <=> IsValue(k)) /\ (IsHost(k)' <=> IsHost(k))
         /\ \A f, k : Given(f, k)' = Given(f, k)
         /\ Ports' = Ports /\ Logins' = Logins /\ SendEnvs' = SendEnvs
         /\ ExpectedPort' = ExpectedPort /\ ExpectedUser' = ExpectedUser
         /\ ExpectedEnv' = ExpectedEnv
<1>1. \A k : (IsValue(k)' <=> IsValue(k)) /\ (IsHost(k)' <=> IsHost(k))
  BY DEF IsValue, FlagsBefore, IsHost
<1>2. HostAt' = HostAt
  BY DEF HostAt, IsHost, IsValue, FlagsBefore
<1>3. \A f, k : Given(f, k)' = Given(f, k)
  BY <1>1, <1>2 DEF Given
<1>4. Ports' = Ports /\ Logins' = Logins /\ SendEnvs' = SendEnvs
  BY <1>3 DEF Ports, Logins, SendEnvs
<1>5. HostText' = HostText
  BY <1>2 DEF HostText
<1>6. ExpectedPort' = ExpectedPort /\ ExpectedUser' = ExpectedUser
  BY <1>3, <1>4, <1>5 DEF ExpectedPort, ExpectedUser
<1>7. ExpectedEnv' = ExpectedEnv
  BY <1>3, <1>4 DEF ExpectedEnv
<1>8. QED
  BY <1>1, <1>2, <1>3, <1>4, <1>6, <1>7

\* The loop goes on behind the argument, or behind the value of a flag.
LEMMA LoopStep ==
  ASSUME ScanInv, ScanGlued \/ ScanFlag \/ ScanStandalone
  PROVE  ScanInv'
<1>1. /\ AtArgument /\ argv' = argv /\ pc' = "scan" /\ ~IsHost(i)
      /\ Takes(config, config', i)
      /\ \/ i' = i + 1 /\ argv[i].form # "flag"
         \/ i' = i + 2 /\ argv[i].form = "flag"
  <2>1. CASE ScanGlued
    <3>1. AtArgument /\ argv[i].form = "glued"
      BY <2>1 DEF ScanGlued, Scanning, AtArgument
    <3>2. QED
      BY <2>1, <3>1, GluedTaken DEF ScanGlued, Scanning, IsHost
  <2>2. CASE ScanFlag
    <3>1. AtArgument /\ argv[i].form = "flag"
      BY <2>2 DEF ScanFlag, Scanning, AtArgument
    <3>2. QED
      BY <2>2, <3>1, FlagTaken DEF ScanFlag, Scanning, IsHost
  <2>3. CASE ScanStandalone
    <3>1. AtArgument /\ argv[i].form \in {"verbose", "standalone"}
      BY <2>3 DEF ScanStandalone, Scanning, AtArgument
    <3>2. QED
      BY <2>3, <3>1, StandaloneTaken DEF ScanStandalone, Scanning, IsHost
  <2>4. QED
    BY <2>1, <2>2, <2>3
<1>2. /\ argv \in Seq(Arguments) /\ i \in DOMAIN argv /\ i \in Nat \ {0}
      /\ ~IsValue(i) /\ NoHostBefore(i) /\ ParsedBefore(config, i)
  BY <1>1, HereFacts
<1>3. ~IsValue(i') /\ (i' = i + 2 => IsValue(i + 1))
  BY <1>1, <1>2, ValuesAlternate
<1>4. i' \in {i + 1, i + 2} /\ i' \in Nat \ {0}
  BY <1>1, <1>2
<1>5. NoHostBefore(i') /\ ParsedBefore(config', i')
  BY <1>1, <1>2, <1>3, <1>4, ParsedNext
<1>6. IsConfig(config')
  BY <1>1 DEF Takes
<1>7. (~IsValue(i))' /\ NoHostBefore(i)' /\ ParsedBefore(config, i)'
  <2>1. /\ \A k : (IsValue(k)' <=> IsValue(k)) /\ (IsHost(k)' <=> IsHost(k))
        /\ \A f, k : Given(f, k)' = Given(f, k)
        /\ Ports' = Ports /\ Logins' = Logins /\ SendEnvs' = SendEnvs
    BY <1>1, ArgvFrame
  <2>2. (~IsValue(i))'
    BY <1>1, <1>3 DEF IsValue, FlagsBefore
  <2>3. NoHostBefore(i)'
    BY <1>1, <1>5, <2>1 DEF NoHostBefore
  <2>4. ParsedBefore(config, i)'
    BY <1>5, <2>1 DEF ParsedBefore, PortBefore, LoginBefore, DirectivesBefore
  <2>5. QED
    BY <2>2, <2>3, <2>4
<1>8. IsConfig(config)'
  BY <1>6 DEF IsConfig
<1>9. QED
  BY <1>1, <1>2, <1>4, <1>7, <1>8 DEF ScanInv, RequestMatchesArgv


-----------------------------------------------------------------------------
(* The end of the loop, and the connection. *)

\* What a configuration asks for when it says what the whole list does.
AsksAsListed(c) ==
    /\ c.port = ExpectedPort
    /\ c.username = ExpectedUser
    /\ EnvironmentFor(c, LocalEnv) = ExpectedEnv

\* Nothing is given from k on: what is parsed before k is all there is.
LEMMA AllParsed ==
  ASSUME NEW k, \A at \in {Ports, Logins, SendEnvs} : Before(at, k) = at,
         NEW c, ParsedBefore(c, k)
  PROVE  /\ c.port = IF Ports # {} THEN Given("p", Latest(Ports)).n ELSE DEFAULT_PORT
         /\ c.login_name = IF Logins # {} THEN LoginName(Given("l", Latest(Logins))) ELSE None
         /\ EnvironmentFor(c, LocalEnv) = ExpectedEnv
         /\ c.username = None
<1>1. /\ c.port = IF Ports # {} THEN Given("p", Latest(Ports)).n ELSE DEFAULT_PORT
      /\ c.login_name = IF Logins # {} THEN LoginName(Given("l", Latest(Logins))) ELSE None
      /\ c.username = None
  BY DEF ParsedBefore, PortBefore, LoginBefore
<1>2. Directives(c) = {Given("o", j).val : j \in SendEnvs}
  BY DEF ParsedBefore, DirectivesBefore
<1>3. \A v : (\E j \in DOMAIN c.options.sendenv : Matches(v, c.options.sendenv[j]))
             <=> \E d \in Directives(c) : Matches(v, d)
  BY DEF Directives
<1>4. \A v : (\E j \in SendEnvs : Matches(v, Given("o", j).val))
             <=> \E d \in {Given("o", j).val : j \in SendEnvs} : Matches(v, d)
  OBVIOUS
<1>5. EnvironmentFor(c, LocalEnv) = ExpectedEnv
  BY <1>2, <1>3, <1>4 DEF EnvironmentFor, ExpectedEnv
<1>6. QED
  BY <1>1, <1>5

\* From the host on, nothing is given.
LEMMA NothingPastHost ==
  ASSUME argv \in Seq(Arguments), NEW k \in Nat, HostAt <= k \/ Len(argv) < k, HostAt \in Nat
  PROVE  \A at \in {Ports, Logins, SendEnvs} : Before(at, k) = at
<1>1. NoText.is = "nothing"
  BY DEF NoText
<1>2. \A j \in DOMAIN argv : j < k \/ \A f : Given(f, j) = NoText
  BY DEF Given
<1>3. \A j \in Ports \cup Logins \cup SendEnvs : j < k
  BY <1>1, <1>2 DEF Ports, Logins, SendEnvs
<1>4. QED
  BY <1>3 DEF Before

LEMMA HostStep ==
  ASSUME ScanInv, ScanHost
  PROVE  ScanInv'
<1>1. AtArgument /\ argv[i].form = "word" /\ argv' = argv /\ request' = request
  BY DEF ScanHost, Scanning, AtArgument
<1>2. /\ argv \in Seq(Arguments) /\ i \in DOMAIN argv /\ i \in Nat \ {0} /\ ~IsValue(i)
      /\ NoHostBefore(i) /\ IsConfig(config) /\ ParsedBefore(config, i)
  BY <1>1, HereFacts
<1>3. HostAt = i
  <2> DEFINE hosts == {j \in DOMAIN argv : IsHost(j)}
  <2>1. i \in hosts /\ hosts \subseteq Int
    BY <1>1, <1>2 DEF IsHost
  <2>2. \A j \in hosts : i <= j
    BY <1>2 DEF NoHostBefore
  <2>3. Earliest(hosts) = i
    BY <2>1, <2>2, EarliestIs
  <2>4. QED
    BY <2>1, <2>3 DEF HostAt
<1>4. HostText = argv[i].text
  <2>1. ~(i > Len(argv))
    BY <1>2
  <2>2. QED
    BY <1>3, <2>1 DEF HostText
<1>5. \A at \in {Ports, Logins, SendEnvs} : Before(at, i) = at
  BY <1>2, <1>3, NothingPastHost
<1>6. /\ config.port = IF Ports # {} THEN Given("p", Latest(Ports)).n ELSE DEFAULT_PORT
      /\ config.login_name = IF Logins # {} THEN LoginName(Given("l", Latest(Logins))) ELSE None
      /\ EnvironmentFor(config, LocalEnv) = ExpectedEnv
      /\ config.username = None
  BY <1>2, <1>5, AllParsed
<1> DEFINE rest == SubSeq(argv, i + 1, Len(argv))
           c == DecomposeHost(config, argv[i].text)
           d == IF rest = <<>> THEN c ELSE [c EXCEPT !.command = RemoteCommand(rest)]
<1>7. \/ pc' = "exited"
      \/ pc' = "validate" /\ config' = ResolveUser(d)
  BY DEF ScanHost, Exit
<1>8. CASE pc' = "exited"
  BY <1>1, <1>2, <1>8 DEF ScanInv, RequestMatchesArgv
<1>9. CASE pc' = "validate" /\ config' = ResolveUser(d)
  <2>1. {"port", "username", "hostname", "login_name", "options", "command"} \subseteq DOMAIN config
    BY <1>2 DEF IsConfig, EmptyConfig
  <2>2. /\ DOMAIN c = DOMAIN config
        /\ c.login_name = config.login_name /\ c.options = config.options
        /\ c.port = IF HostText.is = "host" /\ HostText.suffix = "port" THEN HostText.n
                    ELSE config.port
        /\ c.username = IF HostText.is = "host" THEN HostText.user ELSE None
    <3>1. Name("").is = "name"
      BY DEF Name
    <3>2. QED
      BY <1>4, <1>6, <2>1, <3>1 DEF DecomposeHost
  <2> HIDE DEF c
  <2>3. /\ DOMAIN d = DOMAIN c /\ d.login_name = c.login_name /\ d.options = c.options
        /\ d.port = c.port /\ d.username = c.username
    BY <2>1, <2>2
  <2> HIDE DEF d
  <2>4. /\ config'.port = d.port /\ config'.options = d.options
        /\ config'.username = UserOf(d.login_name, d.username)
    BY <1>9, <2>1, <2>2, <2>3 DEF ResolveUser
  <2>5. AsksAsListed(config')
    BY <1>6, <2>2, <2>3, <2>4 DEF AsksAsListed, ExpectedPort, ExpectedUser, EnvironmentFor
  <2>6. QED
    BY <1>1, <1>2, <1>9, <2>5, ArgvFrame
        DEF ScanInv, RequestMatchesArgv, AsksAsListed, EnvironmentFor
<1>10. QED
  BY <1>7, <1>8, <1>9

LEMMA EndStep ==
  ASSUME ScanInv, ScanEnds
  PROVE  ScanInv'
<1>1. /\ pc = "scan" /\ i > Len(argv) /\ argv' = argv /\ request' = request
      /\ config' = ResolveUser(config) /\ pc' = "validate"
  BY DEF ScanEnds
<1>2. /\ argv \in Seq(Arguments) /\ i \in Nat \ {0} /\ NoHostBefore(i)
      /\ IsConfig(config) /\ ParsedBefore(config, i)
  BY <1>1 DEF ScanInv
<1>3. HostAt = Len(argv) + 1
  <2>1. {j \in DOMAIN argv : IsHost(j)} = {}
    BY <1>1, <1>2 DEF NoHostBefore
  <2>2. QED
    BY <2>1 DEF HostAt
<1>4. HostText.is = "name"
  BY <1>2, <1>3 DEF HostText, Name
<1>5. \A at \in {Ports, Logins, SendEnvs} : Before(at, i) = at
  BY <1>1, <1>2, <1>3, NothingPastHost
<1>6. /\ config.port = IF Ports # {} THEN Given("p", Latest(Ports)).n ELSE DEFAULT_PORT
      /\ config.login_name = IF Logins # {} THEN LoginName(Given("l", Latest(Logins))) ELSE None
      /\ EnvironmentFor(config, LocalEnv) = ExpectedEnv
      /\ config.username = None
  BY <1>2, <1>5, AllParsed
<1>7. {"port", "username", "login_name", "options"} \subseteq DOMAIN config
  BY <1>2 DEF IsConfig, EmptyConfig
<1>8. /\ config'.port = config.port /\ config'.options = config.options
      /\ config'.username = UserOf(config.login_name, config.username)
  BY <1>1, <1>7 DEF ResolveUser
<1>9. AsksAsListed(config')
  BY <1>4, <1>6, <1>8 DEF AsksAsListed, ExpectedPort, ExpectedUser, EnvironmentFor
<1>10. QED
  BY <1>1, <1>2, <1>9, ArgvFrame DEF ScanInv, RequestMatchesArgv, AsksAsListed, EnvironmentFor

LEMMA MainStep ==
  ASSUME ScanInv, Validate \/ Connect \/ OpenChannel
  PROVE  ScanInv'
<1>1. CASE Validate
  <2>1. pc = "validate" /\ pc' \in {"connect", "exited"} /\ UNCHANGED argVars
    BY <1>1 DEF Validate, Exit
  <2>2. QED
    BY <2>1, ArgvFrame DEF ScanInv, RequestMatchesArgv, argVars, EnvironmentFor
<1>2. CASE Connect
  <2>1. pc = "connect" /\ UNCHANGED <<argv, i, config>>
        /\ \/ pc' = "exited"
           \/ pc' = "exec" /\ request' = RequestOf(config, LocalEnv)
    BY <1>2 DEF Connect, Exit
  <2>2. RequestOf(config, LocalEnv).port = config.port
        /\ RequestOf(config, LocalEnv).username = config.username
        /\ RequestOf(config, LocalEnv).env = EnvironmentFor(config, LocalEnv)
    BY DEF RequestOf
  <2>3. QED
    BY <2>1, <2>2, ArgvFrame DEF ScanInv, RequestMatchesArgv
<1>3. CASE OpenChannel
  <2>1. pc' \in {"loop", "exited"} /\ argv' \in {argv, <<>>}
    BY <1>3 DEF OpenChannel, Exit, argVars
  <2>2. argv' \in Seq(Arguments)
    <3>1. <<>> \in Seq(Arguments)
      OBVIOUS
    <3>2. QED
      BY <2>1, <3>1 DEF ScanInv
  <2>3. QED
    BY <2>1, <2>2 DEF ScanInv, RequestMatchesArgv
<1>4. QED
  BY <1>1, <1>2, <1>3

\* The transfer reads the arguments no more, and does not go back to the start.
LEMMA TransferFrame ==
  ASSUME Next, ~StartNext, ~OpenChannel
  PROVE  UNCHANGED argVars /\ (UNCHANGED pc \/ pc' \notin Starting)
<1>1. CASE LoopCheck \/ CheckStatus \/ CheckClosed
  BY <1>1 DEF LoopCheck, CheckStatus, CheckClosed, BeginDrain, mainOnly, Starting
<1>2. ASSUME NEW s \in Streams, PollStream(s)
      PROVE  UNCHANGED argVars /\ pc' \notin Starting
  BY <1>2 DEF PollStream, Take, NextStep, mainOnly, Starting, Streams
<1>3. CASE DrainData \/ DrainEnd \/ DrainWait \/ DrainExpires
  BY <1>3 DEF DrainData, DrainEnd, DrainWait, DrainExpires, Take, NextDrain, mainOnly, Starting
<1>4. CASE Cleanup \/ Join
  BY <1>4 DEF Cleanup, Join, Exit, mainOnly, Starting
<1>5. CASE StdinNext
  BY <1>5 DEF StdinNext, StdinCheck, StdinIdle, StdinRead, StdinBlocking, SendTaken,
      SendWait, SendRaises, StdinNonBlocking, StdinFinish, mainAndRemote, stdinOnly
<1>6. CASE RemoteNext
  BY <1>6 DEF RemoteNext, RemoteWrites, RemoteReads, RemoteExits, RemoteEof,
      ConnectionCloses, remoteOnly
<1>7. CASE Signal \/ Exited
  BY <1>7 DEF Signal, Exited, vars
<1>8. QED
  BY <1>1, <1>2, <1>3, <1>4, <1>5, <1>6, <1>7 DEF Next, MainNext, StartNext

LEMMA ScanInit == Init => ScanInv
<1>1. SUFFICES ASSUME Init PROVE ScanInv
  OBVIOUS
<1>2. argv \in Seq(Arguments) /\ i = 1 /\ config = EmptyConfig /\ pc = "scan"
  BY <1>1, TransferAssumption DEF Init
<1>3. ~IsValue(1)
  BY ValuesAlternate
<1>4. NoHostBefore(1)
  BY <1>2 DEF NoHostBefore
<1>5. IsConfig(EmptyConfig) /\ Directives(EmptyConfig) = {}
  <2>1. EmptyConfig.options = NoOptions
    BY DEF EmptyConfig
  <2>2. NoOptions.sendenv = <<>>
    BY DEF NoOptions
  <2>3. <<>> \in Seq(Seq(STRING)) /\ DOMAIN <<>> = {}
    OBVIOUS
  <2>4. QED
    BY <2>1, <2>2, <2>3 DEF IsConfig, Directives
<1>6. Before(Ports, 1) = {} /\ Before(Logins, 1) = {} /\ Before(SendEnvs, 1) = {}
  BY <1>2 DEF Before, Ports, Logins, SendEnvs
<1>7. ParsedBefore(EmptyConfig, 1)
  BY <1>5, <1>6 DEF ParsedBefore, PortBefore, LoginBefore, DirectivesBefore, EmptyConfig
<1>8. QED
  BY <1>2, <1>3, <1>4, <1>5, <1>7 DEF ScanInv, RequestMatchesArgv

LEMMA ScanStep ==
  ASSUME ScanInv, [Next]_vars
  PROVE  ScanInv'
<1>1. ASSUME UNCHANGED argVars, UNCHANGED pc \/ pc' \notin Starting
      PROVE  ScanInv'
  <2>1. argv' = argv /\ i' = i /\ config' = config /\ request' = request
    BY <1>1 DEF argVars
  <2>2. CASE pc' \notin Starting
    BY <2>1, <2>2 DEF ScanInv, RequestMatchesArgv, Starting
  <2>3. CASE pc' = pc
    <3>1. (IsValue(i)' <=> IsValue(i)) /\ (NoHostBefore(i)' <=> NoHostBefore(i))
      BY <2>1 DEF NoHostBefore, IsHost, IsValue, FlagsBefore
    <3>2. ParsedBefore(config, i)' <=> ParsedBefore(config, i)
      BY <2>1, ArgvFrame DEF ParsedBefore, PortBefore, LoginBefore, DirectivesBefore
    <3>3. QED
      BY <2>1, <2>3, <3>1, <3>2, ArgvFrame DEF ScanInv, RequestMatchesArgv, IsConfig, EnvironmentFor
  <2>4. QED
    BY <1>1, <2>2, <2>3
<1>2. CASE StartNext \/ OpenChannel
  BY <1>2, LoopStep, HostStep, EndStep, MainStep DEF StartNext
<1>3. CASE Next /\ ~StartNext /\ ~OpenChannel
  BY <1>1, <1>3, TransferFrame
<1>4. CASE UNCHANGED vars
  BY <1>1, <1>4 DEF vars
<1>5. QED
  BY <1>2, <1>3, <1>4

\* What the connection asks for is what the argument list says.
THEOREM RequestAsListed == Spec => []RequestMatchesArgv
<1>1. ScanInv => RequestMatchesArgv
  BY DEF ScanInv
<1>2. QED
  BY <1>1, ScanInit, ScanStep, PTL DEF Spec
=============================================================================
