-------------------------- MODULE SshTransferProps --------------------------
(* What the git SSH wrapper promises: its argument loop, its transfer.        *)
EXTENDS SshTransfer, FiniteSets

\* The types of the variables of the transfer.
TypeOK ==
    /\ pc \in {"scan", "validate", "connect", "exec", "loop", "stdout",
               "stderr", "status", "closed", "drain", "cleanup", "join",
               "exited"}
    /\ spc \in {"off", "check", "read", "unlimit", "send", "limit", "abandon",
                "finish", "done"}
    /\ cur \in Streams
    /\ timeout \in {"none", "zero", "drain"}
    /\ waiting \in {"idle", "none", "zero", "drain"}
    /\ sendLimit \in {"idle", "none", "zero", "drain"}
    /\ left \in 0..StdinBlocks /\ block \in 0..1 /\ sent \in 0..StdinBlocks
    /\ status \in StatusCodes \cup {NoStatus}
    /\ remote \in [Streams -> Nat]
    /\ buffered \in [Streams -> Nat]
    /\ written \in [Streams -> Nat]
    /\ drain \in {"no", "alone", "shared"}
    /\ expired \subseteq {"zero", "none", "drain"}
    /\ {shutdown_event, signalled, window, eof, closed, readFailed, eofSent, writeFailed}
          \subseteq BOOLEAN
    /\ exit \in StatusCodes \cup {NoStatus, 1, 255}

-----------------------------------------------------------------------------
(* The argument loop against a definition that does not walk the list.       *)

Latest(at) == CHOOSE k \in at : \A l \in at : l <= k
Earliest(at) == CHOOSE k \in at : \A l \in at : k <= l

\* How many flags that take a value stand in a row just before position k.
FlagsBefore(k) ==
    LET others == {j \in 1..(k - 1) : argv[j].form # "flag"}
    IN  k - 1 - (IF others = {} THEN 0 ELSE Latest(others))

\* An argument is a value when the flag before it is not one itself.
IsValue(k) == FlagsBefore(k) % 2 = 1

IsHost(k) == argv[k].form = "word" /\ ~IsValue(k)

\* The position of the host, or one past the end.
HostAt ==
    LET hosts == {k \in DOMAIN argv : IsHost(k)}
    IN  IF hosts = {} THEN Len(argv) + 1 ELSE Earliest(hosts)

\* The text given to flag f at position k, if any.
NoText == [is |-> "nothing"]
Given(f, k) ==
    IF k >= HostAt \/ IsValue(k) THEN NoText
    ELSE IF argv[k].form = "glued" /\ argv[k].flag = f THEN argv[k].text
    ELSE IF argv[k].form = "flag" /\ argv[k].flag = f /\ k < Len(argv)
         THEN TextOf(argv[k + 1])
    ELSE NoText

\* Where a port that is a number, a login name, a SendEnv directive is given.
Ports == {k \in DOMAIN argv : Given("p", k).is = "num"}
Logins == {k \in DOMAIN argv : Given("l", k) # NoText}
SendEnvs == {k \in DOMAIN argv : Given("o", k).is = "opt" /\ Lower(Given("o", k).key) = "sendenv"}

HostText == IF HostAt > Len(argv) THEN Name("") ELSE argv[HostAt].text

ExpectedPort ==
    IF HostText.is = "host" /\ HostText.suffix = "port" THEN HostText.n
    ELSE IF Ports # {} THEN Given("p", Latest(Ports)).n ELSE DEFAULT_PORT

ExpectedUser ==
    UserOf(IF Logins # {} THEN LoginName(Given("l", Latest(Logins))) ELSE None,
           IF HostText.is = "host" THEN HostText.user ELSE None)

ExpectedEnv ==
    {v \in LocalEnv : \E k \in SendEnvs : Matches(v, Given("o", k).val)}

\* What the connection asks for is what the argument list says, whichever
\* arguments are swallowed as values: the port of the host string, else the
\* last -p that is a number; the last -l, else user@; and each local variable
\* that a SendEnv directive of its own matches (parse_args, main).
RequestMatchesArgv ==
    pc = "exec" =>
        /\ request.port = ExpectedPort
        /\ request.username = ExpectedUser
        /\ request.env = ExpectedEnv

-----------------------------------------------------------------------------
\* Every block of the local input is unread, in hand, or with the remote:
\* none is sent twice or skipped.
BlocksAccounted ==
    sent + block + left = StdinBlocks

\* The upload is not cut short: as long as the run goes on, the remote has not
\* ended and the connection stands, the stdin thread closes the sending side
\* only when the remote has taken the whole input or the rest of it cannot be
\* read (forward_stdin's blocking sends, lines 389-396 and 433-441).
UploadComplete ==
    eofSent /\ ~shutdown_event /\ status = NoStatus /\ ~closed /\ ~readFailed
        => sent = StdinBlocks

\* A drain that begins after the stdin thread has ended waits with the five
\* seconds of DEFAULT_DRAIN_TIMEOUT each time, neither less nor for ever.
LimitKeptWhenAlone ==
    drain = "alone" => waiting \in {"idle", "drain"} /\ expired \subseteq {"drain"}

\* The process reports success only when the remote did, and then everything
\* the remote wrote has been written, unless a signal, a local write error or
\* an expired limit cut the output short.
ZeroMeansDelivered ==
    exit = 0 =>
        /\ status = 0
        /\ signalled \/ writeFailed \/ expired # {} \/ written = remote

\* There is a reason for the process to end.
Ending == status # NoStatus \/ closed \/ signalled \/ writeFailed

\* The drain receives without a limit: the stdin thread has taken it away.
HeldByStdin == pc = "drain" /\ waiting = "none" /\ buffered[cur] = 0 /\ ~eof /\ ~closed

\* Once the remote command has ended, the connection is gone, a signal came or
\* a local write failed, the process ends, also without an end of the remote's
\* output and with a stdin thread that is stuck in a send (the two-second
\* join).  There is one thing that holds it: a receive of the final drain that
\* waits without a limit, for ever, for a remote that sends nothing and does
\* not end; and there is none in a drain that begins after the stdin thread
\* has ended.
RunEnds ==
    /\ Ending ~> (pc = "exited" \/ []HeldByStdin)
    /\ Ending ~> (pc = "exited" \/ drain = "shared")

\* The documentation's promise that the final drain prevents truncation: only
\* its five-second limit, a signal or a write error can cost output.
NoSilentTruncation ==
    exit = 0 /\ ~signalled /\ ~writeFailed /\ "drain" \notin expired
        => written = remote

\* And its promise that the five seconds prevent indefinite hangs, also with
\* servers that never send EOF.
NoIndefiniteHang == Ending ~> (pc = "exited")

=============================================================================
