------------------------------- MODULE SshArgs -------------------------------
(* The command line of the git SSH wrapper (docs/ssh_git_wrapper_v3.py) and   *)
(* what main() makes of it before it opens a connection.  An argument is a    *)
(* record: its form as the parser tells the forms apart, and the text it      *)
(* carries, as a record too.  Text is never looked at letter by letter: the   *)
(* code only asks whether it is a number, whether it holds "=", and how a     *)
(* host string is written.                                                    *)
EXTENDS Integers, Sequences

None == "none"

\* Module constants (lines 69-74); times in seconds.
DEFAULT_PORT == 22
DEFAULT_USER == "git"
DEFAULT_CONNECT_TIMEOUT == 30
DEFAULT_KEEPALIVE_INTERVAL == 30

\* Flags that take the next argument, and the ones that may be glued to it.
\* The other flags of the first set (-F, -J, ...) are stored nowhere: "F"
\* stands for all of them.
SSH_FLAGS_WITH_ARG == {"p", "i", "l", "o", "F"}
GLUEABLE_FLAGS == {"p", "i", "l", "o"}

\* Option names are matched without regard to case (key.lower()).
Lower(k) == IF k = "SendEnv" THEN "sendenv" ELSE k

\* The text of an argument.  Only a text of kind "num" passes int().
Num(n)      == [is |-> "num", n |-> n]
Name(t)     == [is |-> "name", text |-> t]
Opt(k, v)   == [is |-> "opt", key |-> k, val |-> v]
\* A host string [user@]name with a suffix: "plain" (also one of several
\* colons), "port" (name:n, or [addr]:n) or "badport" (a suffix int()
\* refuses; the bracketed form then still drops it).
Host(u, h, suffix, n) ==
    [is |-> "host", user |-> u, name |-> h, suffix |-> suffix, n |-> n]
\* A remote command given as one argument: its quotes close, do not close
\* (shlex.split raises) or there is nothing in it.
Command(q)  == [is |-> "cmd", quotes |-> q]

\* The forms of an argument.
Glued(f, t)   == [form |-> "glued", flag |-> f, text |-> t]
Flag(f)       == [form |-> "flag", flag |-> f]
Verbose(n)    == [form |-> "verbose", n |-> n]
Standalone(s) == [form |-> "standalone", name |-> s]
Word(t)       == [form |-> "word", text |-> t]

\* Every text and every argument there is.
Texts ==
    [is : {"num"}, n : Int] \cup [is : {"name"}, text : STRING]
    \cup [is : {"opt"}, key : {"sendenv", "SendEnv"}, val : Seq(STRING)]
    \cup [is : {"opt"}, key : {"stricthostkeychecking", "connecttimeout",
                              "serveraliveinterval", "loglevel"}, val : STRING]
    \cup [is : {"host"}, user : STRING, name : STRING, suffix : {"plain", "port", "badport"},
          n : Int]
    \cup [is : {"cmd"}, quotes : {"ok", "open", "empty"}]
Arguments ==
    [form : {"glued"}, flag : GLUEABLE_FLAGS, text : Texts]
    \cup [form : {"flag"}, flag : SSH_FLAGS_WITH_ARG]
    \cup [form : {"verbose"}, n : Nat \ {0}] \cup [form : {"standalone"}, name : STRING]
    \cup [form : {"word"}, text : Texts]

\* The text of an argument that another one takes as its value: a flag read
\* as a value is neither a number nor a known option.
TextOf(a) == IF a.form = "word" THEN a.text ELSE Name("flag")

NoOptions == [stricthostkeychecking |-> "", connecttimeout |-> None,
              serveraliveinterval |-> None, loglevel |-> "", sendenv |-> <<>>]

\* The dictionary parse_args starts from.
EmptyConfig ==
    [hostname |-> None, username |-> None, port |-> DEFAULT_PORT,
     identity |-> Name(""), login_name |-> None, options |-> NoOptions,
     command |-> None, verbose |-> 0]

\* _set_option: SendEnv directives accumulate, any other option keeps its last
\* value.  A text that is none of the options read is of no effect.
SetOption(options, t) ==
    IF t.is # "opt" THEN options
    ELSE IF Lower(t.key) = "sendenv"
         THEN [options EXCEPT !.sendenv = Append(@, t.val)]
         ELSE [options EXCEPT ![Lower(t.key)] = t.val]

\* A login name; what is no name is one all the same, and not an empty one.
LoginName(t) == IF t.is = "name" THEN t.text ELSE "value"

\* A flag and its text: glued to it, or the argument after it.  A port that is
\* no number leaves the port as it stands.
ApplyFlag(c, f, t) ==
    [c EXCEPT !.port = IF f = "p" /\ t.is = "num" THEN t.n ELSE @,
              !.identity = IF f = "i" THEN t ELSE @,
              !.login_name = IF f = "l" THEN LoginName(t) ELSE @,
              !.options = IF f = "o" THEN SetOption(@, t) ELSE @]
ApplyGlued(c, a) == ApplyFlag(c, a.flag, a.text)

\* -v counts one, -vv and -vvv their length; any longer run is skipped.
ApplyStandalone(c, a) ==
    IF a.form = "verbose" /\ a.n <= 3 THEN [c EXCEPT !.verbose = @ + a.n] ELSE c

\* The remote command: one argument is split and joined again, several are
\* joined as they are.  Nothing in the one argument leaves an empty string.
RemoteCommand(rest) ==
    IF Len(rest) = 1 /\ rest[1].form = "word" /\ rest[1].text.is = "cmd"
                     /\ rest[1].text.quotes = "empty"
    THEN "" ELSE "given"

\* shlex.split of the one argument raises.
SplitRaises(rest) ==
    /\ Len(rest) = 1
    /\ rest[1].form = "word"
    /\ rest[1].text.is = "cmd"
    /\ rest[1].text.quotes = "open"

\* user@, the port suffix, and the fallback when there is no such thing; an
\* empty host string is not looked at.
DecomposeHost(c, t) ==
    IF t = Name("") THEN c
    ELSE IF t.is # "host" THEN [c EXCEPT !.hostname = "other"]
    ELSE [c EXCEPT !.username = t.user,
                   !.hostname = t.name,
                   !.port = IF t.suffix = "port" THEN t.n ELSE @]

\* The last -l overrides user@, and "git" stands in for neither; an empty name
\* counts for none.
UserOf(login, user) ==
    IF login \notin {None, ""} THEN login
    ELSE IF user \notin {None, ""} THEN user ELSE DEFAULT_USER
ResolveUser(c) == [c EXCEPT !.username = UserOf(c.login_name, c.username)]

\* Whole-number options of main(): absent, not a number, or not positive all
\* mean the default.
ConnectTimeout(c) ==
    LET v == c.options.connecttimeout
    IN  IF v \in {None, "bad"} THEN DEFAULT_CONNECT_TIMEOUT
        ELSE IF v = "0" THEN DEFAULT_CONNECT_TIMEOUT ELSE 10

KeepAlive(c) ==
    LET v == c.options.serveraliveinterval
    IN  IF v \in {None, "bad"} THEN DEFAULT_KEEPALIVE_INTERVAL
        ELSE IF v = "0" THEN DEFAULT_KEEPALIVE_INTERVAL ELSE 10

\* The log level of the process: the count of -v and the LogLevel option meet
\* in one disjunction per level.
LogLevel(c) ==
    IF c.verbose >= 3 \/ c.options.loglevel = "DEBUG" THEN "DEBUG"
    ELSE IF c.verbose >= 2 \/ c.options.loglevel = "INFO" THEN "INFO"
    ELSE IF c.verbose >= 1 \/ c.options.loglevel = "WARNING" THEN "WARNING"
    ELSE "ERROR"

\* setup_host_key_policy: anything but "yes" and "no" is accept-new.
HostKeyPolicy(c) ==
    CASE c.options.stricthostkeychecking = "yes" -> "reject"
      [] c.options.stricthostkeychecking = "no"  -> "warn"
      [] OTHER -> "accept-new"

\* The variables a connection asks the server to set.  A directive is one
\* pattern: one that names two variables matches neither (the split of line
\* 761 is for a string, and the option is always a list).
Matches(v, directive) == directive \in {<<v>>, <<"*">>}
EnvironmentFor(c, env) ==
    {v \in env : \E k \in DOMAIN c.options.sendenv : Matches(v, c.options.sendenv[k])}

\* What main() derives for the connection, besides the address.
RequestOf(c, env) ==
    [level |-> LogLevel(c), connecttimeout |-> ConnectTimeout(c),
     policy |-> HostKeyPolicy(c), keepalive |-> KeepAlive(c),
     port |-> c.port, username |-> c.username, env |-> EnvironmentFor(c, env)]
=============================================================================
