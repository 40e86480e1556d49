------------------------------ MODULE Lifecycle ------------------------------
(***************************************************************************)
(* The life of the storage server process: main().                         *)
(*                                                                         *)
(* main() checks its options, fetches the node's private keys from the     *)
(* daemon, makes sure the TLS files are on disk, builds the bus server,    *)
(* the master node, the request handler, the rate limiter and the HTTPS    *)
(* server (in that order), starts the bus and then the HTTPS listener,     *)
(* and sleeps until a signal arrives; then it stops the parts one by one.  *)
(*                                                                         *)
(* Three things run beside the main thread: the signal handler, which only *)
(* stores the signal number in the atomic `signalled`; the threads of the  *)
(* bus, which call into the master node and the request handler through    *)
(* raw pointers for as long as the bus runs; and the machine, which may    *)
(* kill the process at any step and start it again over the same data      *)
(* directory.                                                              *)
(***************************************************************************)
EXTENDS Naturals, Sequences, SequencesExt, Functions

CONSTANTS
    Signals,       \* the signals with a handler: SIGINT (2) and SIGTERM (15)
    MaxCrashes,    \* bound of the model: how often the process is killed
    ThrowPoints    \* the steps inside the try block that are let to throw

EXIT_SUCCESS == 0
EXIT_FAILURE == 1
NoExit       == 2   \* the process has not returned from main()
Aborted      == 3   \* std::terminate(): an exception nothing caught

ASSUME /\ Signals \subseteq Nat \ {0}
       /\ MaxCrashes \in Nat

VARIABLES
    options,      \* what the command line and the environment give
    pc,           \* the statement main() is at
    signalled,    \* std::atomic<int> signalled
    is_mainnet,   \* beldex::is_mainnet
    privkeys,     \* the result of get_mn_privkeys()
    alive,        \* the objects of the try block, in construction order
    bmqRunning,   \* the bus has started its threads
    listening,    \* the HTTPS listener accepts connections
    mnStopped,    \* master_node.shutdown() has run
    timers,       \* the recurring timers are installed on the bus
    exit_code,    \* what main() returned
    files,        \* cert.pem, key.pem, dh.pem: 0 if absent, else the
                  \* number of the generate call that wrote it
    generated,    \* number of generate calls so far, over all runs
    writeOrder,   \* the order in which generate_cert() writes its files
    beldexd,      \* the daemon accepts connections
    crashes       \* number of kills so far

process == <<pc, signalled, is_mainnet, privkeys, alive, bmqRunning,
             listening, mnStopped, timers, exit_code>>
disk    == <<files, generated>>
world   == <<options, writeOrder, beldexd, crashes>>
vars    == <<process, disk, world>>

Options ==
    [parse_ok : BOOLEAN, print_help : BOOLEAN, print_version : BOOLEAN,
     data_dir : {"given", "home", "nohome", "uncreatable"}, log_level_ok : BOOLEAN,
     testnet : BOOLEAN, loopback : BOOLEAN, stats_keys_ok : BOOLEAN]

\* The locals of the try block that own something, in declaration order.
\* Leaving the block destroys them in the reverse order.
Declared ==
    <<"bmq_server", "master_node", "request_handler", "rate_limiter", "https_server">>

\* What the handlers of the bus reach through the pointers init() stores.
BusTargets == {"master_node", "request_handler", "rate_limiter"}

TryBlock ==
    {"stats_keys", "get_keys", "certs", "cert_second", "dh", "construct", "init",
     "connect", "start_https", "timers", "run", "stop_mn", "stop_https", "stop_bmq"}

-----------------------------------------------------------------------------
(* Before the try block                                                    *)

\* The checks of main() before it touches the daemon, in order, each with
\* the exit code it returns with.  The fifth is no return: the data
\* directory is not there and create_directories() throws, with no try
\* block around it.
EarlyReturns(o) ==
    << <<~o.parse_ok,                  EXIT_FAILURE>>,
       <<o.print_help,                 EXIT_SUCCESS>>,
       <<o.print_version,              EXIT_SUCCESS>>,
       <<o.data_dir = "nohome",        EXIT_FAILURE>>,
       <<o.data_dir = "uncreatable",   Aborted>>,
       <<~o.log_level_ok,              EXIT_FAILURE>>,
       <<o.loopback,                   EXIT_FAILURE>> >>

FirstReturn(o) == SelectInSeq(EarlyReturns(o), LAMBDA c : c[1])

\* main() has come to line 83.  From there to the try block fs::exists(),
\* init_logging() and every log call can throw like create_directories(),
\* with no handler either.
PastDataDir(o) == FirstReturn(o) \notin 1..4

\* The testnet flag is stored after the log level is accepted and before
\* the bind address is looked at.
ReachesTestnetFlag(o) == FirstReturn(o) \in {0, 7}

ExitUnset(code) ==
    /\ pc' = "exited"
    /\ UNCHANGED exit_code

Exit(code) ==
    /\ pc' = "exited"
    /\ exit_code' = code

\* From the start of main() to sodium_init().
Preflight ==
    /\ pc = "main"
    /\ is_mainnet' = (is_mainnet /\ ~(options.testnet /\ ReachesTestnetFlag(options)))
    /\ \/ /\ FirstReturn(options) # 0
          /\ Exit(EarlyReturns(options)[FirstReturn(options)][2])
       \/ /\ PastDataDir(options)
          /\ Exit(Aborted)
       \/ /\ FirstReturn(options) = 0
          /\ \/ Exit(EXIT_FAILURE)                           \* sodium_init() != 0
             \/ pc' = "stats_keys" /\ UNCHANGED exit_code
    /\ UNCHANGED <<signalled, privkeys, alive, bmqRunning, listening, mnStopped,
                   timers, disk, world>>

-----------------------------------------------------------------------------
(* Inside the try block: start-up                                          *)

Goto(from, to) ==
    /\ pc = from
    /\ pc' = to

\* x25519_pubkey::from_hex() of every --stats-access-key; it throws on a
\* key that is not 64 hex digits.
LoadStatsKeys ==
    /\ pc = "stats_keys"
    /\ pc' = IF options.stats_keys_ok THEN "get_keys" ELSE "unwind"
    /\ UNCHANGED <<signalled, is_mainnet, privkeys, alive, bmqRunning, listening,
                   mnStopped, timers, exit_code, disk, world>>

GetKeysUninterruptible ==
    /\ beldexd /\ privkeys' = "valid"
    /\ Goto("get_keys", "signal_check")
    /\ UNCHANGED <<signalled, is_mainnet, alive, bmqRunning, listening, mnStopped,
                   timers, exit_code, disk, world>>

\* get_mn_privkeys() keeps asking the daemon while its callback says that
\* no signal has arrived; it comes back with the keys, or without them.
GetKeys ==
    /\ \/ beldexd /\ privkeys' = "valid"
       \/ signalled # 0 /\ privkeys' = "none"
    /\ Goto("get_keys", "signal_check")
    /\ UNCHANGED <<signalled, is_mainnet, alive, bmqRunning, listening, mnStopped,
                   timers, exit_code, disk, world>>

SignalCheckSkipped ==
    /\ Goto("signal_check", "certs")
    /\ UNCHANGED <<signalled, is_mainnet, privkeys, alive, bmqRunning, listening,
                   mnStopped, timers, exit_code, disk, world>>

\* if (signalled) return EXIT_FAILURE;
SignalCheck ==
    /\ pc = "signal_check"
    /\ \/ signalled # 0 /\ Exit(EXIT_FAILURE)
       \/ signalled = 0 /\ pc' = "certs" /\ UNCHANGED exit_code
    /\ UNCHANGED <<signalled, is_mainnet, privkeys, alive, bmqRunning, listening,
                   mnStopped, timers, disk, world>>

CertMissingBoth == files["cert"] = 0 /\ files["key"] = 0

\* !exists(ssl_cert) || !exists(ssl_key)
CertMissing == files["cert"] = 0 \/ files["key"] = 0

\* One file of a generate call, marked with the number of the call.
Write(file, call, to) ==
    /\ files' = [files EXCEPT ![file] = call]
    /\ pc' = to

\* generate_cert(), a call of its own number: the first of its two files,
\* if either is missing.
CheckCert ==
    /\ pc = "certs"
    /\ \/ /\ CertMissing
          /\ generated' = generated + 1
          /\ Write(writeOrder[1], generated', "cert_second")
       \/ ~CertMissing /\ pc' = "dh" /\ UNCHANGED disk
    /\ UNCHANGED <<signalled, is_mainnet, privkeys, alive, bmqRunning, listening,
                   mnStopped, timers, exit_code, world>>

\* generate_cert(): its second file.
WriteCertSecond ==
    /\ pc = "cert_second"
    /\ Write(writeOrder[2], generated, "dh")
    /\ UNCHANGED generated
    /\ UNCHANGED <<signalled, is_mainnet, privkeys, alive, bmqRunning, listening,
                   mnStopped, timers, exit_code, world>>

\* if (!exists(ssl_dh)) generate_dh_pem(ssl_dh);
CheckDh ==
    /\ pc = "dh"
    /\ \/ /\ files["dh"] = 0
          /\ generated' = generated + 1
          /\ Write("dh", generated', "construct")
       \/ files["dh"] # 0 /\ pc' = "construct" /\ UNCHANGED disk
    /\ UNCHANGED <<signalled, is_mainnet, privkeys, alive, bmqRunning, listening,
                   mnStopped, timers, exit_code, world>>

\* The next declaration: bmq_server (not started yet), master_node,
\* request_handler, rate_limiter, https_server.
Construct ==
    /\ pc = "construct"
    /\ alive' = Append(alive, Declared[Len(alive) + 1])
    /\ pc' = IF Len(alive) + 1 = Len(Declared) THEN "init" ELSE "construct"
    /\ UNCHANGED <<signalled, is_mainnet, privkeys, bmqRunning, listening, mnStopped,
                   timers, exit_code, disk, world>>

\* bmq_server.init(): stores the pointers and starts the bus ...
BusInit ==
    /\ Goto("init", "connect")
    /\ bmqRunning' = TRUE
    /\ UNCHANGED <<signalled, is_mainnet, privkeys, alive, listening, mnStopped,
                   timers, exit_code, disk, world>>

\* ... and blocks in connect_beldexd() until the daemon is connected.
\* Nothing here looks at `signalled`.
BusConnect ==
    /\ beldexd
    /\ Goto("connect", "start_https")
    /\ UNCHANGED <<signalled, is_mainnet, privkeys, alive, bmqRunning, listening,
                   mnStopped, timers, exit_code, disk, world>>

\* https_server.start()
StartHttps ==
    /\ Goto("start_https", "timers")
    /\ listening' = TRUE
    /\ UNCHANGED <<signalled, is_mainnet, privkeys, alive, bmqRunning, mnStopped,
                   timers, exit_code, disk, world>>

\* The watchdog and the hourly status line, both on the bus's timers.
InstallTimers ==
    /\ Goto("timers", "run")
    /\ timers' = TRUE
    /\ UNCHANGED <<signalled, is_mainnet, privkeys, alive, bmqRunning, listening,
                   mnStopped, exit_code, disk, world>>

-----------------------------------------------------------------------------
(* Inside the try block: the wait and the shutdown                         *)

\* while (signalled.load() == 0) sleep_for(100ms);
AwaitSignal ==
    /\ signalled # 0
    /\ Goto("run", "stop_mn")
    /\ UNCHANGED <<signalled, is_mainnet, privkeys, alive, bmqRunning, listening,
                   mnStopped, timers, exit_code, disk, world>>

\* master_node.shutdown()
StopMasterNode ==
    /\ Goto("stop_mn", "stop_https")
    /\ mnStopped' = TRUE
    /\ UNCHANGED <<signalled, is_mainnet, privkeys, alive, bmqRunning, listening,
                   timers, exit_code, disk, world>>

StopHttpsSkipped ==
    /\ Goto("stop_https", "stop_bmq")
    /\ UNCHANGED <<signalled, is_mainnet, privkeys, alive, bmqRunning, listening,
                   mnStopped, timers, exit_code, disk, world>>

\* https_server.shutdown(true)
StopHttps ==
    /\ Goto("stop_https", "stop_bmq")
    /\ listening' = FALSE
    /\ UNCHANGED <<signalled, is_mainnet, privkeys, alive, bmqRunning, mnStopped,
                   timers, exit_code, disk, world>>

Without(object) == SelectSeq(alive, LAMBDA o : o # object)

ResetBusSkipped ==
    /\ Goto("stop_bmq", "scope_exit")
    /\ UNCHANGED <<signalled, is_mainnet, privkeys, alive, bmqRunning, listening,
                   mnStopped, timers, exit_code, disk, world>>

\* bmq_server_ptr.reset(): the bus is destroyed here, ahead of the objects
\* declared after it.
ResetBus ==
    /\ Goto("stop_bmq", "scope_exit")
    /\ alive' = Without("bmq_server")
    /\ bmqRunning' = FALSE
    /\ timers' = FALSE
    /\ UNCHANGED <<signalled, is_mainnet, privkeys, listening, mnStopped,
                   exit_code, disk, world>>

\* An exception leaves the try block from where main() is.
Throw ==
    /\ pc \in ThrowPoints
    /\ pc' = "unwind"
    /\ UNCHANGED <<signalled, is_mainnet, privkeys, alive, bmqRunning, listening,
                   mnStopped, timers, exit_code, disk, world>>

\* Leaving the try block, by its end or by an exception: the destructor of
\* the object declared last that is still alive.
Destroy ==
    /\ pc \in {"unwind", "scope_exit"}
    /\ alive # <<>>
    /\ alive' = Front(alive)
    /\ listening' = (listening /\ Last(alive) # "https_server")
    /\ bmqRunning' = (bmqRunning /\ Last(alive) # "bmq_server")
    /\ timers' = (timers /\ Last(alive) # "bmq_server")
    /\ UNCHANGED <<pc, signalled, is_mainnet, privkeys, mnStopped, exit_code,
                   disk, world>>

\* The handlers write to std::cerr, not to the log (which, as their
\* comment says, could throw in its turn), and return EXIT_FAILURE;
\* falling off the end of main() is 0.
Return ==
    /\ pc \in {"unwind", "scope_exit"}
    /\ alive = <<>>
    /\ Exit(IF pc = "unwind" THEN EXIT_FAILURE ELSE EXIT_SUCCESS)
    /\ UNCHANGED <<signalled, is_mainnet, privkeys, alive, bmqRunning, listening,
                   mnStopped, timers, disk, world>>

-----------------------------------------------------------------------------
(* Beside the main thread                                                  *)

\* handle_signal(sig): signalled = sig
Signal(sig) ==
    /\ pc \notin {"exited", "down"}
    /\ signalled' = sig
    /\ UNCHANGED <<pc, is_mainnet, privkeys, alive, bmqRunning, listening, mnStopped,
                   timers, exit_code, disk, world>>

Fresh ==
    /\ signalled' = 0
    /\ is_mainnet' = TRUE
    /\ privkeys' = "unset"
    /\ alive' = <<>>
    /\ bmqRunning' = FALSE /\ listening' = FALSE /\ mnStopped' = FALSE
    /\ timers' = FALSE
    /\ exit_code' = NoExit

\* The process is killed, or the machine loses power: nothing of the
\* process is left, the files are.
Crash ==
    /\ pc \notin {"exited", "down"}
    /\ crashes < MaxCrashes
    /\ crashes' = crashes + 1
    /\ pc' = "down"
    /\ Fresh
    /\ UNCHANGED <<disk, options, writeOrder, beldexd>>

\* The supervisor starts the process again, with the same command line.
Restart ==
    /\ pc = "down"
    /\ pc' = "main"
    /\ Fresh
    /\ UNCHANGED <<disk, world>>

DaemonFails ==
    /\ beldexd
    /\ beldexd' = FALSE
    /\ UNCHANGED <<process, disk, options, writeOrder, crashes>>

DaemonRecovers ==
    /\ ~beldexd
    /\ beldexd' = TRUE
    /\ UNCHANGED <<process, disk, options, writeOrder, crashes>>

-----------------------------------------------------------------------------
(* Specification                                                           *)

Init ==
    /\ options \in Options
    /\ writeOrder \in {<<"cert", "key">>, <<"key", "cert">>}
    /\ pc = "main"
    /\ signalled = 0
    /\ is_mainnet = TRUE
    /\ privkeys = "unset"
    /\ alive = <<>>
    /\ bmqRunning = FALSE /\ listening = FALSE /\ mnStopped = FALSE
    /\ timers = FALSE
    /\ exit_code = NoExit
    /\ files = [f \in {"cert", "key", "dh"} |-> 0]
    /\ generated = 0
    /\ beldexd \in BOOLEAN
    /\ crashes = 0

Startup ==
    \/ Preflight \/ LoadStatsKeys \/ GetKeys \/ SignalCheck
    \/ CheckCert \/ WriteCertSecond \/ CheckDh
    \/ Construct \/ BusInit \/ BusConnect \/ StartHttps \/ InstallTimers

Shutdown ==
    \/ AwaitSignal \/ StopMasterNode \/ StopHttps \/ ResetBus
    \/ Destroy \/ Return

Main == Startup \/ Shutdown

Next ==
    \/ Main
    \/ Throw
    \/ \E sig \in Signals : Signal(sig)
    \/ Crash \/ Restart
    \/ DaemonFails \/ DaemonRecovers

\* The main thread runs whenever it can.  No exception, signal, kill or
\* restart has to happen.
SpecAnyDaemon == Init /\ [][Next]_vars /\ WF_vars(Main)

\* The same, with a daemon that always comes back and a connection attempt
\* that gets through when it keeps coming back.
Spec == SpecAnyDaemon /\ WF_vars(DaemonRecovers) /\ SF_vars(BusConnect)

-----------------------------------------------------------------------------
(* Properties                                                              *)

Pcs == TryBlock \cup {"main", "signal_check", "scope_exit", "unwind", "exited", "down"}

\* The type invariant; the objects alive are a prefix of the declarations,
\* less the bus once it was reset, and main() has a return value exactly
\* when it has returned.
TypeOK ==
    /\ options \in Options
    /\ pc \in Pcs
    /\ (pc = "exited") = (exit_code # NoExit)
    /\ signalled \in Signals \cup {0}
    /\ is_mainnet \in BOOLEAN
    /\ privkeys \in {"unset", "valid", "none"}
    /\ \E n \in 0..Len(Declared) :
          alive \in {SubSeq(Declared, 1, n), SubSeq(Declared, 2, n)}
    /\ {bmqRunning, listening, mnStopped, timers} \subseteq BOOLEAN
    /\ exit_code \in {EXIT_SUCCESS, EXIT_FAILURE, Aborted, NoExit}
    /\ files \in [{"cert", "key", "dh"} -> 0..generated]
    /\ generated \in 0..2 * (MaxCrashes + 1)
    /\ beldexd \in BOOLEAN
    /\ crashes \in 0..MaxCrashes

\* No public port is opened before the daemon has handed over the node's
\* private keys.  get_mn_privkeys() comes back empty-handed when a signal
\* interrupts it, and only the test of `signalled` that follows keeps
\* main() from going on to build and start the servers with no keys.
KeysBeforePorts == listening \/ bmqRunning => privkeys = "valid"

\* The HTTPS listener serves with a certificate and a key that were made
\* by the same generate_cert() call, and with DH parameters, however often
\* the process was killed while it was writing them: a run that finds
\* either of the two files missing writes both again.  Every call has a
\* number of its own, so a file left by a call that was killed and a file
\* of the call after it are told apart.
CertKeyPaired ==
    listening => /\ files["cert"] # 0
                 /\ files["cert"] = files["key"]
                 /\ files["dh"] # 0

\* While the bus runs, what its handlers and timers point to exists, on
\* the way up and on the orderly way down: the bus is started after the
\* master node, the request handler and the rate limiter are built, and
\* main() resets it by hand before the end of the block destroys them
\* (the bus is declared first and would otherwise be destroyed last).
BusTargetsAliveInOrder ==
    bmqRunning /\ pc # "unwind" => BusTargets \subseteq Range(alive)

\* The same on every path, as the raw pointers of the bus server need it.
\* An exception thrown after init() unwinds in reverse declaration order
\* and destroys the master node while the bus still runs.
BusTargetsAlive == bmqRunning => BusTargets \subseteq Range(alive)

\* The listener never outlives the bus it forwards onion requests over,
\* and the bus is never started for a listener that is already open.  On
\* the way down the listener is closed second, not first as the design
\* document has it: main() shuts the master node down before it, and the
\* listener takes requests for a master node that is shut down while
\* main() is between the two calls, or unwinds from there, and at no
\* other time.
ListenerWithinBus ==
    /\ listening => bmqRunning
    /\ listening /\ mnStopped => pc \in {"stop_https", "unwind"}

\* A signal ends the process: every loop that waits looks at `signalled`.
\* It holds when the daemon is reachable again and again; see
\* SignalAlwaysStops for when it is not.
SignalStops == (signalled # 0) ~> (pc \in {"exited", "down"})

\* The same with no assumption on the daemon.  init() blocks until the
\* daemon is connected and does not look at `signalled`.
SignalAlwaysStops == (signalled # 0) ~> (pc \in {"exited", "down"})

=============================================================================
