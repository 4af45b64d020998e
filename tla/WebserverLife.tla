---------------------------- MODULE WebserverLife ----------------------------
(***************************************************************************)
(* The life of the webserver (src/pkg/webserver/auth.go 245-416):          *)
(* NewWebserver, Init, Run and its serving goroutine, and Close, driven    *)
(* by the server's main (src/server/server.go 33-118), or by a test that   *)
(* launches a webserver, uses it and closes it before the next test        *)
(* (src/pkg/client/client_test.go).  Connections accepted while the        *)
(* routine serves run their handlers on goroutines of their own; what a   *)
(* handler does is ShardPush, ShardPull and ShardStore.                    *)
(*                                                                         *)
(* w.running is written by the routine and read by Close without a lock;  *)
(* the model lets Close read it at any moment, which is what the memory    *)
(* model allows.  Close's 500 ms timer may fire at any moment.             *)
(***************************************************************************)
EXTENDS Naturals

CONSTANTS
    Conns,        \* connections clients may open
    Harness,      \* TRUE: a test harness that goes on after Close
    ServeFaults   \* Serve may fail on its own (a permanent Accept error)

ASSUME WebserverLifeAssumptions ==
    /\ Harness \in BOOLEAN
    /\ ServeFaults \in BOOLEAN

VARIABLES
    mpc,         \* the caller: "new", "init", "run", "wait", "close", "closewait", "returned", "idle", "exit"
    initialized, \* w.initialized
    lst,         \* the listening socket: "none", "open", "closed"
    running,     \* w.running
    rpc,         \* the routine: "none", "spawned", "serving", "send", "end", "exited"
    serveErr,    \* what Serve returned: "none", "closed" (use of closed connection), "err"
    exitMsg,     \* the value waiting in w.exitError: "none", "nil", "err"
    sawRunning,  \* Close found w.running set
    lerr,        \* closing the listener failed
    cres,        \* Close's result: "none", "nil", "err"
    conns        \* each connection: "idle", "active", "done"

vars == <<mpc, initialized, lst, running, rpc, serveErr, exitMsg, sawRunning,
          lerr, cres, conns>>

\* The process is still running: main has neither returned nor called
\* glog.Fatalln (after either, every goroutine is gone).
Alive == mpc # "exit"

-----------------------------------------------------------------------------
(* The caller.                                                             *)

\* NewWebserver: the TLS key pair, the HMAC secret and the router; a
\* failure is fatal in main (glog.Fatalln) and in a test.
NewWebserver ==
    /\ mpc = "new"
    /\ mpc' \in {"init", "exit"}
    /\ UNCHANGED <<initialized, lst, running, rpc, serveErr, exitMsg,
                   sawRunning, lerr, cres, conns>>

\* Init: net.Listen on the configured address; fatal on failure.
Init ==
    /\ mpc = "init"
    /\ ~initialized
    /\ \/ lst' = "open" /\ initialized' = TRUE /\ mpc' = "run"
       \/ mpc' = "exit" /\ UNCHANGED <<lst, initialized>>
    /\ UNCHANGED <<running, rpc, serveErr, exitMsg, sawRunning, lerr, cres, conns>>

\* Run: the router is set and the webserver initialized, so it starts the
\* routine with go w.routine() and returns at once.
Run ==
    /\ mpc = "run"
    /\ initialized /\ lst # "none"
    /\ rpc' = "spawned"
    /\ mpc' = "wait"
    /\ UNCHANGED <<initialized, lst, running, serveErr, exitMsg, sawRunning,
                   lerr, cres, conns>>

\* main waits for SIGINT; a test makes its client calls.  Then Close.
Signal ==
    /\ mpc = "wait"
    /\ mpc' = "close"
    /\ UNCHANGED <<initialized, lst, running, rpc, serveErr, exitMsg,
                   sawRunning, lerr, cres, conns>>

\* Mutant of CloseCheck: the listener is not closed.
CloseCheckKeepListener ==
    /\ Alive /\ mpc = "close"
    /\ sawRunning' = running
    /\ IF ~running
       THEN mpc' = "returned" /\ cres' = "nil" /\ UNCHANGED lerr
       ELSE mpc' = "closewait" /\ lerr' = FALSE /\ UNCHANGED cres
    /\ UNCHANGED <<initialized, lst, running, rpc, serveErr, exitMsg, conns>>

\* Close: "was never running" -- w.running unset returns nil at once;
\* otherwise the listener is closed (its error kept as finalError).
CloseCheck ==
    /\ Alive /\ mpc = "close"
    /\ sawRunning' = running
    /\ IF ~running
       THEN mpc' = "returned" /\ cres' = "nil" /\ UNCHANGED <<lst, lerr>>
       ELSE /\ mpc' = "closewait"
            /\ lst' = "closed"
            /\ lerr' \in BOOLEAN
            /\ UNCHANGED cres
    /\ UNCHANGED <<initialized, running, rpc, serveErr, exitMsg, conns>>

\* The select on w.exitError and the 500 ms timer; the received error, or
\* "Close timeout", enters the result only next to a listener error.
CloseWait ==
    /\ Alive /\ mpc = "closewait"
    /\ \/ exitMsg # "none" /\ exitMsg' = "none"
       \/ UNCHANGED exitMsg
    /\ cres' = IF lerr THEN "err" ELSE "nil"
    /\ mpc' = "returned"
    /\ UNCHANGED <<initialized, lst, running, rpc, serveErr, sawRunning, lerr, conns>>

\* Close has returned: main returns and the process ends; a test goes on.
MainReturn ==
    /\ mpc = "returned"
    /\ mpc' = IF Harness THEN "idle" ELSE "exit"
    /\ UNCHANGED <<initialized, lst, running, rpc, serveErr, exitMsg,
                   sawRunning, lerr, cres, conns>>

-----------------------------------------------------------------------------
(* The serving routine and the connections.                                *)

\* routine: w.running = true, then srv.Serve on the listener.
RoutineStart ==
    /\ Alive /\ rpc = "spawned"
    /\ running' = TRUE
    /\ rpc' = "serving"
    /\ UNCHANGED <<mpc, initialized, lst, serveErr, exitMsg, sawRunning, lerr, cres, conns>>

\* Serve returns "use of closed network connection" once the listener is
\* closed.
ServeClosed ==
    /\ Alive /\ rpc = "serving"
    /\ lst = "closed"
    /\ serveErr' = "closed"
    /\ rpc' = "send"
    /\ UNCHANGED <<mpc, initialized, lst, running, exitMsg, sawRunning, lerr, cres, conns>>

\* Serve returns a permanent Accept error, closing the listener.
ServeFail ==
    /\ Alive /\ ServeFaults /\ rpc = "serving"
    /\ lst = "open"
    /\ serveErr' = "err"
    /\ lst' = "closed"
    /\ rpc' = "send"
    /\ UNCHANGED <<mpc, initialized, running, exitMsg, sawRunning, lerr, cres, conns>>

\* The error, or nil for "use of closed network connection", goes into
\* w.exitError (buffered, never full).
RoutineSend ==
    /\ Alive /\ rpc = "send"
    /\ exitMsg' = IF serveErr = "err" THEN "err" ELSE "nil"
    /\ rpc' = "end"
    /\ UNCHANGED <<mpc, initialized, lst, running, serveErr, sawRunning, lerr, cres, conns>>

\* w.running = false.
RoutineEnd ==
    /\ Alive /\ rpc = "end"
    /\ running' = FALSE
    /\ rpc' = "exited"
    /\ UNCHANGED <<mpc, initialized, lst, serveErr, exitMsg, sawRunning, lerr, cres, conns>>

\* Serve accepts a connection and runs its handler on a new goroutine.
Accept(c) ==
    /\ Alive /\ rpc = "serving" /\ lst = "open"
    /\ conns[c] = "idle"
    /\ conns' = [conns EXCEPT ![c] = "active"]
    /\ UNCHANGED <<mpc, initialized, lst, running, rpc, serveErr, exitMsg,
                   sawRunning, lerr, cres>>

\* A handler returns; closing the listener does not stop it.
HandlerDone(c) ==
    /\ Alive /\ conns[c] = "active"
    /\ conns' = [conns EXCEPT ![c] = "done"]
    /\ UNCHANGED <<mpc, initialized, lst, running, rpc, serveErr, exitMsg,
                   sawRunning, lerr, cres>>

-----------------------------------------------------------------------------

LifeInit ==
    /\ mpc = "new" /\ initialized = FALSE /\ lst = "none" /\ running = FALSE
    /\ rpc = "none" /\ serveErr = "none" /\ exitMsg = "none"
    /\ sawRunning = FALSE /\ lerr = FALSE /\ cres = "none"
    /\ conns = [c \in Conns |-> "idle"]

LifeNext ==
    \/ NewWebserver \/ Init \/ Run \/ Signal \/ CloseCheck \/ CloseWait \/ MainReturn
    \/ RoutineStart \/ ServeClosed \/ ServeFail \/ RoutineSend \/ RoutineEnd
    \/ \E c \in Conns : Accept(c) \/ HandlerDone(c)

\* Every goroutine runs until it blocks.  The signal (or the caller's call
\* of Close), new connections and Accept failures are not forced.
LifeFairness ==
    /\ WF_vars(NewWebserver) /\ WF_vars(Init) /\ WF_vars(Run)
    /\ WF_vars(CloseCheck) /\ WF_vars(CloseWait) /\ WF_vars(MainReturn)
    /\ WF_vars(RoutineStart) /\ WF_vars(ServeClosed) /\ WF_vars(RoutineSend)
    /\ WF_vars(RoutineEnd)
    /\ \A c \in Conns : WF_vars(HandlerDone(c))

LifeSpec == LifeInit /\ [][LifeNext]_vars /\ LifeFairness

-----------------------------------------------------------------------------
(* Properties.                                                             *)

LifeTypeOK ==
    /\ mpc \in {"new", "init", "run", "wait", "close", "closewait", "returned", "idle", "exit"}
    /\ initialized \in BOOLEAN /\ running \in BOOLEAN
    /\ sawRunning \in BOOLEAN /\ lerr \in BOOLEAN
    /\ lst \in {"none", "open", "closed"}
    /\ rpc \in {"none", "spawned", "serving", "send", "end", "exited"}
    /\ serveErr \in {"none", "closed", "err"}
    /\ exitMsg \in {"none", "nil", "err"}
    /\ cres \in {"none", "nil", "err"}
    /\ conns \in [Conns -> {"idle", "active", "done"}]

\* Once Close has found the routine running, the routine's Serve returns
\* and the routine ends: Close's closing of the listener stops it.
RoutineStops ==
    [](sawRunning => <>(rpc = "exited"))

\* After Close returns, the webserver no longer holds its listening socket,
\* so a new webserver can listen on the same address (as the client tests
\* do, one webserver per test).
ListenerReleased ==
    mpc \in {"returned", "idle"} => lst # "open"

\* The server's process ends only when no handler is in the middle of a
\* transfer (spec: an aborted unpack's partial directory is removed).
HandlersDrained ==
    mpc = "exit" => \A c \in Conns : conns[c] # "active"

\* A Serve that failed on its own is reported by Close.
CloseReportsServeError ==
    (cres # "none" /\ serveErr = "err") => cres = "err"
=============================================================================
