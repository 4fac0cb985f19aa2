------------------------------- MODULE Daemon -------------------------------
(***************************************************************************)
(* The life of the process (core/daemon.go): daemonStart starts one part   *)
(* after the other and initialises the modules (core/module.go), waits for *)
(* a signal and then stops them.  What was started goes on meanwhile: the  *)
(* milter sessions, which are module Milter; the loop that accepts         *)
(* commands on the IPC socket; the HTTP frontends.  Any of them, and each  *)
(* step of the start, may end the process.                                 *)
(***************************************************************************)
EXTENDS Milter

CONSTANTS
  Registered,  \* the modules that main.go imports, in this order
  Scripts,     \* the modules that Init of lua registers, one per script
  Enabled,     \* those of either that the configuration enables
  Lua          \* the module lua

InModules(q) == {q[i] : i \in DOMAIN q}

\* ModuleRegister panics if a name is taken.
ASSUME DaemonAssumption ==
  /\ Registered \in Seq(InModules(Registered))
  /\ Scripts \in Seq(InModules(Scripts))
  /\ InModules(Registered) \cap InModules(Scripts) = {}

VARIABLES
  stage,    \* what daemonStart calls next
  modules,  \* cg.modules
  todo,     \* the modules its loop has yet to get to
  ready,    \* those whose Init has returned
  ipc,      \* where daemonIpc is
  socket,   \* the file of the IPC socket: none, left by another process, ours
  command   \* whether a command is sent to it that was not accepted yet

daemonVars == <<stage, modules, todo, ready, ipc, socket, command>>
allVars == <<vars, daemonVars>>

\* What daemonStart calls before the modules are initialised.
Starting == {"rdbmsStart", "Instance", "redisStart", "milterSessionStart", "httpStart",
             "httpStartFrontend", "messageStart", "messageStartModuleGroups"}

Alive == stage # "ended"

\* close(done) is over.
Done == stage \in {"milterStop", "Stop"}

DaemonInit ==
  /\ Init
  /\ stage = "rdbmsStart"
  /\ modules = Registered
  /\ todo = <<>>
  /\ ready = {}
  /\ ipc = "off"
  /\ socket \in {"none", "left"}
  /\ command = FALSE
-----------------------------------------------------------------------------
(* The goroutine of daemonStart.                                           *)

\* The process ends, and its goroutines with it; the file of the socket stays.
Ends ==
  /\ stage' = "ended"
  /\ todo' = <<>>
  /\ ipc' = "off"
  /\ command' = FALSE
  /\ UNCHANGED <<modules, ready, socket>>

\* What is started either ends the process or lets daemonStart go on.
Goes(from, to) ==
  /\ stage = from
  /\ \/ Ends
     \/ stage' = to /\ UNCHANGED <<modules, todo, ready, ipc, socket, command>>

\* The database answers.
RdbmsStart == Goes("rdbmsStart", "Instance")

\* It knows the instance that the configuration names.
InstanceStart == Goes("Instance", "redisStart")

\* A host and a method are configured, or Redis is not enabled.
RedisStart == Goes("redisStart", "milterSessionStart")

\* The networks of the whitelist can be parsed.
MilterSessionStart == Goes("milterSessionStart", "httpStart")

\* Without frontends, if HTTP is not enabled.
HttpStart ==
  /\ stage = "httpStart"
  /\ stage' \in {"httpStartFrontend", "messageStart"}
  /\ UNCHANGED <<modules, todo, ready, ipc, socket, command>>

\* The addresses of all of them are free.
HttpStartFrontend == Goes("httpStartFrontend", "messageStart")

\* The headers to be added are well-formed.
MessageStart == Goes("messageStart", "messageStartModuleGroups")

\* The groups, too; then the loop over the modules begins, over those that are
\* registered by now.
MessageStartModuleGroups ==
  /\ stage = "messageStartModuleGroups"
  /\ \/ Ends
     \/ /\ stage' = "Init"
        /\ todo' = modules
        /\ UNCHANGED <<modules, ready, ipc, socket, command>>

Start ==
  \/ RdbmsStart \/ InstanceStart \/ RedisStart \/ MilterSessionStart
  \/ HttpStart \/ HttpStartFrontend \/ MessageStart \/ MessageStartModuleGroups

ModuleRegister(q) == modules' = modules \o q

\* Init of the next module, if it is enabled.  That of lua registers a module
\* for each script, which the loop that is under way does not get to.
InitModule ==
  /\ stage = "Init"
  /\ todo # <<>>
  /\ \/ Head(todo) \in Enabled /\ Ends
     \/ /\ ready' = IF Head(todo) \in Enabled THEN ready \cup {Head(todo)} ELSE ready
        /\ ModuleRegister(IF Head(todo) \in Enabled \cap {Lua} THEN Scripts ELSE <<>>)
        /\ todo' = Tail(todo)
        /\ UNCHANGED <<stage, ipc, socket, command>>

\* Mutant of Initialised: the first Init that has returned will do.
InitialisedOne == ready # {}

Initialised == todo = <<>>

\* milterStart, and go daemonIpc(done).
MilterStart ==
  /\ stage = "Init"
  /\ Initialised
  /\ stage' = "waiting"
  /\ ipc' = "starting"
  /\ UNCHANGED <<modules, todo, ready, socket, command>>

\* SIGINT or SIGTERM.  signal.Notify does not wait for the channel, which has no
\* buffer: of a signal that daemonStart does not wait for nobody gets to know.
Signal ==
  /\ stage = "waiting"
  /\ stage' = "milterStop"
  /\ UNCHANGED <<modules, todo, ready, ipc, socket, command>>

MilterStop ==
  /\ stage = "milterStop"
  /\ stage' = "Stop"
  /\ UNCHANGED <<modules, todo, ready, ipc, socket, command>>

\* Mutant of Stop: every module has to be initialised.
StopIfReady ==
  /\ stage = "Stop"
  /\ InModules(modules) \cap Enabled \subseteq ready
  /\ Ends

\* Stop of all modules, those that lua registered included, which does not wait
\* for anything; rdbmsStop; and os.Exit, whatever the other goroutines are doing.
Stop ==
  /\ stage = "Stop"
  /\ Ends

\* libmilter returns an error.
MilterFails ==
  /\ stage = "waiting"
  /\ Ends
-----------------------------------------------------------------------------
(* daemonIpc: the goroutine that accepts, the one that closes the socket   *)
(* and those of the connections.                                           *)

\* The socket another process left is removed.
IpcListen ==
  /\ Alive
  /\ ipc = "starting"
  /\ \/ Ends
     \/ /\ ipc' = "accepting"
        /\ socket' = "ours"
        /\ UNCHANGED <<stage, modules, todo, ready, command>>

\* Who sends a command connects, be there someone to accept it or not.
DaemonIpcSend ==
  /\ Alive
  /\ socket = "ours"
  /\ command' = TRUE
  /\ UNCHANGED <<stage, modules, todo, ready, ipc, socket>>

\* A goroutine of the connection calls what was registered with the module,
\* enabled or not, if anything was; panics are recovered from.
Accept ==
  /\ Alive
  /\ ipc = "accepting"
  /\ command
  /\ command' = FALSE
  /\ UNCHANGED <<stage, modules, todo, ready, ipc, socket>>

\* An error that is no shutdown: before it is told, the loop waits for done.
AcceptFails ==
  /\ Alive
  /\ ipc = "accepting"
  /\ ipc' = "waiting"
  /\ UNCHANGED <<stage, modules, todo, ready, socket, command>>

\* The socket is closed once done is, and with it what was not accepted.
Close ==
  /\ Alive /\ Done
  /\ ipc \in {"accepting", "waiting"}
  /\ ipc' = "over"
  /\ socket' = "none"
  /\ command' = FALSE
  /\ UNCHANGED <<stage, modules, todo, ready>>

Main == Start \/ InitModule \/ MilterStart \/ MilterStop \/ Stop

Ipc == IpcListen \/ Accept \/ Close

\* libmilter accepts connections.
Listening == stage \in {"waiting", "milterStop"}

\* A session begins with a connection.
MilterStep ==
  /\ Alive
  /\ Next
  /\ Listening \/ \A s \in Sessions : mta[s].stage = "new" => mta'[s].stage = "new"

DaemonNext ==
  \/ /\ Main \/ Signal \/ MilterFails \/ Ipc \/ DaemonIpcSend \/ AcceptFails
     /\ UNCHANGED vars
  \/ MilterStep /\ UNCHANGED daemonVars

DaemonSpec == DaemonInit /\ [][DaemonNext]_allVars

OfMilter(A) == A /\ Alive /\ UNCHANGED daemonVars

(***************************************************************************)
(* The goroutines go on while the process lives: a handler that was        *)
(* called, what was started for a session, the tickers that prune (every   *)
(* minute) and process the queue (every second).  Time passes.  The MTA    *)
(* need not do anything: it may never close its connection.  Nobody has to *)
(* send a command or a signal.                                             *)
(***************************************************************************)
FairDaemonSpec ==
  /\ DaemonSpec
  /\ WF_allVars(Main /\ UNCHANGED vars)
  /\ WF_allVars(Ipc /\ UNCHANGED vars)
  /\ \A s \in Sessions :
       /\ WF_allVars(OfMilter(HandlerStep(s)))
       /\ WF_allVars(OfMilter(Age(s)))
       /\ WF_allVars(OfMilter(SessionDisconnect(s)))
  /\ WF_allVars(OfMilter(Prune))
  /\ WF_allVars(OfMilter(ProcessQueue))
-----------------------------------------------------------------------------
(* Nothing that comes from outside, be it mail or a command, meets a       *)
(* module that is enabled and not initialised, or a script that is not     *)
(* registered yet.  HTTP and Redis, which are started before, may.         *)
ReadyWhenCalled ==
  (\E s \in Sessions : mta[s].stage # "new") \/ command =>
    /\ InModules(Registered) \cap Enabled \subseteq ready
    /\ Lua \in InModules(Registered) \cap Enabled => InModules(Scripts) \subseteq InModules(modules)

(* The start of the process comes to an end, and a signal it waits for ends *)
(* it: no handler and no module is in the way.                             *)
StartsAndStops == []<>(stage \in {"waiting", "ended"}) /\ (Done ~> ~Alive)

(* The MTA gets an answer to every call, and so does who sends a command,  *)
(* unless the process ends or the loop that accepts commands has met an    *)
(* error.                                                                  *)
CallsAreAnswered ==
  /\ \A s \in Sessions : call[s] # "none" ~> call[s] = "none" \/ ~Alive
  /\ command ~> ~command \/ ipc = "waiting" \/ ~Alive

(* Every session ends up with the modules, unless the ring buffer is full  *)
(* or the process ends, whether or not the MTA closes its connection.      *)
SessionsEnd ==
  \A s \in Sessions :
    mta[s].stage # "new" ~> s \in disconnected \cup overwritten \/ ~Alive
=============================================================================
