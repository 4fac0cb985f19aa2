-------------------------------- MODULE Rpc ---------------------------------
(***************************************************************************)
(* Calls between the processes of a cluster over Redis' publish/subscribe  *)
(* (core/redis.go), while a process starts (core/daemon.go).  Every        *)
(* process subscribes to all channels in a goroutine of its own, redisRpc. *)
(* That goroutine asks the enabled modules for the Go channels they listen *)
(* on, once; whether the modules were initialised by then is a race.       *)
(*                                                                         *)
(* This module has the variables and actions of the calls; Feedback says   *)
(* what is called.                                                         *)
(***************************************************************************)
EXTENDS Integers, Sequences, FiniteSets

CONSTANTS
  Processes,
  Instance,   \* the instance that a process belongs to
  Running,    \* the processes that run already; the others are starting
  Everyone,   \* the empty string in the name of a channel: no instance
  Learning    \* sets of processes: who may have the bayes module enabled

\* What bayes listens for.  mailQueue, the other module that listens, is left
\* out.
Patterns == {"reportMessageId", "learn"}

ASSUME RpcAssumption ==
  /\ Everyone \notin {Instance[p] : p \in Processes}
  /\ Learning \subseteq SUBSET Processes
  /\ Running \subseteq Processes

VARIABLES
  bayes,      \* the processes that have the bayes module enabled
  up,         \* the processes that have not ended
  phase,      \* how far the initialisation of their modules is
  subscribed, \* the processes whose redisRpc got past PSubscribe
  listeners,  \* what it has for a pattern: not asked yet, a nil channel, or
              \* a channel
  inbox,      \* what Redis sent and redisRpc did not receive yet
  sending     \* its goroutines, each with a payload for a channel

rpcVars == <<bayes, up, phase, subscribed, listeners, inbox, sending>>

\* What the enabled modules of p listen for.
PatternsOf(p) == IF p \in bayes THEN Patterns ELSE {}

RpcInit ==
  /\ bayes \in Learning
  /\ up = Processes
  /\ phase = [p \in Processes |-> IF p \in Running THEN "started" ELSE "redisStart"]
  /\ subscribed = Running
  /\ listeners = [p \in Processes |->
                    [c \in PatternsOf(p) |-> IF p \in Running THEN "channel" ELSE "unread"]]
  /\ inbox = [p \in Processes |-> <<>>]
  /\ sending = [p \in Processes |-> {}]
-----------------------------------------------------------------------------
(* daemonStart initialises the modules after redisStart started redisRpc.  *)

After(ph) ==
  CASE ph = "redisStart" -> "reportMade"
    [] ph = "reportMade" -> "learnMade"
    [] ph = "learnMade" -> "started"

\* The channels that Init of bayes made so far, and then the goroutines
\* that receive from them.
Made(p) ==
  (IF phase[p] # "redisStart" THEN {"reportMessageId"} ELSE {}) \cup
  (IF phase[p] \in {"learnMade", "started"} THEN {"learn"} ELSE {})

\* Mutant of Served: the goroutine that receives lessons is started before the
\* channel is made, and receives from nil.
ServedReports(p) == IF phase[p] = "started" THEN {"reportMessageId"} ELSE {}

Served(p) == IF phase[p] = "started" THEN Patterns ELSE {}

InitModules(p) ==
  /\ p \in up
  /\ phase[p] # "started"
  /\ phase' = [phase EXCEPT ![p] = After(@)]
  /\ UNCHANGED <<bayes, up, subscribed, listeners, inbox, sending>>

\* PSubscribe.  Redis keeps nothing for those who are not subscribed.
Subscribe(p) ==
  /\ p \in up
  /\ p \notin subscribed
  /\ subscribed' = subscribed \cup {p}
  /\ UNCHANGED <<bayes, up, phase, listeners, inbox, sending>>

\* Rpc() of a module, one channel after the other.
AskModule(p, c) ==
  /\ p \in up
  /\ p \in subscribed
  /\ c \in PatternsOf(p)
  /\ listeners[p][c] = "unread"
  /\ c = "learn" => listeners[p]["reportMessageId"] # "unread"
  /\ listeners' = [listeners EXCEPT ![p][c] = IF c \in Made(p) THEN "channel" ELSE "nil"]
  /\ UNCHANGED <<bayes, up, phase, subscribed, inbox, sending>>

Asked(p) == \A c \in PatternsOf(p) : listeners[p][c] # "unread"

\* A call m is a record with the instance it is to, the pattern and a body.
Published(m) ==
  inbox' = [p \in Processes |->
    IF p \in up /\ p \in subscribed THEN Append(inbox[p], m) ELSE inbox[p]]

\* RedisPublish, whose errors its callers log.
RedisPublish(m) ==
  /\ Published(m) \/ inbox' = inbox
  /\ UNCHANGED <<bayes, up, phase, subscribed, listeners>>

\* Mutant of IsFor: every instance takes the calls of all.
IsForAny(p, m) == TRUE

\* No caller names a host.
IsFor(p, m) == m.to \in {Instance[p], Everyone}

\* A round of the loop.
Receive(p) ==
  /\ p \in up
  /\ p \in subscribed
  /\ Asked(p)
  /\ inbox[p] # <<>>
  /\ inbox' = [inbox EXCEPT ![p] = Tail(@)]
  /\ LET m == Head(inbox[p])
     IN sending' = IF IsFor(p, m) /\ m.pattern \in PatternsOf(p)
                   THEN [sending EXCEPT ![p] = @ \cup {m}]
                   ELSE sending
  /\ UNCHANGED <<bayes, up, phase, subscribed, listeners>>

\* ReceiveMessage fails, redisRpc sleeps for a second and then receives on a
\* new connection: what was published until then is lost.
LoseConnection(p) ==
  /\ p \in up
  /\ Asked(p)
  /\ inbox[p] # <<>>
  /\ inbox' = [inbox EXCEPT ![p] = <<>>]
  /\ UNCHANGED <<bayes, up, phase, subscribed, listeners, sending>>

\* channel <- payload, and the loop of the module that receives it, which
\* starts a goroutine: the first thing that goroutine does is an action of the
\* module with this in it.  A send to a nil channel blocks for ever.
Take(p, m) ==
  /\ p \in up
  /\ m \in sending[p]
  /\ listeners[p][m.pattern] = "channel"
  /\ m.pattern \in Served(p)
  /\ sending' = [sending EXCEPT ![p] = @ \ {m}]

\* A panic that nothing recovers from.
EndProcess(p) ==
  /\ up' = up \ {p}
  /\ UNCHANGED <<bayes, phase, subscribed, listeners, inbox, sending>>

\* Connections are not lost for the sake of it.
RpcProceeds(p) ==
  \/ InitModules(p) \/ Subscribe(p) \/ Receive(p)
  \/ \E c \in Patterns : AskModule(p, c)

RpcNext(p) == RpcProceeds(p) \/ LoseConnection(p)
=============================================================================
