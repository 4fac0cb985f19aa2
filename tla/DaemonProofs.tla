---------------------------- MODULE DaemonProofs ----------------------------
(***************************************************************************)
(* Proofs about Milter and about Daemon.                                   *)
(*                                                                         *)
(* Of the milter, for any number of sessions, whichever of them are        *)
(* whitelisted, whatever the modules make of recipients and wherever they  *)
(* panic: no session is lost, a message is judged on its own data, and one *)
(* that was delivered was permitted.  The milter of Daemon is this one: its *)
(* theorems hold as long as the process lives, and the modules are ready   *)
(* when they are called.                                                   *)
(***************************************************************************)
EXTENDS Daemon, TLAPS

InTransaction == {"mail", "rcpt", "headers", "body"}

\* The last message of the session is the one of the MTA's transaction.
Owned(s) ==
  /\ messages[s] # <<>>
  /\ LastMessage(s).of = {mta[s].n}
  /\ LastMessage(s).rcpt \subseteq mta[s].rcpts
  /\ LastMessage(s).rcpt = mta[s].rcpts \/ Noop \/ s \in Whitelisted

\* Where the MTA is while a handler is under way.
InPlace(s) ==
  /\ mta[s].stage = "new" => s \notin index /\ call[s] = "none"
  /\ call[s] \in Callbacks => mta[s].stage \in CalledIn[call[s]]
  /\ call[s] \in Callbacks \ {"EnvRcpt", "Eoh"} => s \notin index
  /\ call[s] = "EnvFrom" => mta[s].n < MaxTransactions
  /\ call[s] = "judging" => mta[s].stage = "body"
  /\ call[s] \in {"persisting", "deleting"} => mta[s].stage # "new"

OnOwnData(s) ==
  /\ s \in index /\ mta[s].stage \in InTransaction => Owned(s)
  /\ call[s] = "judging" => Owned(s)

Permitted(s) ==
  /\ messages[s] # <<>>
  /\ LastMessage(s).judged /\ LastMessage(s).verdict = "Permit"
  /\ LastMessage(s).of = {mta[s].n}

Delivered(s) ==
  mta[s].delivered =>
    /\ mta[s].stage \notin InTransaction
    /\ Noop \/ s \in Whitelisted \/ Permitted(s)

SessionInv(s) == InPlace(s) /\ OnOwnData(s) /\ Delivered(s)

SessionsInv == \A s \in Sessions : SessionInv(s)

\* What is in the ring buffer, or went through it.
Kept == InRing \cup disconnecting \cup disconnected \cup overwritten

Accounted ==
  /\ pruning \subseteq index
  /\ \A s \in Sessions : call[s] = "deleting" => s \in Kept
  /\ SessionsAccounted

MInv == TypeOK /\ SessionsInv /\ Accounted

-----------------------------------------------------------------------------
LEMMA CallbackNames ==
  Callbacks = {"Helo", "EnvFrom", "EnvRcpt", "Header", "Eoh", "Body", "Eom"}
  BY DEF Callbacks, CalledIn

(* What the MTA makes of a reply.                                          *)
LEMMA RepliedFacts ==
  ASSUME TypeOK, NEW s \in Sessions, NEW c \in Callbacks, NEW r \in Rcpts \cup {{}},
         NEW rep \in Replies, Replied(s, c, r, rep),
         c = "EnvFrom" => mta[s].n < MaxTransactions,
         c = "EnvRcpt" => r \in Rcpts
  PROVE  /\ mta' \in [Sessions -> [stage : Stages, n : 0 .. MaxTransactions,
                                   rcpts : SUBSET Rcpts, delivered : BOOLEAN]]
         /\ reply' \in [Sessions -> Replies]
         /\ \A t \in Sessions \ {s} : mta'[t] = mta[t]
         /\ mta'[s].stage = IF rep \notin Refusals THEN StageAfter[c]
                            ELSE IF c = "EnvRcpt" THEN mta[s].stage ELSE "connected"
         /\ mta'[s].n = IF c = "EnvFrom" THEN mta[s].n + 1 ELSE mta[s].n
         /\ mta'[s].rcpts = IF c = "EnvFrom" THEN {}
                            ELSE IF c = "EnvRcpt" /\ rep \notin Refusals
                            THEN mta[s].rcpts \cup {r} ELSE mta[s].rcpts
         /\ mta'[s].delivered <=> c = "Eom" /\ rep \in {"Accept", "Continue"}
<1> DEFINE next == [stage |-> IF rep \notin Refusals THEN StageAfter[c]
                              ELSE IF c = "EnvRcpt" THEN mta[s].stage ELSE "connected",
                    n |-> IF c = "EnvFrom" THEN mta[s].n + 1 ELSE mta[s].n,
                    rcpts |-> IF c = "EnvFrom" THEN {}
                              ELSE IF c = "EnvRcpt" /\ rep \notin Refusals
                              THEN mta[s].rcpts \cup {r} ELSE mta[s].rcpts,
                    delivered |-> c = "Eom" /\ rep \in {"Accept", "Continue"}]
<1>1. /\ mta \in [Sessions -> [stage : Stages, n : 0 .. MaxTransactions,
                               rcpts : SUBSET Rcpts, delivered : BOOLEAN]]
      /\ reply \in [Sessions -> Replies]
  BY DEF TypeOK
<1>2. mta' = [mta EXCEPT ![s] = next]
  BY DEF Replied
<1>3. StageAfter[c] \in Stages
  BY CallbackNames DEF StageAfter, Stages
<1>4. next.n \in 0 .. MaxTransactions
  BY <1>1, MilterAssumption
<1>5. next \in [stage : Stages, n : 0 .. MaxTransactions,
                rcpts : SUBSET Rcpts, delivered : BOOLEAN]
  <2>1. next.stage \in Stages
    BY <1>1, <1>3 DEF Stages
  <2>2. next.rcpts \in SUBSET Rcpts
    BY <1>1
  <2>3. next.delivered \in BOOLEAN
    OBVIOUS
  <2>4. QED
    BY <1>4, <2>1, <2>2, <2>3
<1>6. reply' \in [Sessions -> Replies]
  BY <1>1 DEF Replied
<1>7. mta'[s] = next /\ \A t \in Sessions \ {s} : mta'[t] = mta[t]
  BY <1>1, <1>2
<1>8. QED
  BY <1>1, <1>2, <1>5, <1>6, <1>7

Items(q) == {q[i] : i \in DOMAIN q}

LEMMA ItemsOfAppend ==
  ASSUME NEW S, NEW q \in Seq(S), NEW e \in S
  PROVE  Items(Append(q, e)) = Items(q) \cup {e}
<1>1. DOMAIN q = 1 .. Len(q) /\ Len(q) \in Nat
  OBVIOUS
<1>2. DOMAIN Append(q, e) = 1 .. (Len(q) + 1)
  OBVIOUS
<1>3. 1 .. (Len(q) + 1) = (1 .. Len(q)) \cup {Len(q) + 1}
  BY <1>1
<1>4. \A i \in 1 .. Len(q) : Append(q, e)[i] = q[i]
  OBVIOUS
<1>5. Append(q, e)[Len(q) + 1] = e
  OBVIOUS
<1>6. QED
  BY <1>1, <1>2, <1>3, <1>4, <1>5 DEF Items

LEMMA ItemsOfTail ==
  ASSUME NEW S, NEW q \in Seq(S), q # <<>>
  PROVE  Items(q) = {Head(q)} \cup Items(Tail(q))
<1>1. DOMAIN q = 1 .. Len(q) /\ Len(q) \in Nat \ {0}
  OBVIOUS
<1>2. Head(q) = q[1]
  OBVIOUS
<1>3. DOMAIN Tail(q) = 1 .. (Len(q) - 1)
  OBVIOUS
<1>4. \A i \in 1 .. (Len(q) - 1) : Tail(q)[i] = q[i + 1]
  OBVIOUS
<1>5. ASSUME NEW x \in Items(q)
      PROVE  x \in {Head(q)} \cup Items(Tail(q))
  <2>1. PICK i \in 1 .. Len(q) : x = q[i]
    BY <1>1 DEF Items
  <2>2. CASE i = 1
    BY <1>2, <2>1, <2>2
  <2>3. CASE i # 1
    <3>1. i - 1 \in 1 .. (Len(q) - 1) /\ (i - 1) + 1 = i
      BY <1>1, <2>3
    <3>2. Tail(q)[i - 1] = x
      BY <1>4, <2>1, <3>1
    <3>3. QED
      BY <1>3, <3>1, <3>2 DEF Items
  <2>4. QED
    BY <2>2, <2>3
<1>6. ASSUME NEW x \in {Head(q)} \cup Items(Tail(q))
      PROVE  x \in Items(q)
  <2>1. CASE x = Head(q)
    <3>1. 1 \in 1 .. Len(q)
      BY <1>1
    <3>2. QED
      BY <1>1, <1>2, <2>1, <3>1 DEF Items
  <2>2. CASE x \in Items(Tail(q))
    <3>1. PICK i \in 1 .. (Len(q) - 1) : x = q[i + 1]
      BY <1>3, <1>4, <2>2 DEF Items
    <3>2. i + 1 \in 1 .. Len(q)
      BY <1>1
    <3>3. QED
      BY <1>1, <3>1, <3>2 DEF Items
  <2>3. QED
    BY <1>6, <2>1, <2>2
<1>7. QED
  BY <1>5, <1>6

(* The ring buffer keeps a session that is put into it, at the expense of  *)
(* its oldest item.                                                        *)
LEMMA EnqueueKeeps ==
  ASSUME TypeOK, NEW s \in Sessions, Enqueue(s),
         UNCHANGED <<disconnecting, disconnected>>
  PROVE  /\ ring' \in Seq(Sessions)
         /\ overwritten' \in SUBSET Sessions
         /\ Kept' = Kept \cup {s}
<1>1. ring \in Seq(Sessions) /\ overwritten \in SUBSET Sessions
  BY DEF TypeOK
<1>2. CASE Len(ring) < Capacity
  <2>1. ring' = Append(ring, s) /\ overwritten' = overwritten
    BY <1>2 DEF Enqueue
  <2>2. Items(ring') = Items(ring) \cup {s}
    BY <1>1, <2>1, ItemsOfAppend
  <2>3. QED
    BY <1>1, <2>1, <2>2 DEF Kept, InRing, Items
<1>3. CASE ~(Len(ring) < Capacity)
  <2>1. ring' = Append(Tail(ring), s) /\ overwritten' = overwritten \cup {Head(ring)}
    BY <1>3 DEF Enqueue
  <2>2. ring # <<>> /\ Head(ring) \in Sessions /\ Tail(ring) \in Seq(Sessions)
    BY <1>1, <1>3, MilterAssumption
  <2>3. Items(ring') = Items(Tail(ring)) \cup {s}
    <3>1. \A q \in Seq(Sessions) : Items(Append(q, s)) = Items(q) \cup {s}
      BY ItemsOfAppend
    <3>2. Items(Append(Tail(ring), s)) = Items(Tail(ring)) \cup {s}
      BY <2>2, <3>1
    <3>3. QED
      BY <2>1, <3>2
  <2>4. Items(ring) = {Head(ring)} \cup Items(Tail(ring))
    BY <1>1, <2>2, ItemsOfTail
  <2>5. Items(ring') \cup {Head(ring)} = Items(ring) \cup {s}
    BY <2>3, <2>4
  <2>6. InRing' = Items(ring') /\ InRing = Items(ring)
    BY DEF InRing, Items
  <2>7. Kept' = Kept \cup {s}
    BY <2>1, <2>5, <2>6 DEF Kept
  <2>8. ring' \in Seq(Sessions)
    BY <2>1, <2>2
  <2>9. QED
    BY <1>1, <2>1, <2>2, <2>7, <2>8
<1>4. QED
  BY <1>2, <1>3

(* What is known of the messages after the last one of a session is        *)
(* replaced.                                                               *)
LEMMA WithLastFacts ==
  ASSUME TypeOK, NEW s \in Sessions, messages[s] # <<>>, NEW msg \in Message,
         messages' = WithLast(s, msg)
  PROVE  /\ messages' \in [Sessions -> Seq(Message)]
         /\ \A t \in Sessions \ {s} : messages'[t] = messages[t]
         /\ messages'[s] # <<>>
         /\ messages'[s][Len(messages'[s])] = msg
<1>1. messages \in [Sessions -> Seq(Message)]
  BY DEF TypeOK
<1>2. messages[s] \in Seq(Message) /\ Len(messages[s]) \in Nat \ {0}
  BY <1>1
<1>3. messages' = [messages EXCEPT ![s] = [messages[s] EXCEPT ![Len(messages[s])] = msg]]
  BY <1>1 DEF WithLast
<1> DEFINE q == [messages[s] EXCEPT ![Len(messages[s])] = msg]
<1>4. q \in Seq(Message) /\ Len(q) = Len(messages[s]) /\ q[Len(q)] = msg /\ q # <<>>
  BY <1>2
<1>5. messages'[s] = q
  BY <1>1, <1>3
<1>6. QED
  BY <1>1, <1>3, <1>4, <1>5

LEMMA LastFacts ==
  ASSUME TypeOK, NEW s \in Sessions, messages[s] # <<>>
  PROVE  LastMessage(s) \in Message
<1>1. messages[s] \in Seq(Message) /\ Len(messages[s]) \in 1 .. Len(messages[s])
  BY DEF TypeOK
<1>2. QED
  BY <1>1 DEF LastMessage
-----------------------------------------------------------------------------
MtaType == [Sessions -> [stage : Stages, n : 0 .. MaxTransactions,
                         rcpts : SUBSET Rcpts, delivered : BOOLEAN]]

(* A session is not disturbed by what leaves its own variables alone and   *)
(* does not add it to the index.                                           *)
LEMMA Undisturbed ==
  ASSUME NEW t \in Sessions, SessionInv(t),
         mta'[t] = mta[t], call'[t] = call[t], messages'[t] = messages[t],
         t \in index' => t \in index, mta[t].stage = "new" => t \notin index'
  PROVE  SessionInv(t)'
  BY DEF SessionInv, InPlace, OnOwnData, Owned, LastMessage, Delivered, Permitted

(* What is left to show of a step of one session.                          *)
LEMMA SessionStep ==
  ASSUME TypeOK, SessionsInv, NEW s \in Sessions,
         mta' \in MtaType, reply' \in [Sessions -> Replies],
         call' \in [Sessions -> Handling], messages' \in [Sessions -> Seq(Message)],
         index' \subseteq Sessions, index' \ {s} \subseteq index,
         UNCHANGED <<pruneVars, endVars, queueVars>>,
         \A t \in Sessions \ {s} :
           mta'[t] = mta[t] /\ call'[t] = call[t] /\ messages'[t] = messages[t],
         SessionInv(s)'
  PROVE  TypeOK' /\ SessionsInv'
<1>1. TypeOK'
  BY DEF TypeOK, MtaType, pruneVars, endVars, queueVars
<1>2. ASSUME NEW t \in Sessions \ {s}
      PROVE  SessionInv(t)'
  <2>1. SessionInv(t) /\ (t \in index' => t \in index)
    BY DEF SessionsInv
  <2>2. mta[t].stage = "new" => t \notin index'
    BY <2>1 DEF SessionInv, InPlace
  <2>3. QED
    BY <2>1, <2>2, Undisturbed
<1>3. QED
  BY <1>1, <1>2 DEF SessionsInv

(* Adding data of the transaction that the last message is of.             *)
LEMMA ExtendedFacts ==
  ASSUME TypeOK, NEW s \in Sessions, SessionInv(s), s \in index,
         mta[s].stage \in InTransaction
  PROVE  Owned(s) /\ Extended(s) = LastMessage(s) /\ LastMessage(s) \in Message
<1>1. Owned(s) /\ messages[s] # <<>>
  BY DEF SessionInv, OnOwnData, Owned
<1>2. LastMessage(s) \in Message
  BY <1>1, LastFacts
<1>3. LastMessage(s).of \cup {mta[s].n} = LastMessage(s).of
  BY <1>1 DEF Owned
<1>4. QED
  BY <1>1, <1>2, <1>3 DEF Extended, Message
-----------------------------------------------------------------------------
(* The steps of a session, one lemma for each action.                      *)

LEMMA ConnectStep ==
  ASSUME TypeOK, SessionsInv, NEW s \in Sessions, Connect(s)
  PROVE  TypeOK' /\ SessionsInv'
<1>1. SessionInv(s)
  BY DEF SessionsInv
<1>2. mta' \in MtaType /\ mta'[s].stage = "connected" /\ mta'[s].n = mta[s].n
      /\ mta'[s].delivered = mta[s].delivered
      /\ \A t \in Sessions \ {s} : mta'[t] = mta[t]
  BY DEF Connect, TypeOK, MtaType, Stages
<1>3. call[s] = "none"
  BY <1>1 DEF Connect, SessionInv, InPlace
<1>4. SessionInv(s)'
  BY <1>1, <1>2, <1>3
     DEF Connect, SessionInv, InPlace, OnOwnData, Delivered, Permitted, LastMessage,
         InTransaction, Callbacks, CalledIn
<1>5. QED
  BY <1>1, <1>2, <1>3, <1>4, SessionStep DEF Connect, TypeOK

LEMMA NotFoundStep ==
  ASSUME TypeOK, SessionsInv, NEW s \in Sessions, NEW c \in Callbacks, NotFound(s, c)
  PROVE  TypeOK' /\ SessionsInv'
<1>1. SessionInv(s)
  BY DEF SessionsInv
<1>2. call' \in [Sessions -> Handling] /\ call'[s] = c
      /\ \A t \in Sessions \ {s} : call'[t] = call[t]
  BY DEF NotFound, Panics, TypeOK, Handling
<1>3. mta[s].stage \in CalledIn[c] /\ mta[s].stage # "new"
      /\ (c = "EnvFrom" => mta[s].n < MaxTransactions)
      /\ (c \notin {"Helo", "EnvFrom"} => mta[s].stage \in InTransaction)
  BY CallbackNames DEF NotFound, Calls, CalledIn, InTransaction
<1>4. s \notin index
  <2>1. CASE c \in {"Helo", "EnvFrom"}
    BY <2>1 DEF NotFound, Found
  <2>2. CASE c \notin {"Helo", "EnvFrom"}
    BY <1>1, <1>3, <2>2 DEF NotFound, Found, SessionInv, OnOwnData, Owned
  <2>3. QED
    BY <2>1, <2>2
<1>5. c # "judging" /\ c \notin {"persisting", "deleting"}
  BY CallbackNames
<1>6. SessionInv(s)'
  BY <1>1, <1>2, <1>3, <1>4, <1>5
     DEF NotFound, Panics, SessionInv, InPlace, OnOwnData, Owned, Delivered, Permitted,
         LastMessage
<1>7. QED
  BY <1>2, <1>6, SessionStep DEF NotFound, Panics, TypeOK, MtaType

LEMMA HeloStep ==
  ASSUME TypeOK, SessionsInv, NEW s \in Sessions, Helo(s)
  PROVE  TypeOK' /\ SessionsInv'
<1>1. SessionInv(s) /\ call[s] = "none" /\ mta[s].stage = "connected"
  BY DEF SessionsInv, Helo, Calls, CalledIn
<1>2. "Helo" \in Callbacks /\ "Continue" \in Replies /\ "Continue" \notin Refusals
  BY CallbackNames DEF Replies, Refusals
<1>3. Replied(s, "Helo", {}, "Continue")
  BY DEF Helo, Returns
<1>4. /\ mta' \in MtaType /\ reply' \in [Sessions -> Replies]
      /\ \A t \in Sessions \ {s} : mta'[t] = mta[t]
      /\ mta'[s].stage = "connected" /\ ~mta'[s].delivered
  <2>1. StageAfter["Helo"] = "connected" /\ {} \in Rcpts \cup {{}}
    BY DEF StageAfter
  <2>2. "Helo" \notin {"EnvFrom", "EnvRcpt", "Eom"}
    OBVIOUS
  <2>3. QED
    BY <1>2, <1>3, <2>1, <2>2, RepliedFacts DEF MtaType
<1>5. UNCHANGED <<call, messages, index, pruneVars, endVars, queueVars>>
  BY DEF Helo, Returns
<1>6. SessionInv(s)'
  BY <1>1, <1>4, <1>5, CallbackNames
     DEF SessionInv, InPlace, OnOwnData, Delivered, InTransaction
<1>7. QED
  BY <1>4, <1>5, <1>6, SessionStep DEF TypeOK

LEMMA EnvFromStep ==
  ASSUME TypeOK, SessionsInv, NEW s \in Sessions, EnvFrom(s)
  PROVE  TypeOK' /\ SessionsInv'
<1>1. SessionInv(s) /\ call[s] = "none" /\ mta[s].stage = "connected" /\ s \in index
      /\ mta[s].n < MaxTransactions
  BY DEF SessionsInv, EnvFrom, Calls, CalledIn, Found
<1>2. "EnvFrom" \in Callbacks /\ "Continue" \in Replies /\ "Continue" \notin Refusals
  BY CallbackNames DEF Replies, Refusals
<1>3. Replied(s, "EnvFrom", {}, "Continue")
  BY DEF EnvFrom, Returns
<1>4. /\ mta' \in MtaType /\ reply' \in [Sessions -> Replies]
      /\ \A t \in Sessions \ {s} : mta'[t] = mta[t]
      /\ mta'[s].stage = "mail" /\ ~mta'[s].delivered
      /\ mta'[s].n = mta[s].n + 1 /\ mta'[s].rcpts = {}
  BY <1>1, <1>2, <1>3, RepliedFacts DEF MtaType, StageAfter
<1>5. UNCHANGED <<call, index, pruneVars, endVars, queueVars>>
  BY DEF EnvFrom, Returns
<1> DEFINE msg == NewMessage(mta[s].n + 1)
<1>6. msg \in Message
  <2>1. mta[s].n + 1 \in 1 .. MaxTransactions
    BY <1>1, MilterAssumption DEF TypeOK
  <2>2. QED
    BY <2>1 DEF NewMessage, Message, ZeroVerdict, FinalVerdicts, Verdicts
<1>7. messages \in [Sessions -> Seq(Message)]
      /\ messages' = [messages EXCEPT ![s] = Append(messages[s], msg)]
  BY DEF TypeOK, EnvFrom
<1>8. /\ messages' \in [Sessions -> Seq(Message)]
      /\ messages'[s] = Append(messages[s], msg)
      /\ \A t \in Sessions \ {s} : messages'[t] = messages[t]
  BY <1>6, <1>7
<1>9. messages'[s] # <<>> /\ messages'[s][Len(messages'[s])] = msg
  BY <1>6, <1>7, <1>8
<1>10. Owned(s)'
  BY <1>4, <1>9 DEF Owned, LastMessage, NewMessage
<1>11. SessionInv(s)'
  BY <1>1, <1>4, <1>5, <1>10, CallbackNames
     DEF SessionInv, InPlace, OnOwnData, Delivered, InTransaction
<1>12. QED
  BY <1>4, <1>5, <1>8, <1>11, SessionStep DEF TypeOK
LEMMA EnvRcptStep ==
  ASSUME TypeOK, SessionsInv, NEW s \in Sessions, NEW r \in Rcpts, EnvRcpt(s, r)
  PROVE  TypeOK' /\ SessionsInv'
<1>1. SessionInv(s) /\ call[s] = "none" /\ mta[s].stage \in {"mail", "rcpt"} /\ s \in index
  BY DEF SessionsInv, EnvRcpt, Calls, CalledIn, Found
<1>2. "EnvRcpt" \in Callbacks /\ StageAfter["EnvRcpt"] = "rcpt" /\ r \in Rcpts \cup {{}}
      /\ "EnvRcpt" \notin {"EnvFrom", "Eom", "judging", "persisting", "deleting"}
  BY CallbackNames DEF StageAfter
<1>3. Owned(s) /\ Extended(s) = LastMessage(s) /\ LastMessage(s) \in Message
      /\ messages[s] # <<>>
  BY <1>1, ExtendedFacts DEF InTransaction, Owned
<1>4. UNCHANGED <<index, pruneVars, endVars, queueVars>>
  BY DEF EnvRcpt
<1>5. ASSUME NEW v \in RecipientVerdicts,
             messages' = IF RecipientReply(v) \in Refusals THEN messages
                         ELSE WithLast(s, [Extended(s) EXCEPT !.rcpt = @ \cup {r}]),
             Returns(s, "EnvRcpt", r, RecipientReply(v))
      PROVE  TypeOK' /\ SessionsInv'
  <2>1. RecipientReply(v) \in Replies /\ call' = call
    BY <1>5 DEF RecipientReply, Replies, Refusals, Returns
  <2>2. Replied(s, "EnvRcpt", r, RecipientReply(v))
    BY <1>5 DEF Returns
  <2>3. /\ mta' \in MtaType /\ reply' \in [Sessions -> Replies]
        /\ \A t \in Sessions \ {s} : mta'[t] = mta[t]
        /\ mta'[s].stage \in {"mail", "rcpt"} /\ ~mta'[s].delivered
        /\ mta'[s].n = mta[s].n
        /\ mta'[s].rcpts = IF RecipientReply(v) \notin Refusals
                           THEN mta[s].rcpts \cup {r} ELSE mta[s].rcpts
    <3> DEFINE rep == RecipientReply(v)
    <3>1. rep \in Replies /\ Replied(s, "EnvRcpt", r, rep)
      BY <2>1, <2>2
    <3> HIDE DEF rep
    <3>2. /\ mta' \in MtaType /\ reply' \in [Sessions -> Replies]
          /\ \A t \in Sessions \ {s} : mta'[t] = mta[t]
          /\ mta'[s].stage = IF rep \notin Refusals THEN "rcpt" ELSE mta[s].stage
          /\ ~mta'[s].delivered /\ mta'[s].n = mta[s].n
          /\ mta'[s].rcpts = IF rep \notin Refusals
                             THEN mta[s].rcpts \cup {r} ELSE mta[s].rcpts
      BY <1>1, <1>2, <3>1, RepliedFacts DEF MtaType
    <3>3. QED
      BY <1>1, <3>2 DEF rep
  <2>4. /\ messages' \in [Sessions -> Seq(Message)]
        /\ \A t \in Sessions \ {s} : messages'[t] = messages[t]
        /\ Owned(s)'
    <3>1. CASE RecipientReply(v) \in Refusals
      BY <1>3, <1>5, <2>3, <3>1 DEF TypeOK, Owned, LastMessage
    <3>2. CASE RecipientReply(v) \notin Refusals
      <4> DEFINE msg == [LastMessage(s) EXCEPT !.rcpt = LastMessage(s).rcpt \cup {r}]
      <4>1. msg \in Message /\ msg.of = LastMessage(s).of
            /\ msg.rcpt = LastMessage(s).rcpt \cup {r}
        BY <1>3 DEF Message
      <4>2. messages' = WithLast(s, msg)
        BY <1>3, <1>5, <3>2
      <4>3. /\ messages' \in [Sessions -> Seq(Message)]
            /\ \A t \in Sessions \ {s} : messages'[t] = messages[t]
            /\ messages'[s] # <<>> /\ messages'[s][Len(messages'[s])] = msg
        BY <1>3, <4>1, <4>2, WithLastFacts
      <4>4. Owned(s)'
        BY <1>3, <2>3, <3>2, <4>1, <4>3 DEF Owned, LastMessage
      <4>5. QED
        BY <4>3, <4>4
    <3>3. QED
      BY <3>1, <3>2
  <2>5. SessionInv(s)'
    BY <1>1, <1>2, <2>1, <2>3, <2>4, CallbackNames
       DEF SessionInv, InPlace, OnOwnData, Delivered
  <2>6. QED
    BY <1>4, <2>1, <2>3, <2>4, <2>5, SessionStep DEF TypeOK
<1>6. CASE Panics(s, "EnvRcpt")
  <2>1. /\ call' \in [Sessions -> Handling] /\ call'[s] = "EnvRcpt"
        /\ \A t \in Sessions \ {s} : call'[t] = call[t]
    BY <1>2, <1>6 DEF Panics, TypeOK, Handling
  <2>2. SessionInv(s)'
    BY <1>1, <1>2, <1>4, <1>6, <2>1
       DEF Panics, SessionInv, InPlace, OnOwnData, Owned, Delivered, Permitted, LastMessage,
           CalledIn
  <2>3. QED
    BY <1>4, <1>6, <2>1, <2>2, SessionStep DEF Panics, TypeOK, MtaType
<1>7. QED
  BY <1>5, <1>6 DEF EnvRcpt

LEMMA HeaderOrBodyStep ==
  ASSUME TypeOK, SessionsInv, NEW s \in Sessions, NEW c \in Callbacks, HeaderOrBody(s, c)
  PROVE  TypeOK' /\ SessionsInv'
<1>1. SessionInv(s) /\ call[s] = "none" /\ s \in index /\ c \in {"Header", "Body"}
      /\ mta[s].stage \in {"rcpt", "headers", "body"}
  BY DEF SessionsInv, HeaderOrBody, Calls, CalledIn, Found
<1>2. StageAfter[c] \in {"headers", "body"} /\ {} \in Rcpts \cup {{}}
      /\ c \notin {"EnvFrom", "EnvRcpt", "Eom"}
      /\ "Continue" \in Replies /\ "Continue" \notin Refusals
  BY <1>1 DEF StageAfter, Replies, Refusals
<1>3. Owned(s) /\ Extended(s) = LastMessage(s) /\ LastMessage(s) \in Message
      /\ messages[s] # <<>>
  BY <1>1, ExtendedFacts DEF InTransaction, Owned
<1>4. UNCHANGED <<call, index, pruneVars, endVars, queueVars>>
      /\ Replied(s, c, {}, "Continue")
  BY DEF HeaderOrBody, Returns
<1>5. /\ mta' \in MtaType /\ reply' \in [Sessions -> Replies]
      /\ \A t \in Sessions \ {s} : mta'[t] = mta[t]
      /\ mta'[s].stage \in {"headers", "body"} /\ ~mta'[s].delivered
      /\ mta'[s].n = mta[s].n /\ mta'[s].rcpts = mta[s].rcpts
  BY <1>2, <1>4, RepliedFacts DEF MtaType
<1>6. /\ messages' \in [Sessions -> Seq(Message)]
      /\ \A t \in Sessions \ {s} : messages'[t] = messages[t]
      /\ messages'[s] # <<>> /\ messages'[s][Len(messages'[s])] = LastMessage(s)
  BY <1>3, WithLastFacts DEF HeaderOrBody
<1>7. Owned(s)'
  BY <1>3, <1>5, <1>6 DEF Owned, LastMessage
<1>8. SessionInv(s)'
  BY <1>1, <1>4, <1>5, <1>7, CallbackNames
     DEF SessionInv, InPlace, OnOwnData, Delivered
<1>9. QED
  BY <1>4, <1>5, <1>6, <1>8, SessionStep DEF TypeOK

LEMMA EohStep ==
  ASSUME TypeOK, SessionsInv, NEW s \in Sessions, Eoh(s)
  PROVE  TypeOK' /\ SessionsInv'
<1>1. SessionInv(s) /\ call[s] = "none" /\ s \in index
      /\ mta[s].stage \in {"rcpt", "headers"}
  BY DEF SessionsInv, Eoh, Calls, CalledIn, Found
<1>2. "Eoh" \in Callbacks /\ StageAfter["Eoh"] = "body" /\ {} \in Rcpts \cup {{}}
      /\ "Eoh" \notin {"EnvFrom", "EnvRcpt", "Eom", "judging", "persisting", "deleting"}
      /\ "Continue" \in Replies /\ "Continue" \notin Refusals
  BY CallbackNames DEF StageAfter, Replies, Refusals
<1>3. Owned(s) /\ Extended(s) = LastMessage(s) /\ LastMessage(s) \in Message
      /\ messages[s] # <<>>
  BY <1>1, ExtendedFacts DEF InTransaction, Owned
<1>4. UNCHANGED <<index, pruneVars, endVars, queueVars>>
  BY DEF Eoh
<1>5. /\ messages' \in [Sessions -> Seq(Message)]
      /\ \A t \in Sessions \ {s} : messages'[t] = messages[t]
      /\ messages'[s] # <<>> /\ messages'[s][Len(messages'[s])] = LastMessage(s)
  BY <1>3, WithLastFacts DEF Eoh
<1>6. CASE Returns(s, "Eoh", {}, "Continue")
  <2>1. Replied(s, "Eoh", {}, "Continue") /\ call' = call
    BY <1>6 DEF Returns
  <2>2. /\ mta' \in MtaType /\ reply' \in [Sessions -> Replies]
        /\ \A t \in Sessions \ {s} : mta'[t] = mta[t]
        /\ mta'[s].stage = "body" /\ ~mta'[s].delivered
        /\ mta'[s].n = mta[s].n /\ mta'[s].rcpts = mta[s].rcpts
    BY <1>2, <2>1, RepliedFacts DEF MtaType
  <2>3. Owned(s)'
    BY <1>3, <1>5, <2>2 DEF Owned, LastMessage
  <2>4. SessionInv(s)'
    BY <1>1, <1>2, <2>1, <2>2, <2>3, CallbackNames
       DEF SessionInv, InPlace, OnOwnData, Delivered
  <2>5. QED
    BY <1>4, <1>5, <2>1, <2>2, <2>4, SessionStep DEF TypeOK
<1>7. CASE call' = [call EXCEPT ![s] = "Eoh"] /\ UNCHANGED <<mta, reply>>
  <2>1. /\ call' \in [Sessions -> Handling] /\ call'[s] = "Eoh"
        /\ \A t \in Sessions \ {s} : call'[t] = call[t]
    BY <1>2, <1>7 DEF TypeOK, Handling
  <2>2. Owned(s)'
    BY <1>3, <1>5, <1>7 DEF Owned, LastMessage
  <2>3. SessionInv(s)'
    BY <1>1, <1>2, <1>7, <2>1, <2>2
       DEF SessionInv, InPlace, OnOwnData, Delivered, InTransaction, CalledIn
  <2>4. QED
    BY <1>4, <1>5, <1>7, <2>1, <2>3, SessionStep DEF TypeOK, MtaType
<1>8. QED
  BY <1>6, <1>7 DEF Eoh
LEMMA EomStartStep ==
  ASSUME TypeOK, SessionsInv, NEW s \in Sessions, EomStart(s)
  PROVE  TypeOK' /\ SessionsInv'
<1>1. SessionInv(s) /\ call[s] = "none" /\ s \in index /\ mta[s].stage = "body"
  BY DEF SessionsInv, EomStart, Calls, CalledIn, Found
<1>2. Owned(s)
  BY <1>1, ExtendedFacts DEF InTransaction
<1>3. UNCHANGED <<mta, reply, messages, index, pruneVars, endVars, queueVars>>
  BY DEF EomStart
<1>4. /\ call' \in [Sessions -> Handling] /\ call'[s] = "judging"
      /\ \A t \in Sessions \ {s} : call'[t] = call[t]
  BY DEF EomStart, TypeOK, Handling
<1>5. SessionInv(s)'
  BY <1>1, <1>2, <1>3, <1>4, CallbackNames
     DEF SessionInv, InPlace, OnOwnData, Owned, LastMessage, Delivered, InTransaction
<1>6. QED
  BY <1>3, <1>4, <1>5, SessionStep DEF TypeOK, MtaType

LEMMA VerdictReplyFacts ==
  ASSUME NEW v \in FinalVerdicts
  PROVE  /\ VerdictReply(v) \in Replies
         /\ VerdictReply(v) \in {"Accept", "Continue"} <=> v = "Permit"
  BY DEF VerdictReply, FinalVerdicts, Verdicts, Replies, Refusals

LEMMA EomAnswerStep ==
  ASSUME TypeOK, SessionsInv, NEW s \in Sessions, EomAnswer(s)
  PROVE  TypeOK' /\ SessionsInv'
<1>1. SessionInv(s) /\ call[s] = "judging" /\ mta[s].stage = "body"
  BY DEF SessionsInv, EomAnswer, SessionInv, InPlace
<1>2. Owned(s) /\ messages[s] # <<>>
  BY <1>1 DEF SessionInv, OnOwnData, Owned
<1>3. LastMessage(s) \in Message
  BY <1>2, LastFacts
<1> DEFINE msg(v) == [LastMessage(s) EXCEPT !.verdict = v, !.judged = TRUE]
           rep(v) == IF Noop THEN "Continue"
                     ELSE VerdictReply(IF s \in Whitelisted THEN "Permit" ELSE v)
<1>4. PICK v \in FinalVerdicts : messages' = WithLast(s, msg(v))
                                 /\ Replied(s, "Eom", {}, rep(v))
  BY DEF EomAnswer
<1>5. msg(v) \in Message /\ msg(v).of = LastMessage(s).of
      /\ msg(v).judged = TRUE /\ msg(v).verdict = v
  BY <1>3 DEF Message
<1>6. /\ messages' \in [Sessions -> Seq(Message)]
      /\ \A t \in Sessions \ {s} : messages'[t] = messages[t]
      /\ messages'[s] # <<>> /\ messages'[s][Len(messages'[s])] = msg(v)
  <2> HIDE DEF msg
  <2>1. QED
    BY <1>2, <1>4, <1>5, WithLastFacts
<1>7. "Permit" \in FinalVerdicts
  BY DEF FinalVerdicts, Verdicts
<1>8. rep(v) \in Replies
      /\ (rep(v) \in {"Accept", "Continue"} => Noop \/ s \in Whitelisted \/ v = "Permit")
  BY <1>7, VerdictReplyFacts DEF Replies
<1>9. "Eom" \in Callbacks /\ StageAfter["Eom"] = "connected" /\ {} \in Rcpts \cup {{}}
      /\ "Eom" \notin {"EnvFrom", "EnvRcpt"}
  BY CallbackNames DEF StageAfter
<1>10. /\ mta' \in MtaType /\ reply' \in [Sessions -> Replies]
       /\ \A t \in Sessions \ {s} : mta'[t] = mta[t]
       /\ mta'[s].stage = "connected" /\ mta'[s].n = mta[s].n
       /\ mta'[s].delivered <=> rep(v) \in {"Accept", "Continue"}
  <2> HIDE DEF rep, msg
  <2>1. QED
    BY <1>4, <1>8, <1>9, RepliedFacts DEF MtaType
<1>11. /\ call' \in [Sessions -> Handling] /\ call'[s] = "none"
       /\ \A t \in Sessions \ {s} : call'[t] = call[t]
  BY DEF EomAnswer, TypeOK, Handling
<1>12. UNCHANGED <<index, pruneVars, endVars, queueVars>>
  BY DEF EomAnswer
<1>13. InPlace(s)' /\ OnOwnData(s)'
  BY <1>1, <1>10, <1>11, <1>12, CallbackNames DEF InPlace, OnOwnData, InTransaction
<1>14. mta'[s].delivered => Noop \/ s \in Whitelisted \/ Permitted(s)'
  <2>1. LastMessage(s)' = msg(v) /\ msg(v).of = {mta'[s].n}
    BY <1>2, <1>5, <1>6, <1>10 DEF LastMessage, Owned
  <2>2. SUFFICES ASSUME v = "Permit" PROVE Permitted(s)'
    BY <1>8, <1>10
  <2>3. QED
    BY <1>5, <1>6, <2>1, <2>2 DEF Permitted
<1>15. SessionInv(s)'
  BY <1>10, <1>13, <1>14 DEF SessionInv, Delivered, InTransaction
<1>16. QED
  BY <1>6, <1>10, <1>11, <1>12, <1>15, SessionStep DEF TypeOK

LEMMA HandleErrorStep ==
  ASSUME TypeOK, SessionsInv, NEW s \in Sessions, HandleError(s)
  PROVE  TypeOK' /\ SessionsInv'
<1> DEFINE rep == IF Noop \/ (s \in index /\ s \in Whitelisted)
                  THEN "Continue" ELSE "Tempfail"
           c == call[s]
<1>1. SessionInv(s) /\ c \in Callbacks /\ mta[s].stage \in CalledIn[c]
      /\ (c \notin {"EnvRcpt", "Eoh"} => s \notin index)
  BY DEF SessionsInv, HandleError, SessionInv, InPlace
<1>2. PICK r \in Rcpts : Replied(s, c, r, rep)
  BY DEF HandleError
<1>3. rep \in Replies /\ (rep \notin Refusals <=> rep = "Continue")
      /\ (rep = "Continue" => Noop \/ s \in Whitelisted)
      /\ rep # "Accept"
  BY DEF Replies, Refusals
<1>4. UNCHANGED <<messages, index, pruneVars, endVars, queueVars>>
  BY DEF HandleError
<1>5. /\ call' \in [Sessions -> Handling] /\ call'[s] = "none"
      /\ \A t \in Sessions \ {s} : call'[t] = call[t]
  BY DEF HandleError, TypeOK, Handling
<1>6. StageAfter[c] \in IF c \in {"Helo", "Eom"} THEN {"connected"} ELSE InTransaction
  BY <1>1, CallbackNames DEF StageAfter, InTransaction
<1>7. c = "EnvFrom" => mta[s].n < MaxTransactions
  BY <1>1 DEF SessionInv, InPlace
<1>8. /\ mta' \in MtaType /\ reply' \in [Sessions -> Replies]
      /\ \A t \in Sessions \ {s} : mta'[t] = mta[t]
      /\ mta'[s].stage = IF rep = "Continue" THEN StageAfter[c]
                         ELSE IF c = "EnvRcpt" THEN mta[s].stage ELSE "connected"
      /\ c # "EnvFrom" => mta'[s].n = mta[s].n
      /\ c \in {"EnvRcpt", "Eoh"} =>
           mta'[s].rcpts = mta[s].rcpts
             \/ (rep = "Continue" /\ mta[s].rcpts \subseteq mta'[s].rcpts)
      /\ mta'[s].delivered <=> c = "Eom" /\ rep = "Continue"
  <2> HIDE DEF rep, c
  <2>1. r \in Rcpts \cup {{}}
    OBVIOUS
  <2>2. /\ mta' \in MtaType /\ reply' \in [Sessions -> Replies]
        /\ \A t \in Sessions \ {s} : mta'[t] = mta[t]
        /\ mta'[s].stage = IF rep \notin Refusals THEN StageAfter[c]
                           ELSE IF c = "EnvRcpt" THEN mta[s].stage ELSE "connected"
        /\ mta'[s].n = IF c = "EnvFrom" THEN mta[s].n + 1 ELSE mta[s].n
        /\ mta'[s].rcpts = IF c = "EnvFrom" THEN {}
                           ELSE IF c = "EnvRcpt" /\ rep \notin Refusals
                           THEN mta[s].rcpts \cup {r} ELSE mta[s].rcpts
        /\ mta'[s].delivered <=> c = "Eom" /\ rep \in {"Accept", "Continue"}
    BY <1>1, <1>2, <1>3, <1>7, <2>1, RepliedFacts DEF MtaType
  <2>3. QED
    BY <1>3, <2>2
<1>9. mta'[s].stage # "new"
  <2>1. mta[s].stage # "new"
    BY <1>1, CallbackNames DEF CalledIn
  <2>2. QED
    BY <1>6, <1>8, <2>1 DEF InTransaction
<1>10. InPlace(s)'
  BY <1>5, <1>9, CallbackNames DEF InPlace
<1>11. OnOwnData(s)'
  <2>1. SUFFICES ASSUME s \in index PROVE Owned(s)' \/ mta'[s].stage \notin InTransaction
    BY <1>4, <1>5, CallbackNames DEF OnOwnData
  <2>2. c \in {"EnvRcpt", "Eoh"} /\ mta[s].stage \in InTransaction
    BY <1>1, <2>1 DEF CalledIn, InTransaction
  <2>3. Owned(s)
    BY <1>1, <2>1, <2>2 DEF SessionInv, OnOwnData
  <2>4. QED
    BY <1>3, <1>4, <1>8, <2>2, <2>3 DEF Owned, LastMessage
<1>12. Delivered(s)'
  BY <1>3, <1>6, <1>8 DEF Delivered, InTransaction
<1>13. SessionInv(s)'
  BY <1>10, <1>11, <1>12 DEF SessionInv
<1>14. QED
  BY <1>4, <1>5, <1>8, <1>13, SessionStep DEF TypeOK

LEMMA AbortStep ==
  ASSUME TypeOK, SessionsInv, NEW s \in Sessions, Abort(s)
  PROVE  TypeOK' /\ SessionsInv'
<1>1. SessionInv(s) /\ call[s] = "none"
  BY DEF SessionsInv, Abort
<1>2. UNCHANGED <<reply, call, messages, index, pruneVars, endVars, queueVars>>
  BY DEF Abort
<1>3. mta' \in MtaType /\ mta'[s].stage = "connected" /\ mta'[s].n = mta[s].n
      /\ mta'[s].delivered = mta[s].delivered
      /\ \A t \in Sessions \ {s} : mta'[t] = mta[t]
  BY DEF Abort, TypeOK, MtaType, Stages
<1>4. SessionInv(s)'
  BY <1>1, <1>2, <1>3, CallbackNames
     DEF SessionInv, InPlace, OnOwnData, Delivered, Permitted, LastMessage, InTransaction
<1>5. QED
  BY <1>2, <1>3, <1>4, SessionStep DEF TypeOK

LEMMA CloseStartStep ==
  ASSUME TypeOK, SessionsInv, NEW s \in Sessions, CloseStart(s)
  PROVE  TypeOK' /\ SessionsInv'
<1>1. SessionInv(s) /\ call[s] = "none" /\ mta[s].stage # "new"
  BY DEF SessionsInv, CloseStart
<1>2. UNCHANGED <<reply, messages, index, pruneVars, endVars, queueVars>>
  BY DEF CloseStart
<1>3. CASE s \in index
  <2>1. /\ call' \in [Sessions -> Handling] /\ call'[s] = "persisting" /\ mta' = mta
        /\ \A t \in Sessions \ {s} : call'[t] = call[t]
    BY <1>3 DEF CloseStart, TypeOK, Handling
  <2>2. SessionInv(s)'
    BY <1>1, <1>2, <2>1, CallbackNames
       DEF SessionInv, InPlace, OnOwnData, Owned, Delivered, Permitted, LastMessage
  <2>3. QED
    BY <1>2, <2>1, <2>2, SessionStep DEF TypeOK, MtaType
<1>4. CASE s \notin index
  <2>1. /\ mta' \in MtaType /\ mta'[s].stage = "closed" /\ mta'[s].n = mta[s].n
        /\ mta'[s].delivered = mta[s].delivered /\ call' = call
        /\ \A t \in Sessions \ {s} : mta'[t] = mta[t]
    <3>1. mta' = [mta EXCEPT ![s].stage = "closed"] /\ call' = call
      BY <1>4 DEF CloseStart
    <3>2. mta \in MtaType /\ "closed" \in Stages
      BY DEF TypeOK, MtaType, Stages
    <3>3. QED
      BY <3>1, <3>2 DEF MtaType
  <2>2. SessionInv(s)'
    BY <1>1, <1>2, <2>1, CallbackNames
       DEF SessionInv, InPlace, OnOwnData, Delivered, Permitted, LastMessage, InTransaction
  <2>3. QED
    BY <1>2, <2>1, <2>2, SessionStep DEF TypeOK
<1>5. QED
  BY <1>3, <1>4

LEMMA CloseDeleteStep ==
  ASSUME TypeOK, SessionsInv, NEW s \in Sessions, CloseDelete(s)
  PROVE  TypeOK' /\ SessionsInv'
<1>1. SessionInv(s)
  BY DEF SessionsInv
<1>2. UNCHANGED <<reply, messages, pruneVars, endVars, queueVars>>
      /\ index' = index \ {s}
  BY DEF CloseDelete
<1>3. /\ mta' \in MtaType /\ mta'[s].stage = "closed" /\ mta'[s].n = mta[s].n
      /\ mta'[s].delivered = mta[s].delivered
      /\ \A t \in Sessions \ {s} : mta'[t] = mta[t]
  BY DEF CloseDelete, TypeOK, MtaType, Stages
<1>4. /\ call' \in [Sessions -> Handling] /\ call'[s] = "none"
      /\ \A t \in Sessions \ {s} : call'[t] = call[t]
  BY DEF CloseDelete, TypeOK, Handling
<1>5. SessionInv(s)'
  BY <1>1, <1>2, <1>3, <1>4, CallbackNames
     DEF SessionInv, InPlace, OnOwnData, Delivered, Permitted, LastMessage, InTransaction
<1>6. QED
  BY <1>2, <1>3, <1>4, <1>5, SessionStep DEF TypeOK
(* The steps that touch the ring buffer.                                   *)

LEMMA ClosePersistStep ==
  ASSUME MInv, NEW s \in Sessions, ClosePersist(s)
  PROVE  MInv'
<1> USE DEF MInv
<1>1. SessionInv(s) /\ call[s] = "persisting" /\ mta[s].stage # "new"
  BY DEF SessionsInv, ClosePersist, SessionInv, InPlace
<1>2. UNCHANGED <<mta, reply, messages, index, pruneVars, queueVars>> /\ Enqueue(s)
  BY DEF ClosePersist
<1>3. /\ call' \in [Sessions -> Handling] /\ call'[s] = "deleting"
      /\ \A t \in Sessions \ {s} : call'[t] = call[t]
  BY DEF ClosePersist, TypeOK, Handling
<1>4. ring' \in Seq(Sessions) /\ overwritten' \in SUBSET Sessions /\ Kept' = Kept \cup {s}
  BY <1>2, EnqueueKeeps DEF queueVars
<1>5. TypeOK'
  BY <1>2, <1>3, <1>4 DEF TypeOK, pruneVars, queueVars
<1>6. SessionInv(s)'
  BY <1>1, <1>2, <1>3, CallbackNames
     DEF SessionInv, InPlace, OnOwnData, Owned, Delivered, Permitted, LastMessage
<1>7. ASSUME NEW t \in Sessions \ {s} PROVE SessionInv(t)'
  <2>1. SessionInv(t) /\ (mta[t].stage = "new" => t \notin index)
    BY DEF SessionsInv, SessionInv, InPlace
  <2>2. QED
    BY <1>2, <1>3, <2>1, Undisturbed
<1>8. Accounted'
  <2>1. pruning' = pruning /\ index' = index /\ mta' = mta
    BY <1>2 DEF pruneVars
  <2>2. \A t \in Sessions : call'[t] = "deleting" => t \in Kept'
    BY <1>3, <1>4 DEF Accounted
  <2>3. \A t \in Sessions : mta[t].stage # "new" => t \in index \cup Kept
    BY DEF Accounted, SessionsAccounted, Kept
  <2>4. SessionsAccounted'
    <3>1. \A t \in Sessions : mta'[t].stage # "new" => t \in index' \cup Kept'
      BY <1>4, <2>1, <2>3
    <3>2. QED
      BY <3>1 DEF SessionsAccounted, Kept
  <2>5. QED
    BY <2>1, <2>2, <2>4 DEF Accounted
<1>9. QED
  BY <1>5, <1>6, <1>7, <1>8 DEF SessionsInv

LEMMA PruneDeleteStep ==
  ASSUME MInv, NEW s \in Sessions, PruneDelete(s)
  PROVE  MInv'
<1> USE DEF MInv
<1>1. UNCHANGED <<mta, reply, call, messages, aged, queueVars>> /\ Enqueue(s)
      /\ index' = index \ {s} /\ pruning' = pruning \ {s}
  BY DEF PruneDelete, sessionVars
<1>2. ring' \in Seq(Sessions) /\ overwritten' \in SUBSET Sessions /\ Kept' = Kept \cup {s}
  BY <1>1, EnqueueKeeps DEF queueVars
<1>3. prunedInEom' \subseteq Sessions
  BY DEF PruneDelete, TypeOK
<1>4. TypeOK'
  BY <1>1, <1>2, <1>3 DEF TypeOK, queueVars
<1>5. ASSUME NEW t \in Sessions PROVE SessionInv(t)'
  <2>1. SessionInv(t) /\ (mta[t].stage = "new" => t \notin index)
    BY DEF SessionsInv, SessionInv, InPlace
  <2>2. QED
    BY <1>1, <2>1, Undisturbed
<1>6. Accounted'
  <2>1. pruning' \subseteq index'
    BY <1>1 DEF Accounted
  <2>2. \A t \in Sessions : call'[t] = "deleting" => t \in Kept'
    BY <1>1, <1>2 DEF Accounted
  <2>3. \A t \in Sessions : mta[t].stage # "new" => t \in index \cup Kept
    BY DEF Accounted, SessionsAccounted, Kept
  <2>4. SessionsAccounted'
    <3>1. \A t \in Sessions : mta'[t].stage # "new" => t \in index' \cup Kept'
      BY <1>1, <1>2, <2>3
    <3>2. QED
      BY <3>1 DEF SessionsAccounted, Kept
  <2>5. QED
    BY <2>1, <2>2, <2>4 DEF Accounted
<1>7. QED
  BY <1>4, <1>5, <1>6 DEF SessionsInv

(* The steps that leave the variables of the sessions alone.               *)
LEMMA BackgroundStep ==
  ASSUME MInv, UNCHANGED <<sessionVars, index>>, TypeOK',
         pruning' \subseteq index, Kept' = Kept
  PROVE  MInv'
<1> USE DEF MInv
<1>1. UNCHANGED <<mta, call, messages, index>>
  BY DEF sessionVars
<1>2. ASSUME NEW t \in Sessions PROVE SessionInv(t)'
  <2>1. SessionInv(t) /\ (mta[t].stage = "new" => t \notin index)
    BY DEF SessionsInv, SessionInv, InPlace
  <2>2. QED
    BY <1>1, <2>1, Undisturbed
<1>3. \A t \in Sessions : mta'[t].stage # "new" => t \in index' \cup Kept'
  BY <1>1 DEF Accounted, SessionsAccounted, Kept
<1>4. SessionsAccounted'
  BY <1>3 DEF SessionsAccounted, Kept
<1>5. Accounted'
  BY <1>1, <1>4 DEF Accounted
<1>6. QED
  BY <1>2, <1>5 DEF SessionsInv

LEMMA ProcessQueueStep ==
  ASSUME MInv, ProcessQueue
  PROVE  MInv'
<1>1. ring \in Seq(Sessions) /\ ring # <<>> /\ ring' = Tail(ring)
      /\ disconnecting' = disconnecting \cup {Head(ring)}
      /\ UNCHANGED <<sessionVars, index, pruneVars, overwritten, stored, lost, disconnected>>
  BY DEF MInv, TypeOK, ProcessQueue
<1>2. Head(ring) \in Sessions /\ ring' \in Seq(Sessions)
  BY <1>1
<1>3. TypeOK'
  BY <1>1, <1>2 DEF MInv, TypeOK, sessionVars, pruneVars
<1>4. Items(ring) = {Head(ring)} \cup Items(ring')
  BY <1>1, ItemsOfTail
<1>5. InRing = Items(ring) /\ InRing' = Items(ring')
  BY DEF InRing, Items
<1>6. Kept' = Kept
  BY <1>1, <1>4, <1>5 DEF Kept
<1>7. pruning' \subseteq index
  BY <1>1 DEF MInv, Accounted, pruneVars
<1>8. QED
  BY <1>1, <1>3, <1>6, <1>7, BackgroundStep

LEMMA SessionDisconnectStep ==
  ASSUME MInv, NEW s \in Sessions, SessionDisconnect(s)
  PROVE  MInv'
<1>0. PICK refused \in SUBSET DOMAIN messages[s] :
        /\ stored' = {d \in stored : d[1] # s \/ d[2] \in refused}
             \cup {<<s, i, messages[s][i].verdict>> : i \in DOMAIN messages[s] \ refused}
        /\ lost' = {d \in lost : d[1] # s} \cup {<<s, i>> : i \in refused}
  BY DEF SessionDisconnect
<1> DEFINE docs == {<<s, i, messages[s][i].verdict>> : i \in DOMAIN messages[s] \ refused}
<1>1. docs \subseteq Sessions \X Nat \X FinalVerdicts /\ refused \subseteq Nat
  <2>1. messages[s] \in Seq(Message)
    BY DEF MInv, TypeOK
  <2>2. \A i \in DOMAIN messages[s] : i \in Nat /\ messages[s][i].verdict \in FinalVerdicts
    <3>1. \A i \in DOMAIN messages[s] : i \in Nat /\ messages[s][i] \in Message
      BY <2>1
    <3>2. \A m \in Message : m.verdict \in FinalVerdicts
      BY DEF Message
    <3>3. QED
      BY <3>1, <3>2
  <2>3. QED
    BY <2>2
<1>2. stored' = {d \in stored : d[1] # s \/ d[2] \in refused} \cup docs
  BY <1>0
<1>3. /\ stored' \in SUBSET (Sessions \X Nat \X FinalVerdicts)
      /\ lost' \in SUBSET (Sessions \X Nat)
  <2>1. lost' \in SUBSET (Sessions \X Nat)
    BY <1>0, <1>1 DEF MInv, TypeOK
  <2> HIDE DEF docs
  <2>2. QED
    BY <1>1, <1>2, <2>1 DEF MInv, TypeOK
<1>4. s \in disconnecting /\ disconnecting' = disconnecting \ {s}
      /\ disconnected' = disconnected \cup {s}
      /\ UNCHANGED <<sessionVars, index, pruneVars, endVars>>
  BY DEF SessionDisconnect
<1>5. TypeOK'
  BY <1>3, <1>4 DEF MInv, TypeOK, sessionVars, pruneVars, endVars
<1>6. Kept' = Kept
  BY <1>4 DEF Kept, InRing, endVars
<1>7. pruning' \subseteq index
  BY <1>4 DEF MInv, Accounted, pruneVars
<1>8. QED
  BY <1>4, <1>5, <1>6, <1>7, BackgroundStep

LEMMA AgeOrPruneStartStep ==
  ASSUME MInv, (\E s \in Sessions : Age(s)) \/ PruneStart
  PROVE  MInv'
<1>1. UNCHANGED <<sessionVars, index, prunedInEom, endVars, queueVars>>
      /\ aged' \subseteq Sessions /\ pruning' \subseteq index
  BY DEF MInv, TypeOK, Accounted, Age, PruneStart
<1>2. TypeOK'
  BY <1>1 DEF MInv, TypeOK, sessionVars, endVars, queueVars
<1>3. Kept' = Kept
  BY <1>1 DEF Kept, InRing, endVars, queueVars
<1>4. QED
  BY <1>1, <1>2, <1>3, BackgroundStep
(* Of what the MTA and the handlers do, only the end of Close disturbs what *)
(* is accounted for; and then the session is in the ring buffer.           *)
LEMMA SessionAccounted ==
  ASSUME MInv, NEW s \in Sessions,
         UNCHANGED <<pruning, endVars, queueVars>>,
         \A t \in Sessions \ {s} : mta'[t] = mta[t] /\ call'[t] = call[t],
         call'[s] # "deleting",
         mta[s].stage # "new" \/ s \in index',
         \/ index \subseteq index'
         \/ index' = index \ {s} /\ Unlocked /\ s \in Kept
  PROVE  Accounted'
<1>1. Kept' = Kept /\ pruning' = pruning
  BY DEF Kept, InRing, endVars, queueVars
<1>2. pruning' \subseteq index'
  BY <1>1 DEF MInv, Accounted, Unlocked
<1>3. \A t \in Sessions : mta[t].stage # "new" => t \in index \cup Kept
  BY DEF MInv, Accounted, SessionsAccounted, Kept
<1>4. \A t \in Sessions : mta'[t].stage # "new" => t \in index' \cup Kept'
  BY <1>1, <1>3
<1>5. SessionsAccounted'
  BY <1>4 DEF SessionsAccounted, Kept
<1>6. \A t \in Sessions : call'[t] = "deleting" => t \in Kept'
  BY <1>1 DEF MInv, Accounted
<1>7. QED
  BY <1>2, <1>5, <1>6 DEF Accounted

LEMMA MTAStepKeeps ==
  ASSUME MInv, NEW s \in Sessions, MTAStep(s)
  PROVE  MInv'
<1>1. TypeOK' /\ SessionsInv'
  BY ConnectStep, HeloStep, EnvFromStep, EohStep, EomStartStep, AbortStep, CloseStartStep,
     EnvRcptStep, HeaderOrBodyStep, NotFoundStep
     DEF MInv, MTAStep
<1>2. UNCHANGED <<pruning, endVars, queueVars>>
  BY DEF MTAStep, Connect, Helo, EnvFrom, EnvRcpt, HeaderOrBody, Eoh, EomStart, Abort,
         CloseStart, NotFound, pruneVars
<1>3. index \subseteq index'
  BY DEF MTAStep, Connect, Helo, EnvFrom, EnvRcpt, HeaderOrBody, Eoh, EomStart, Abort,
         CloseStart, NotFound
<1>4. mta[s].stage # "new" \/ s \in index'
  <2>1. CASE Connect(s)
    BY <2>1 DEF Connect
  <2>2. CASE \E c \in Callbacks : Calls(s, c)
    BY <2>2, CallbackNames DEF Calls, CalledIn
  <2>3. CASE Abort(s) \/ CloseStart(s)
    BY <2>3 DEF Abort, CloseStart
  <2>4. QED
    BY <2>1, <2>2, <2>3, CallbackNames
       DEF MTAStep, Helo, EnvFrom, EnvRcpt, HeaderOrBody, Eoh, EomStart, NotFound
<1>5. call'[s] # "deleting"
  <2>1. call[s] \in Handling /\ call \in [Sessions -> Handling]
    BY DEF MInv, TypeOK
  <2>2. CASE Connect(s)
    BY <2>2 DEF Connect, MInv, SessionsInv, SessionInv, InPlace
  <2>3. CASE call[s] = "none"
    BY <2>1, <2>3, CallbackNames
       DEF MTAStep, Connect, Helo, EnvFrom, EnvRcpt, HeaderOrBody, Eoh, EomStart, Abort,
           CloseStart, NotFound, Returns, Panics
  <2>4. QED
    BY <2>2, <2>3
       DEF MTAStep, Helo, EnvFrom, EnvRcpt, HeaderOrBody, Eoh, EomStart, Abort,
           CloseStart, NotFound, Calls
<1>6. \A t \in Sessions \ {s} : mta'[t] = mta[t] /\ call'[t] = call[t]
  BY DEF MInv, TypeOK, MTAStep, Connect, Helo, EnvFrom, EnvRcpt, HeaderOrBody, Eoh,
         EomStart, Abort, CloseStart, NotFound, Returns, Panics, Replied
<1>7. Accounted'
  BY <1>2, <1>3, <1>4, <1>5, <1>6, SessionAccounted
<1>8. QED
  BY <1>1, <1>7 DEF MInv

LEMMA HandlerStepKeeps ==
  ASSUME MInv, NEW s \in Sessions, HandlerStep(s)
  PROVE  MInv'
<1>1. CASE ClosePersist(s)
  BY <1>1, ClosePersistStep
<1>2. CASE EomAnswer(s) \/ HandleError(s)
  <2>1. TypeOK' /\ SessionsInv'
    BY <1>2, EomAnswerStep, HandleErrorStep DEF MInv
  <2>2. UNCHANGED <<pruning, endVars, queueVars>> /\ index' = index
    BY <1>2 DEF EomAnswer, HandleError, pruneVars
  <2>3. /\ call'[s] # "deleting"
        /\ \A t \in Sessions \ {s} : mta'[t] = mta[t] /\ call'[t] = call[t]
    BY <1>2 DEF MInv, TypeOK, EomAnswer, HandleError, Replied
  <2>4. mta[s].stage # "new"
    BY <1>2, CallbackNames
       DEF MInv, SessionsInv, SessionInv, InPlace, EomAnswer, HandleError
  <2>5. Accounted'
    BY <2>2, <2>3, <2>4, SessionAccounted
  <2>6. QED
    BY <2>1, <2>5 DEF MInv
<1>3. CASE CloseDelete(s)
  <2>1. TypeOK' /\ SessionsInv'
    BY <1>3, CloseDeleteStep DEF MInv
  <2>2. UNCHANGED <<pruning, endVars, queueVars>> /\ index' = index \ {s} /\ Unlocked
        /\ s \in Kept
    BY <1>3 DEF CloseDelete, pruneVars, MInv, Accounted
  <2>3. /\ call'[s] # "deleting"
        /\ \A t \in Sessions \ {s} : mta'[t] = mta[t] /\ call'[t] = call[t]
    BY <1>3 DEF MInv, TypeOK, CloseDelete
  <2>4. mta[s].stage # "new"
    BY <1>3 DEF MInv, SessionsInv, SessionInv, InPlace, CloseDelete
  <2>5. Accounted'
    BY <2>2, <2>3, <2>4, SessionAccounted
  <2>6. QED
    BY <2>1, <2>5 DEF MInv
<1>4. QED
  BY <1>1, <1>2, <1>3 DEF HandlerStep

LEMMA InitMInv == Init => MInv
<1> SUFFICES ASSUME Init PROVE MInv
  OBVIOUS
<1>1. TypeOK
  <2>1. 0 \in 0 .. MaxTransactions /\ "new" \in Stages /\ "Continue" \in Replies
        /\ "none" \in Handling /\ <<>> \in Seq(Message) /\ <<>> \in Seq(Sessions)
    BY MilterAssumption DEF Stages, Replies, Handling
  <2>2. QED
    BY <2>1 DEF Init, TypeOK
<1>2. SessionsInv
  BY CallbackNames
     DEF Init, SessionsInv, SessionInv, InPlace, OnOwnData, Delivered, InTransaction
<1>3. Accounted
  BY DEF Init, Accounted, SessionsAccounted
<1>4. QED
  BY <1>1, <1>2, <1>3 DEF MInv

LEMMA MInvInductive == MInv /\ [Next]_vars => MInv'
<1> SUFFICES ASSUME MInv, [Next]_vars PROVE MInv'
  OBVIOUS
<1>1. CASE UNCHANGED vars
  <2>1. UNCHANGED <<sessionVars, index, pruning>> /\ Kept' = Kept /\ TypeOK'
    BY <1>1
       DEF MInv, TypeOK, vars, sessionVars, pruneVars, endVars, queueVars, Kept, InRing
  <2>2. QED
    BY <2>1, BackgroundStep DEF MInv, Accounted
<1>2. ASSUME NEW s \in Sessions, MTAStep(s) PROVE MInv'
  BY <1>2, MTAStepKeeps
<1>3. ASSUME NEW s \in Sessions, HandlerStep(s) PROVE MInv'
  BY <1>3, HandlerStepKeeps
<1>4. ASSUME NEW s \in Sessions, PruneDelete(s) PROVE MInv'
  BY <1>4, PruneDeleteStep
<1>5. ASSUME NEW s \in Sessions, SessionDisconnect(s) PROVE MInv'
  BY <1>5, SessionDisconnectStep
<1>6. CASE ProcessQueue
  BY <1>6, ProcessQueueStep
<1>7. QED
  BY <1>1, <1>2, <1>3, <1>4, <1>5, <1>6, AgeOrPruneStartStep DEF Next, Prune

-----------------------------------------------------------------------------
LEMMA Inductive == Spec => []MInv
  BY InitMInv, MInvInductive, PTL DEF Spec

(* Every variable keeps its type, and the MTA, which may call no handler   *)
(* before the last one returned, never drives a session out of it.         *)
THEOREM TypeCorrect == Spec => []TypeOK
<1>1. MInv => TypeOK
  BY DEF MInv
<1>2. QED
  BY <1>1, Inductive, PTL

(* However Close, prune and the two tickers interleave, no session is lost *)
(* but by a full ring buffer.                                              *)
THEOREM AccountedCorrect == Spec => []SessionsAccounted
<1>1. MInv => SessionsAccounted
  BY DEF MInv, Accounted
<1>2. QED
  BY <1>1, Inductive, PTL

(* messageGetVerdict is given the message of the MTA's transaction.        *)
THEOREM OwnDataCorrect == Spec => []JudgedOnOwnData
<1>1. MInv => JudgedOnOwnData
  BY DEF MInv, SessionsInv, SessionInv, OnOwnData, Owned, JudgedOnOwnData
<1>2. QED
  BY <1>1, Inductive, PTL

(* No panic, and no session that was pruned, lets a message through that   *)
(* messageGetVerdict did not permit.                                       *)
THEOREM PermitCorrect == Spec => []DeliveredOnPermit
<1>1. MInv => DeliveredOnPermit
  BY DEF MInv, SessionsInv, SessionInv, Delivered, Permitted, DeliveredOnPermit
<1>2. QED
  BY <1>1, Inductive, PTL

-----------------------------------------------------------------------------
\* A session that has yet to connect, or is still known, was not refused.
Allowed(s) ==
  s \in index \/ mta[s].stage = "new" => reply[s] \notin Refusals \cup {"Discard"}

(* What a reply makes of the MTA's session: it is not a new one.           *)
LEMMA RepliedAllowed ==
  ASSUME MInv, NEW t \in Sessions, NEW s \in Sessions, Allowed(t), index' = index,
         NEW c \in Callbacks, NEW r, NEW rep, Replied(s, c, r, rep),
         mta[s].stage # "new",
         s = t /\ s \in index => rep \notin Refusals \cup {"Discard"}
  PROVE  Allowed(t)'
<1>1. /\ mta \in [Sessions -> [stage : Stages, n : 0 .. MaxTransactions,
                               rcpts : SUBSET Rcpts, delivered : BOOLEAN]]
      /\ reply \in [Sessions -> Replies]
  BY DEF MInv, TypeOK
<1>2. StageAfter[c] # "new"
  BY CallbackNames DEF StageAfter
<1>3. CASE s # t
  BY <1>1, <1>3 DEF Replied, Allowed
<1>4. CASE s = t
  <2>1. mta'[t].stage # "new" /\ reply'[t] = rep
    BY <1>1, <1>2, <1>4 DEF Replied
  <2> QED
    BY <1>4, <2>1 DEF Allowed
<1> QED
  BY <1>3, <1>4

(* The steps of a session.                                                 *)
LEMMA SessionStepAllowed ==
  ASSUME MInv, RecipientVerdicts \subseteq {"Permit", "Discard"},
         NEW t \in Whitelisted, Allowed(t),
         NEW s \in Sessions, MTAStep(s) \/ HandlerStep(s)
  PROVE  Allowed(t)'
<1>0. /\ t \in Sessions
      /\ mta \in [Sessions -> [stage : Stages, n : 0 .. MaxTransactions,
                               rcpts : SUBSET Rcpts, delivered : BOOLEAN]]
      /\ InPlace(s)
  BY MilterAssumption DEF Whitelisted, MInv, TypeOK, SessionsInv, SessionInv
<1>1. \A c \in Callbacks : "new" \notin CalledIn[c]
  BY DEF Callbacks, CalledIn
<1>2. CASE Connect(s)
  BY <1>0, <1>2 DEF Connect, Allowed
<1>3. CASE Helo(s) \/ EnvFrom(s) \/ \E c \in Callbacks : HeaderOrBody(s, c)
  <2>1. PICK c \in Callbacks : Calls(s, c) /\ Replied(s, c, {}, "Continue") /\ index' = index
    BY <1>3, CallbackNames DEF Helo, EnvFrom, HeaderOrBody, Returns
  <2>2. "Continue" \notin Refusals \cup {"Discard"} /\ mta[s].stage # "new"
    BY <1>1, <2>1 DEF Refusals, Calls
  <2> QED
    BY <1>0, <2>1, <2>2, RepliedAllowed
<1>4. CASE Eoh(s) \/ EomStart(s) \/ \E c \in Callbacks : NotFound(s, c)
  <2>1. CASE UNCHANGED <<mta, reply, index>>
    BY <2>1 DEF Allowed
  <2>2. CASE Calls(s, "Eoh") /\ Replied(s, "Eoh", {}, "Continue") /\ index' = index
    <3>1. "Continue" \notin Refusals \cup {"Discard"} /\ mta[s].stage # "new"
      BY <1>1, <2>2, CallbackNames DEF Refusals, Calls
    <3> QED
      BY <1>0, <2>2, <3>1, CallbackNames, RepliedAllowed
  <2> QED
    BY <1>4, <2>1, <2>2 DEF Eoh, EomStart, NotFound, Panics, Returns
<1>5. ASSUME NEW r \in Rcpts, EnvRcpt(s, r) PROVE Allowed(t)'
  <2>1. index' = index /\ Calls(s, "EnvRcpt")
    BY <1>5 DEF EnvRcpt
  <2>2. CASE Panics(s, "EnvRcpt")
    BY <2>1, <2>2 DEF Panics, Allowed
  <2>3. ASSUME NEW v \in RecipientVerdicts, Returns(s, "EnvRcpt", r, RecipientReply(v))
        PROVE  Allowed(t)'
    <3>1. RecipientReply(v) = "Continue"
      BY DEF RecipientReply
    <3>2. "Continue" \notin Refusals \cup {"Discard"} /\ mta[s].stage # "new"
      BY <1>1, <2>1, CallbackNames DEF Refusals, Calls
    <3> QED
      BY <1>0, <2>1, <2>3, <3>1, <3>2, CallbackNames, RepliedAllowed DEF Returns
  <2> QED
    BY <1>5, <2>2, <2>3 DEF EnvRcpt
<1>6. CASE Abort(s) \/ CloseStart(s)
  BY <1>0, <1>6 DEF Abort, CloseStart, Allowed
<1>7. CASE EomAnswer(s)
  <2>1. PICK v \in FinalVerdicts :
          Replied(s, "Eom", {}, IF Noop THEN "Continue"
                                ELSE VerdictReply(IF s \in Whitelisted THEN "Permit" ELSE v))
    BY <1>7 DEF EomAnswer
  <2>2. VerdictReply("Permit") = "Accept"
    BY DEF VerdictReply
  <2>3. {"Continue", "Accept"} \cap (Refusals \cup {"Discard"}) = {}
    BY DEF Refusals
  <2>4. mta[s].stage # "new" /\ index' = index
    BY <1>0, <1>7 DEF EomAnswer, InPlace
  <2>5. s = t => (IF Noop THEN "Continue"
                  ELSE VerdictReply(IF s \in Whitelisted THEN "Permit" ELSE v))
                   \notin Refusals \cup {"Discard"}
    BY <2>2, <2>3
  <2> QED
    BY <1>0, <2>1, <2>4, <2>5, CallbackNames, RepliedAllowed
<1>8. CASE HandleError(s)
  <2>1. PICK r \in Rcpts :
          Replied(s, call[s], r,
            IF Noop \/ (s \in index /\ s \in Whitelisted) THEN "Continue" ELSE "Tempfail")
    BY <1>8 DEF HandleError
  <2>2. mta[s].stage # "new" /\ index' = index /\ call[s] \in Callbacks
    BY <1>0, <1>1, <1>8 DEF HandleError, InPlace
  <2>3. "Continue" \notin Refusals \cup {"Discard"}
    BY DEF Refusals
  <2> QED
    BY <1>0, <2>1, <2>2, <2>3, RepliedAllowed
<1>9. CASE ClosePersist(s) \/ CloseDelete(s)
  BY <1>0, <1>9 DEF ClosePersist, CloseDelete, Allowed
<1> QED
  BY <1>2, <1>3, <1>4, <1>5, <1>6, <1>7, <1>8, <1>9 DEF MTAStep, HandlerStep

LEMMA StepAllowed ==
  ASSUME MInv, RecipientVerdicts \subseteq {"Permit", "Discard"},
         NEW t \in Whitelisted, Allowed(t), [Next]_vars
  PROVE  Allowed(t)'
<1>1. ASSUME NEW s \in Sessions, Age(s) \/ SessionDisconnect(s) PROVE Allowed(t)'
  BY <1>1 DEF Age, SessionDisconnect, sessionVars, Allowed
<1>2. CASE Prune \/ ProcessQueue \/ UNCHANGED vars
  BY <1>2 DEF Prune, PruneStart, PruneDelete, ProcessQueue, vars, sessionVars, Allowed
<1> QED
  BY <1>1, <1>2, SessionStepAllowed DEF Next

\* Numbers with the same quotient are in one range.
LEMMA Quotients ==
  ASSUME NEW i \in Int, NEW j \in Int, NEW n \in Nat \ {0}, i \div n = j \div n
  PROVE  j - (j % n) <= i /\ i <= j - (j % n) + n - 1
<1>1. i = n * (i \div n) + (i % n) /\ 0 <= i % n /\ i % n < n /\ i % n \in Int
  OBVIOUS
<1>2. j = n * (j \div n) + (j % n) /\ j % n \in Int
  OBVIOUS
<1>3. n * (i \div n) \in Int
  OBVIOUS
<1> QED
  BY <1>1, <1>2, <1>3

\* A client is in the network of a directive only if it is in the range that
\* milterSessionStart makes of it.
LEMMA DirectedIsWhitelisted == Directed \subseteq Whitelisted
<1> SUFFICES ASSUME NEW s \in Sessions, NEW d \in Directives,
                    Ip[s] \div d.size = d.ip \div d.size
             PROVE  RangeStart(d) <= Ip[s] /\ Ip[s] <= RangeEnd(d)
  BY DEF Directed, Whitelisted, IsWhitelisted
<1>1. Ip[s] \in Int /\ d.ip \in Int /\ d.size \in Nat \ {0}
  BY MilterAssumption
<1> QED
  BY <1>1, Quotients DEF RangeEnd, RangeStart

(* A client on the whitelist is refused only when its session was pruned,  *)
(* or a module refuses a recipient: no panic and no verdict does it.       *)
THEOREM WhitelistedCorrect == Spec => []WhitelistedUnlessPruned
<1> DEFINE Inv == RecipientVerdicts \subseteq {"Permit", "Discard"} =>
                    \A t \in Whitelisted : Allowed(t)
<1>1. Init => Inv
  BY MilterAssumption DEF Init, Whitelisted, Allowed, Refusals
<1>2. MInv /\ Inv /\ [Next]_vars => Inv'
  BY StepAllowed
<1>3. Inv => WhitelistedUnlessPruned
  BY DirectedIsWhitelisted DEF Allowed, WhitelistedUnlessPruned
<1> HIDE DEF Inv
<1> QED
  BY <1>1, <1>2, <1>3, Inductive, PTL DEF Spec

-----------------------------------------------------------------------------
\* A session that was put in the ring buffer is at the end of Close, or no
\* handler finds it any more; the one that might have known it still, Eom, is
\* not under way, but for the sessions the property leaves out.
Settled(s) ==
  s \in Kept \ prunedInEom =>
    /\ mta[s].stage # "new"
    /\ call[s] # "judging"
    /\ s \in index => call[s] = "deleting"

\* What of it was stored is what its messages still are.
StoredWell(s) == s \in disconnected \ prunedInEom => StoredAsJudged(s)

SettledInv == \A s \in Sessions : Settled(s) /\ StoredWell(s)

\* What leaves the session alone.
LEMMA SettledUndisturbed ==
  ASSUME NEW t \in Sessions, Settled(t), StoredWell(t),
         t \in Kept' \ prunedInEom' => t \in Kept \ prunedInEom,
         t \in disconnected' \ prunedInEom' => t \in disconnected \ prunedInEom,
         {d \in stored : d[1] = t} \subseteq stored',
         {d \in lost : d[1] = t} \subseteq lost',
         messages'[t] = messages[t], mta'[t].stage = mta[t].stage,
         call'[t] = call[t], t \in index' => t \in index
  PROVE  Settled(t)' /\ StoredWell(t)'
<1>1. Settled(t)'
  BY DEF Settled
<1>2. ASSUME StoredAsJudged(t) PROVE StoredAsJudged(t)'
  <2>1. \A i, v : <<t, i, v>>[1] = t /\ <<t, i>>[1] = t
    OBVIOUS
  <2> QED
    BY <1>2, <2>1 DEF StoredAsJudged
<1> QED
  BY <1>1, <1>2 DEF StoredWell

\* The handlers of a session find it, and may change its messages, only
\* while it is not settled.
LEMMA HandlersOfSettled ==
  ASSUME MInv, NEW t \in Kept \ prunedInEom, t \in Sessions, Settled(t),
         MTAStep(t) \/ EomAnswer(t) \/ HandleError(t) \/ CloseDelete(t)
  PROVE  /\ messages' = messages
         /\ mta'[t].stage # "new" /\ call'[t] # "judging" /\ t \notin index'
<1>1. /\ mta[t].stage # "new" /\ call[t] # "judging"
      /\ t \in index => call[t] = "deleting"
  BY DEF Settled
<1>2. /\ mta \in MtaType
      /\ call \in [Sessions -> Handling]
  BY DEF MInv, TypeOK, MtaType
<1>3. ASSUME NEW c \in Callbacks, Calls(t, c) PROVE ~Found(t, c)
  BY <1>1, <1>3 DEF Calls, Found
<1>4. CASE \E c \in Callbacks : NotFound(t, c)
  <2>1. PICK c \in Callbacks : NotFound(t, c)
    BY <1>4
  <2>2. call'[t] = c /\ UNCHANGED <<mta, messages, index>> /\ call[t] = "none"
    BY <1>2, <2>1 DEF NotFound, Panics, Calls
  <2> QED
    BY <1>1, <2>2, CallbackNames
<1>5. CASE Abort(t)
  BY <1>1, <1>2, <1>5 DEF Abort, MtaType
<1>6. CASE CloseStart(t)
  BY <1>1, <1>2, <1>6 DEF CloseStart, MtaType
<1>7. CASE HandleError(t)
  <2>1. PICK r, rep : Replied(t, call[t], r, rep)
    BY <1>7 DEF HandleError
  <2>2. call[t] \in Callbacks /\ StageAfter[call[t]] # "new"
    BY <1>7, CallbackNames DEF HandleError, StageAfter
  <2>3. mta'[t].stage # "new"
    BY <1>1, <1>2, <2>1, <2>2 DEF Replied, MtaType
  <2>4. t \notin index
    BY <1>1, <2>2, CallbackNames
  <2> QED
    BY <1>2, <1>7, <2>3, <2>4 DEF HandleError
<1>8. CASE CloseDelete(t)
  BY <1>1, <1>2, <1>8 DEF CloseDelete, MtaType
<1>9. ~EomAnswer(t) /\ ~Connect(t)
  BY <1>1 DEF EomAnswer, Connect
<1> QED
  BY <1>3, <1>4, <1>5, <1>6, <1>7, <1>8, <1>9, CallbackNames
     DEF MTAStep, Helo, EnvFrom, EnvRcpt, HeaderOrBody, Eoh, EomStart

LEMMA SettledSessionStep ==
  ASSUME MInv, SettledInv, NEW s \in Sessions,
         MTAStep(s) \/ EomAnswer(s) \/ HandleError(s) \/ CloseDelete(s)
  PROVE  SettledInv'
<1>1. /\ UNCHANGED <<prunedInEom, ring, overwritten, disconnecting, disconnected, stored, lost>>
      /\ index' \subseteq index \cup {s}
  BY DEF MTAStep, Connect, Helo, EnvFrom, EnvRcpt, HeaderOrBody, Eoh, EomStart, Abort,
         CloseStart, NotFound, EomAnswer, HandleError, CloseDelete, pruneVars, endVars,
         queueVars
<1>2. Kept' = Kept
  BY <1>1 DEF Kept, InRing
<1>3. \A t \in Sessions \ {s} : /\ mta'[t] = mta[t] /\ call'[t] = call[t]
                               /\ messages'[t] = messages[t]
  <2>1. mta \in MtaType /\ call \in [Sessions -> Handling] /\ messages \in [Sessions -> Seq(Message)]
    BY DEF MInv, TypeOK, MtaType
  <2> DEFINE Same == \A t \in Sessions \ {s} :
               mta'[t] = mta[t] /\ call'[t] = call[t] /\ messages'[t] = messages[t]
  <2>2. CASE Connect(s) \/ Helo(s) \/ EnvFrom(s) \/ EomStart(s) \/ Abort(s) \/ CloseStart(s)
    BY <2>1, <2>2 DEF Connect, Helo, EnvFrom, EomStart, Abort, CloseStart, Returns, Replied, MtaType
  <2>3. ASSUME NEW r \in Rcpts, EnvRcpt(s, r) PROVE Same
    BY <2>1, <2>3 DEF EnvRcpt, Returns, Panics, Replied, WithLast, MtaType
  <2>4. CASE Eoh(s)
    BY <2>1, <2>4 DEF Eoh, Returns, Replied, WithLast, MtaType
  <2>5. ASSUME NEW c \in Callbacks, HeaderOrBody(s, c) \/ NotFound(s, c) PROVE Same
    BY <2>1, <2>5 DEF HeaderOrBody, NotFound, Returns, Panics, Replied, WithLast, MtaType
  <2>6. CASE EomAnswer(s) \/ HandleError(s) \/ CloseDelete(s)
    BY <2>1, <2>6 DEF EomAnswer, HandleError, CloseDelete, Replied, WithLast, MtaType
  <2> QED
    BY <2>2, <2>3, <2>4, <2>5, <2>6 DEF MTAStep
<1>4. ASSUME NEW t \in Sessions \ {s} PROVE Settled(t)' /\ StoredWell(t)'
  <2>1. Settled(t) /\ StoredWell(t)
    BY DEF SettledInv
  <2> QED
    BY <1>1, <1>2, <1>3, <2>1, SettledUndisturbed
<1>5. Settled(s)' /\ StoredWell(s)'
  <2>1. CASE s \in Kept \ prunedInEom
    <3>1. Settled(s) /\ StoredWell(s)
      BY DEF SettledInv
    <3>2. /\ messages' = messages
          /\ mta'[s].stage # "new" /\ call'[s] # "judging" /\ s \notin index'
      BY <2>1, <3>1, HandlersOfSettled
    <3> QED
      BY <1>1, <3>1, <3>2 DEF Settled, StoredWell, StoredAsJudged
  <2>2. CASE s \notin Kept \ prunedInEom
    <3>1. s \notin disconnected \ prunedInEom
      BY <2>2 DEF Kept
    <3> QED
      BY <1>1, <1>2, <2>2, <3>1 DEF Settled, StoredWell
  <2> QED
    BY <2>1, <2>2
<1> QED
  BY <1>4, <1>5 DEF SettledInv

LEMMA SettledClosePersist ==
  ASSUME MInv, SettledInv, NEW s \in Sessions, ClosePersist(s)
  PROVE  SettledInv'
<1>1. /\ UNCHANGED <<mta, messages, index, prunedInEom, disconnecting, disconnected, stored, lost>>
      /\ Enqueue(s) /\ call[s] = "persisting"
  BY DEF ClosePersist, pruneVars, queueVars
<1>2. /\ call'[s] = "deleting"
      /\ \A t \in Sessions \ {s} : call'[t] = call[t]
  BY DEF ClosePersist, MInv, TypeOK
<1>3. Kept' = Kept \cup {s}
  BY <1>1, EnqueueKeeps DEF MInv
<1>4. ASSUME NEW t \in Sessions \ {s} PROVE Settled(t)' /\ StoredWell(t)'
  <2>1. Settled(t) /\ StoredWell(t)
    BY DEF SettledInv
  <2> QED
    BY <1>1, <1>2, <1>3, <2>1, SettledUndisturbed
<1>5. Settled(s)'
  <2>1. mta[s].stage # "new"
    BY <1>1 DEF MInv, SessionsInv, SessionInv, InPlace
  <2> QED
    BY <1>1, <1>2, <2>1 DEF Settled
<1>6. StoredWell(s)'
  BY <1>1 DEF SettledInv, StoredWell, StoredAsJudged
<1> QED
  BY <1>4, <1>5, <1>6 DEF SettledInv

LEMMA SettledPruneDelete ==
  ASSUME MInv, SettledInv, NEW s \in Sessions, PruneDelete(s)
  PROVE  SettledInv'
<1>1. /\ UNCHANGED <<mta, call, messages, disconnecting, disconnected, stored, lost>>
      /\ Enqueue(s) /\ s \in index /\ index' = index \ {s}
      /\ prunedInEom \subseteq prunedInEom'
      /\ call[s] = "judging" => s \in prunedInEom'
  BY DEF PruneDelete, sessionVars, queueVars, MInv, Accounted
<1>2. Kept' = Kept \cup {s}
  BY <1>1, EnqueueKeeps DEF MInv
<1>3. ASSUME NEW t \in Sessions \ {s} PROVE Settled(t)' /\ StoredWell(t)'
  <2>1. Settled(t) /\ StoredWell(t)
    BY DEF SettledInv
  <2> QED
    BY <1>1, <1>2, <2>1, SettledUndisturbed
<1>4. Settled(s)'
  <2>1. mta[s].stage # "new"
    BY <1>1 DEF MInv, SessionsInv, SessionInv, InPlace
  <2> QED
    BY <1>1, <2>1 DEF Settled
<1>5. StoredWell(s)'
  BY <1>1 DEF SettledInv, StoredWell, StoredAsJudged
<1> QED
  BY <1>3, <1>4, <1>5 DEF SettledInv

LEMMA SettledSessionDisconnect ==
  ASSUME MInv, SettledInv, NEW s \in Sessions, SessionDisconnect(s)
  PROVE  SettledInv'
<1>0. PICK refused \in SUBSET DOMAIN messages[s] :
        /\ stored' = {d \in stored : d[1] # s \/ d[2] \in refused}
             \cup {<<s, i, messages[s][i].verdict>> : i \in DOMAIN messages[s] \ refused}
        /\ lost' = {d \in lost : d[1] # s} \cup {<<s, i>> : i \in refused}
  BY DEF SessionDisconnect
<1>1. /\ UNCHANGED <<mta, call, messages, index, prunedInEom, ring, overwritten>>
      /\ s \in disconnecting /\ disconnecting' = disconnecting \ {s}
      /\ disconnected' = disconnected \cup {s}
  BY DEF SessionDisconnect, sessionVars, pruneVars, endVars
<1>2. Kept' = Kept
  BY <1>1 DEF Kept, InRing
<1>3. ASSUME NEW t \in Sessions \ {s} PROVE Settled(t)' /\ StoredWell(t)'
  <2>1. Settled(t) /\ StoredWell(t)
    BY DEF SettledInv
  <2>2. /\ {d \in stored : d[1] = t} \subseteq stored'
        /\ {d \in lost : d[1] = t} \subseteq lost'
    BY <1>0
  <2> QED
    BY <1>1, <1>2, <2>1, <2>2, SettledUndisturbed
<1>4. Settled(s)'
  BY <1>1, <1>2 DEF SettledInv, Settled
<1>5. StoredAsJudged(s)'
  <2>1. \A i \in DOMAIN messages[s] : <<s, i>> \notin lost' => i \notin refused
    BY <1>0
  <2>2. \A i \in DOMAIN messages[s] \ refused : <<s, i, messages[s][i].verdict>> \in stored'
    BY <1>0
  <2> QED
    BY <1>1, <2>1, <2>2 DEF StoredAsJudged
<1> QED
  BY <1>3, <1>4, <1>5 DEF SettledInv, StoredWell

LEMMA SettledElse ==
  ASSUME MInv, SettledInv,
         \/ ProcessQueue \/ PruneStart \/ UNCHANGED vars
         \/ \E s \in Sessions : Age(s)
  PROVE  SettledInv'
<1>1. UNCHANGED <<mta, call, messages, index, prunedInEom, stored, lost, disconnected>>
  BY DEF ProcessQueue, PruneStart, Age, vars, sessionVars, pruneVars, endVars, queueVars
<1>2. Kept' = Kept
  <2>1. CASE ProcessQueue
    <3>1. ring \in Seq(Sessions) /\ ring # <<>> /\ ring' = Tail(ring)
          /\ disconnecting' = disconnecting \cup {Head(ring)}
          /\ UNCHANGED <<overwritten, disconnected>>
      BY <2>1 DEF MInv, TypeOK, ProcessQueue
    <3>2. Items(ring) = {Head(ring)} \cup Items(ring')
      BY <3>1, ItemsOfTail
    <3> QED
      BY <3>1, <3>2 DEF Kept, InRing, Items
  <2>2. CASE ~ProcessQueue
    BY <2>2 DEF PruneStart, Age, vars, endVars, queueVars, Kept, InRing
  <2> QED
    BY <2>1, <2>2
<1> QED
  BY <1>1, <1>2, SettledUndisturbed DEF SettledInv

(* The modules read the messages of a session in goroutines of their own,  *)
(* long after its handlers: what they store is what was judged, for every  *)
(* session but those prune took away from under Eom, and for every message *)
(* that Elasticsearch does not refuse.                                     *)
THEOREM StoredCorrect == Spec => []VerdictsStoredUnlessPruned
<1>1. Init => SettledInv
  BY DEF Init, SettledInv, Settled, StoredWell, Kept, InRing
<1>2. MInv /\ SettledInv /\ [Next]_vars => SettledInv'
  BY SettledSessionStep, SettledClosePersist, SettledPruneDelete,
     SettledSessionDisconnect, SettledElse DEF Next, Prune, HandlerStep
<1>3. MInv /\ SettledInv => VerdictsStoredUnlessPruned
  BY DEF MInv, TypeOK, SettledInv, StoredWell, VerdictsStoredUnlessPruned
<1> QED
  BY <1>1, <1>2, <1>3, Inductive, PTL DEF Spec

-----------------------------------------------------------------------------

LEMMA StepIsMilterStep == [DaemonNext]_allVars => [Next]_vars
  BY DEF DaemonNext, allVars, MilterStep

(* The sessions of a process that starts, stops and fails are sessions of  *)
(* Milter: whatever the process does, they take steps of it or none.       *)
THEOREM DaemonImplementsMilter == DaemonSpec => Spec
<1>1. DaemonInit => Init
  BY DEF DaemonInit
<1> QED
  BY <1>1, StepIsMilterStep, PTL DEF DaemonSpec, Spec

(* What is judged is what the MTA sent in this transaction, until the      *)
(* process ends.                                                           *)
THEOREM DaemonJudgesOwnData == DaemonSpec => []JudgedOnOwnData
  BY DaemonImplementsMilter, OwnDataCorrect, PTL

(* A message is delivered only on a verdict of its own that permits it,    *)
(* whatever ends the process in the meantime.                              *)
THEOREM DaemonDeliversOnPermit == DaemonSpec => []DeliveredOnPermit
  BY DaemonImplementsMilter, PermitCorrect, PTL
-----------------------------------------------------------------------------
\* The modules in a sequence that are enabled.
EnabledIn(q) == InModules(q) \cap Enabled

AllReady ==
  /\ EnabledIn(Registered) \subseteq ready
  /\ Lua \in EnabledIn(Registered) => InModules(Scripts) \subseteq InModules(modules)

AllModules == InModules(Registered) \cup InModules(Scripts)

ReadyType ==
  /\ stage \in Starting \cup {"Init", "waiting", "milterStop", "Stop", "ended"}
  /\ modules \in Seq(AllModules)
  /\ todo \in Seq(AllModules)

\* The loop of daemonStart: what it did not get to is still to do.
LoopInv ==
  /\ stage \in Starting => modules = Registered
  /\ stage = "Init" =>
       /\ EnabledIn(Registered) \subseteq ready \cup InModules(todo)
       /\ Lua \in EnabledIn(Registered) =>
            Lua \in InModules(todo) \/ InModules(Scripts) \subseteq InModules(modules)
  /\ stage \in {"waiting", "milterStop", "Stop"} => AllReady

Called == command \/ socket = "ours" \/ ipc # "off" \/ \E s \in Sessions : mta[s].stage # "new"

\* What can be called from outside exists only once all are ready.
ReadyInv == ReadyType /\ LoopInv /\ (Called => AllReady)

LEMMA ReadyInit == DaemonInit => ReadyInv
<1> SUFFICES ASSUME DaemonInit PROVE ReadyInv
  OBVIOUS
<1>1. ~Called
  BY DEF DaemonInit, Init, Called
<1>2. Registered \in Seq(AllModules)
  BY DaemonAssumption DEF AllModules
<1>3. ReadyType
  BY <1>2 DEF DaemonInit, ReadyType, Starting
<1>4. LoopInv
  BY DEF DaemonInit, LoopInv, Starting
<1> QED
  BY <1>1, <1>3, <1>4 DEF ReadyInv

\* Nothing is taken back.
LEMMA ReadyStays ==
  ASSUME AllReady, ready \subseteq ready', InModules(modules) \subseteq InModules(modules')
  PROVE  AllReady'
  BY DEF AllReady

LEMMA InModulesAppended ==
  ASSUME NEW S, NEW p \in Seq(S), NEW q \in Seq(S)
  PROVE  p \o q \in Seq(S) /\ InModules(p \o q) = InModules(p) \cup InModules(q)
<1>1. p \o q \in Seq(S)
  OBVIOUS
<1>2. \A i \in DOMAIN p : i \in DOMAIN (p \o q) /\ (p \o q)[i] = p[i]
  OBVIOUS
<1>3. \A i \in DOMAIN q : Len(p) + i \in DOMAIN (p \o q) /\ (p \o q)[Len(p) + i] = q[i]
  OBVIOUS
<1>4. ASSUME NEW i \in DOMAIN (p \o q), i \notin DOMAIN p
      PROVE  i - Len(p) \in DOMAIN q /\ (p \o q)[i] = q[i - Len(p)]
  BY <1>4
<1>5. InModules(p \o q) \subseteq InModules(p) \cup InModules(q)
  <2> SUFFICES ASSUME NEW i \in DOMAIN (p \o q)
               PROVE  (p \o q)[i] \in InModules(p) \cup InModules(q)
    BY DEF InModules
  <2> QED
    BY <1>2, <1>4 DEF InModules
<1>6. InModules(p) \cup InModules(q) \subseteq InModules(p \o q)
  BY <1>2, <1>3 DEF InModules
<1> QED
  BY <1>1, <1>5, <1>6

LEMMA InModulesSplit ==
  ASSUME NEW S, NEW q \in Seq(S), q # <<>>
  PROVE  Tail(q) \in Seq(S) /\ InModules(q) = {Head(q)} \cup InModules(Tail(q))
<1>1. 1 \in DOMAIN q /\ q[1] = Head(q) /\ Tail(q) \in Seq(S)
  OBVIOUS
<1>2. \A i \in DOMAIN Tail(q) : i + 1 \in DOMAIN q /\ Tail(q)[i] = q[i + 1]
  OBVIOUS
<1>3. ASSUME NEW i \in DOMAIN q, i # 1
      PROVE  i - 1 \in DOMAIN Tail(q) /\ Tail(q)[i - 1] = q[i]
  BY <1>3
<1>4. InModules(q) \subseteq {Head(q)} \cup InModules(Tail(q))
  BY <1>1, <1>3 DEF InModules
<1>5. {Head(q)} \cup InModules(Tail(q)) \subseteq InModules(q)
  BY <1>1, <1>2 DEF InModules
<1> QED
  BY <1>1, <1>4, <1>5

LEMMA EndsReady ==
  ASSUME ReadyInv, Ends, UNCHANGED vars
  PROVE  ReadyInv'
<1>1. Called' => Called
  <2>1. mta' = mta /\ ~command' /\ socket' = socket /\ ipc' = "off"
    BY DEF Ends, vars, sessionVars
  <2> QED
    BY <2>1 DEF Called
<1>2. AllReady => AllReady'
  BY ReadyStays DEF Ends
<1>3. ReadyType' /\ LoopInv'
  BY DEF ReadyInv, ReadyType, LoopInv, Ends, Starting
<1> QED
  BY <1>1, <1>2, <1>3 DEF ReadyInv

\* A step that touches neither the loop nor the modules, and lets nobody call
\* who could not before.
LEMMA OutsideReady ==
  ASSUME ReadyInv, UNCHANGED <<stage, modules, todo, ready>>, Called' => Called \/ AllReady
  PROVE  ReadyInv'
<1>1. AllReady => AllReady'
  BY ReadyStays
<1>2. ReadyType' /\ LoopInv'
  BY <1>1 DEF ReadyInv, ReadyType, LoopInv
<1> QED
  BY <1>1, <1>2 DEF ReadyInv

LEMMA StartReady ==
  ASSUME ReadyInv, Start, UNCHANGED vars
  PROVE  ReadyInv'
<1> SUFFICES ASSUME ~Ends PROVE ReadyInv'
  BY EndsReady
<1>1. /\ stage \in Starting /\ stage' \in Starting \cup {"Init"}
      /\ todo' = IF stage' = "Init" THEN modules ELSE todo
      /\ UNCHANGED <<modules, ready, ipc, socket, command, mta>>
  BY DEF Start, Goes, RdbmsStart, InstanceStart, RedisStart, MilterSessionStart, HttpStart,
         HttpStartFrontend, MessageStart, MessageStartModuleGroups, Starting, vars, sessionVars
<1>2. Called' => Called
  BY <1>1 DEF Called
<1>3. AllReady => AllReady'
  BY <1>1, ReadyStays
<1>4. modules = Registered
  BY <1>1 DEF ReadyInv, LoopInv
<1>5. ReadyType'
  BY <1>1 DEF ReadyInv, ReadyType
<1>6. EnabledIn(Registered) \subseteq InModules(Registered)
  BY DEF EnabledIn
<1>7. LoopInv'
  BY <1>1, <1>4, <1>6 DEF LoopInv, Starting
<1> QED
  BY <1>2, <1>3, <1>5, <1>7 DEF ReadyInv

LEMMA InitModuleReady ==
  ASSUME ReadyInv, InitModule, UNCHANGED vars
  PROVE  ReadyInv'
<1> DEFINE m == Head(todo)
<1> SUFFICES ASSUME ~Ends PROVE ReadyInv'
  BY EndsReady
<1>1. /\ stage = "Init" /\ todo # <<>> /\ todo' = Tail(todo)
      /\ UNCHANGED <<stage, ipc, socket, command, mta>>
  BY DEF InitModule, vars, sessionVars
<1>2. CASE m \notin Enabled
  <2>1. UNCHANGED <<ready, modules>>
    <3>1. ready' = ready /\ modules' = modules \o <<>>
      BY <1>2 DEF InitModule, ModuleRegister
    <3>2. modules \in Seq(AllModules)
      BY DEF ReadyInv, ReadyType
    <3> QED
      BY <3>1, <3>2
  <2>2. AllReady => AllReady'
    BY <2>1, ReadyStays
  <2>3. todo' \in Seq(AllModules) /\ InModules(todo) = {m} \cup InModules(todo')
    BY <1>1, InModulesSplit DEF ReadyInv, ReadyType
  <2>4. ReadyType'
    BY <1>1, <2>1, <2>3 DEF ReadyInv, ReadyType
  <2>5. LoopInv'
    <3>1. EnabledIn(Registered) \subseteq ready \cup InModules(todo')
      BY <1>1, <1>2, <2>3 DEF ReadyInv, LoopInv, EnabledIn
    <3>2. Lua \in EnabledIn(Registered) =>
            Lua \in InModules(todo') \/ InModules(Scripts) \subseteq InModules(modules)
      BY <1>1, <1>2, <2>3 DEF ReadyInv, LoopInv, EnabledIn
    <3> QED
      BY <1>1, <2>1, <3>1, <3>2 DEF LoopInv, Starting
  <2>6. Called' => Called
    BY <1>1 DEF Called
  <2> QED
    BY <2>2, <2>4, <2>5, <2>6 DEF ReadyInv
<1>3. CASE m \in Enabled
  <2>1. /\ ready' = ready \cup {m}
        /\ modules' = IF m = Lua THEN modules \o Scripts ELSE modules
    <3>1. /\ ready' = ready \cup {m}
          /\ modules' = modules \o (IF m = Lua THEN Scripts ELSE <<>>)
      BY <1>3 DEF InitModule, ModuleRegister
    <3>2. modules \in Seq(AllModules)
      BY DEF ReadyInv, ReadyType
    <3> QED
      BY <3>1, <3>2
  <2>2. Scripts \in Seq(AllModules)
    BY DaemonAssumption DEF AllModules
  <2>3. /\ modules' \in Seq(AllModules) /\ InModules(modules) \subseteq InModules(modules')
        /\ m = Lua => InModules(Scripts) \subseteq InModules(modules')
    BY <2>1, <2>2, InModulesAppended DEF ReadyInv, ReadyType
  <2>4. AllReady => AllReady'
    BY <2>1, <2>3, ReadyStays
  <2>5. todo' \in Seq(AllModules) /\ InModules(todo) = {m} \cup InModules(todo')
    BY <1>1, InModulesSplit DEF ReadyInv, ReadyType
  <2>6. ReadyType'
    BY <1>1, <2>3, <2>5 DEF ReadyInv, ReadyType
  <2>7. LoopInv'
    <3>1. EnabledIn(Registered) \subseteq ready' \cup InModules(todo')
      BY <1>1, <2>1, <2>5 DEF ReadyInv, LoopInv
    <3>2. Lua \in EnabledIn(Registered) =>
            Lua \in InModules(todo') \/ InModules(Scripts) \subseteq InModules(modules')
      BY <1>1, <2>3, <2>5 DEF ReadyInv, LoopInv
    <3> QED
      BY <1>1, <3>1, <3>2 DEF LoopInv, Starting
  <2>8. Called' => Called
    BY <1>1 DEF Called
  <2> QED
    BY <2>4, <2>6, <2>7, <2>8 DEF ReadyInv
<1> QED
  BY <1>2, <1>3

LEMMA MilterStartReady ==
  ASSUME ReadyInv, MilterStart, UNCHANGED vars
  PROVE  ReadyInv'
<1>1. stage = "Init" /\ todo = <<>> /\ stage' = "waiting" /\ UNCHANGED <<modules, todo, ready>>
  BY DEF MilterStart, Initialised
<1>2. InModules(todo) = {}
  BY <1>1 DEF InModules
<1>3. AllReady
  BY <1>1, <1>2 DEF ReadyInv, LoopInv, AllReady
<1>4. AllReady'
  BY <1>1, <1>3, ReadyStays
<1>5. ReadyType' /\ LoopInv'
  BY <1>1, <1>4 DEF ReadyInv, ReadyType, LoopInv, Starting
<1> QED
  BY <1>4, <1>5 DEF ReadyInv

\* After the modules are initialised, daemonStart only goes on to its end.
LEMMA StopsReady ==
  ASSUME ReadyInv, stage \in {"waiting", "milterStop"}, stage' \in {"milterStop", "Stop"},
         UNCHANGED <<modules, todo, ready>>
  PROVE  ReadyInv'
<1>1. AllReady'
  BY ReadyStays DEF ReadyInv, LoopInv
<1>2. ReadyType' /\ LoopInv'
  BY <1>1 DEF ReadyInv, ReadyType, LoopInv, Starting
<1> QED
  BY <1>1, <1>2 DEF ReadyInv

LEMMA IpcReady ==
  ASSUME ReadyInv, Ipc \/ DaemonIpcSend \/ AcceptFails, UNCHANGED vars
  PROVE  ReadyInv'
<1> SUFFICES ASSUME ~Ends PROVE ReadyInv'
  BY EndsReady
<1>1. UNCHANGED <<stage, modules, todo, ready>>
  BY DEF Ipc, IpcListen, Accept, Close, DaemonIpcSend, AcceptFails
<1>2. Called
  BY DEF Ipc, IpcListen, Accept, Close, DaemonIpcSend, AcceptFails, Called
<1> QED
  BY <1>1, <1>2, OutsideReady

LEMMA MilterStepReady ==
  ASSUME ReadyInv, MilterStep, UNCHANGED daemonVars
  PROVE  ReadyInv'
<1>1. Listening => AllReady
  BY DEF Listening, ReadyInv, LoopInv
<1>2. Called' => Called \/ Listening
  <2>1. command' = command /\ socket' = socket /\ ipc' = ipc
    BY DEF daemonVars
  <2> QED
    BY <2>1 DEF MilterStep, Called
<1> QED
  BY <1>1, <1>2, OutsideReady DEF daemonVars

LEMMA StepReady == ReadyInv /\ [DaemonNext]_allVars => ReadyInv'
<1> SUFFICES ASSUME ReadyInv, [DaemonNext]_allVars PROVE ReadyInv'
  OBVIOUS
<1>1. CASE Main /\ UNCHANGED vars
  <2>1. CASE MilterStop
    BY <2>1, StopsReady DEF MilterStop
  <2>2. CASE Stop
    BY <1>1, <2>2, EndsReady DEF Stop
  <2> QED
    BY <1>1, <2>1, <2>2, StartReady, InitModuleReady, MilterStartReady DEF Main
<1>2. CASE Signal
  BY <1>2, StopsReady DEF Signal
<1>3. CASE MilterFails /\ UNCHANGED vars
  BY <1>3, EndsReady DEF MilterFails
<1>4. CASE (Ipc \/ DaemonIpcSend \/ AcceptFails) /\ UNCHANGED vars
  BY <1>4, IpcReady
<1>5. CASE MilterStep /\ UNCHANGED daemonVars
  BY <1>5, MilterStepReady
<1>6. CASE UNCHANGED allVars
  <2>1. Called' => Called
    BY <1>6 DEF allVars, vars, sessionVars, daemonVars, Called
  <2> QED
    BY <1>6, <2>1, OutsideReady DEF allVars, daemonVars
<1> QED
  BY <1>1, <1>2, <1>3, <1>4, <1>5, <1>6 DEF DaemonNext

(* Mail and commands come only when the loop of daemonStart has initialised *)
(* every module that is enabled and Init of lua registered every script,    *)
(* however many there are and wherever lua is among them.                   *)
THEOREM ReadyCorrect == DaemonSpec => []ReadyWhenCalled
<1>1. ReadyInv => ReadyWhenCalled
  BY DEF ReadyInv, ReadyWhenCalled, Called, AllReady, EnabledIn
<1> QED
  BY <1>1, ReadyInit, StepReady, PTL DEF DaemonSpec
=============================================================================
