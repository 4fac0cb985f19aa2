# ClueGetter in TLA+

ClueGetter is a milter: Postfix asks it, for every message, whether to accept
it.  This directory holds TLA+ models of the parts of it that are concurrent or
that fail in interesting ways, the TLC configurations that check them on small
instances, and proofs, checked by TLAPS, of the most important results for every
instance.  Paths below are relative to `src/cluegetter/` of the repository.

## The system

| Component | State it keeps | Operations | Hard because |
|---|---|---|---|
| milter sessions (`core/milter.go`, `core/milterSession.go`) | `MilterDataIndex`, the messages of every session, a ring buffer of ended sessions | `Connect` `Helo` `EnvFrom` `EnvRcpt` `Header` `Eoh` `Body` `Eom` `Abort` `Close`; `prune` every minute; `milterSessionProcessQueue` every second | sessions, two tickers and the modules' goroutines share sessions without a lock; a session may be pruned inside a handler; handlers recover from panics |
| message pipeline (`core/message.go`) | the results of one message, its verdict | `messageGetVerdict`, `messageGetResults`, `messageWeighResults`, `messageSave` | one goroutine per module, an unbuffered channel, a breaker that abandons the rest, callbacks in goroutines of their own, two places that recover from panics |
| check modules (`clamav`, `spamassassin`, `rspamd`, `quotas`, `greylisting`, `dkim`, `srs`, `lua`, `core/contacts.go`, `demo`) | mostly none; greylisting, quotas and SRS keep theirs in Redis | `MessageCheck`, `RecipientCheck`, `SessionConfigure`, `SessionDisconnect`, `BayesLearn` | called concurrently, may return nil, an error, or panic |
| message cache (`core/messagePersist.go`) | four maps and a size counter | `Set`, `GetByMessageId`, `prune` every 30 seconds | prune unlocks between finding and deleting; Message-Ids are not unique; the counter is unsigned |
| quotas (`quotas/quotas.go`) | sorted sets of tallies and lists of definitions in Redis | check, tally (callback), import of definitions, regexes, pruning of duplicates | check-then-act across instances; keys that expire; errors of Redis are not looked at |
| redis and RPC (`core/redis.go`) | the list of running services, subscriptions, the Go channels of the modules | announce, list, publish, dispatch | announcements overlap in time; instances crash; channels are asked for while modules are still being initialised |
| mail queue (`core/mailQueue.go`) | a snapshot of the spool directory in Redis | a pipeline of goroutines and two channels | bounded channels, failing stages |
| bayes (`bayes/bayes.go`) | none | report by Message-Id, look-up, lessons | a chain over Redis and the message cache, goroutines that share a loop variable |
| bounce handler (`bounceHandler/`) | rows in the database | parse a delivery report, store it, report it, remove the message from the queue | stops half-way when something fails |
| greylisting, sender rewriting (`greylisting/`, `srs/`) | first attempts, whitelisted clients and rewritten addresses in Redis | `MessageCheck`, `RecipientCheck` | keys expire, attempts overlap, errors read as absence |
| session storage (`elasticsearch/`) | one document per message | `SessionDisconnect`, indexing of old sessions, searches | stores what other goroutines may still change; a pipeline nobody waits for the end of |
| daemon (`core/daemon.go`, `core/module.go`, `core/modulesRegistry.go`) | what is started, the registered modules, the IPC socket | start, `Init`, IPC commands, signals, `Stop` | what was started runs while the rest is yet to be; every step may end the process |
| configuration, web interface, ip information, reports, database, addresses | | parsing, rendering, I/O | sequential |

How they interact: the MTA calls the handlers of one session one after the
other.  `Eom` calls `messageGetVerdict`, which asks every enabled module at once,
weighs the results and decides; the callbacks of the results (quotas tallies in
one) and the hand-over to the message cache run in goroutines after that.  When a
session ends, by `Close` or by `prune`, it goes through the ring buffer to
`SessionDisconnect` of every module, where elasticsearch stores it.  A bounce that
calls a message spam finds it in the message cache by its Message-Id and reaches the
modules' `BayesLearn` on all hosts through Redis.  A bounce of a forwarded message is
both greylisted and sent on by what sender rewriting remembers.  The daemon starts
all of this, one part after the other, and ends it.

What makes each of them correct:

* pipeline: no send on a closed channel, no goroutine left behind, no Permit over
  the head of a failed check, the breaker not changing the outcome, one verdict
  for the MTA, the record and the callbacks;
* sessions: no session lost, no data of one transaction in another, no delivery
  without a Permit for this very message, every call answered, the verdicts stored
  unless pruning or Elasticsearch prevents it;
* cache: an index that never leads to the wrong message, an exact size, old
  messages going away;
* quotas: an overshoot that is bounded, nobody said to exceed who is below the quota;
  definitions that are missing only while they are replaced, and follow the
  database;
* headers: what the client sent stays unless a rule says otherwise, and the message
  leaves under the Message-Id it is cached under;
* mail queue: a snapshot that is never a part of what was found, no goroutine left
  waiting;
* redis: who runs and could announce itself is listed, who does not is forgotten;
* sender rewriting and greylisting: a domain that is ours, bounces that find their way
  back, nobody who gets in without waiting and nobody who waits for ever;
* feedback: what is learnt is what was reported, what was refused leaves the queue
  unless that fails, every lesson calls as many modules as there are, the last of them
  for certain;
* indexing: the program ends, and every message it read has its document, also after
  it was indexed again;
* daemon: no mail and no command before the modules are ready, a start and a stop
  that come to an end, calls that are answered.

## Modules

| Module | Models |
|---|---|
| `CheckResults` | verdicts and results, shared by the modules below; scores are in hundredths |
| `ModuleChecks` | for every module the set of results its `MessageCheck` may return |
| `Judgement` | what `messageGetVerdict` promises: the abstract specification of `Verdict` |
| `Verdict`, `MCVerdict`, `VerdictProofs` | one call of `messageGetVerdict` with all the goroutines it starts; an instance over the results of `ModuleChecks` |
| `Milter`, `MCMilter` | the MTA's side, the handlers, the index, prune, the ring buffer, the whitelist, storage |
| `Daemon`, `MCDaemon`, `DaemonProofs` | the life of the process; extends `Milter`, the sessions of which are its own; the proofs about both |
| `MessageCache` | the cache of judged messages |
| `Headers`, `MCHeaders`, `HeadersProofs` | the headers of a message, from `Header` to what `Eom` asks of the MTA |
| `Quotas`, `MCQuotas`, `QuotasProofs` | one quota: check and tally by concurrent messages; the proofs about it and `QuotaDefinitions` |
| `QuotaDefinitions`, `MCQuotaDefinitions` | the list of quota definitions of one selector value in Redis |
| `MailQueue`, `MailQueueProofs` | the pipeline from Postfix's spool directory to Redis; the proofs about it and `Services` |
| `Services`, `MCServices` | the list of running instances |
| `Rpc` | calls between processes over Redis |
| `Feedback`, `MCFeedback`, `FeedbackProofs` | from a bounce to a lesson; extends `MessageCache` and `Rpc`; the proofs about it and the cache |
| `Srs` | sender rewriting and the bounces that come back |
| `Greylisting` | the first attempts and the whitelist of one client |
| `Bounces`, `MCBounces`, `BouncesProofs` | bounces between `Srs`, which it extends, and `Greylisting`, which it instantiates; the proofs about the three |
| `Indexing`, `MCIndexing`, `IndexingProofs` | the indexing of old sessions |

What is composed: the process of `Daemon` with the sessions of `Milter`; the bounce
handler and bayes with the cache they look into and the calls between processes
(`Feedback`); the two modules that keep state about a bounce (`Bounces`).  `Verdict`
is not composed with `Milter` action by action: it is one step, with its outcome
open, between `EomStart` and `EomAnswer`.  That such a step is enough - one verdict,
for the MTA, the record and the callbacks - is what `Judgement` says and
`AnsweredAsPromised` shows.  What `Save` hands over in `Verdict` is what `Set` stores
in `MessageCache`.

**Verdict.**  `check[m]` is where the goroutine of module `m` in
`messageGetResults` is; `CheckReturns`, `CheckPanics`, `Finish` and `CloseResults`
are its steps and those of the goroutine that closes the channel.  The channel is
unbuffered, so a send and its receive are one step: `Collect` in the loop of
`messageGetVerdict`, `Drain` in the drainer.  `StopCollecting` is the end of the
loop with `close(done)`.  `Decide` covers the code from `messageWeighResults` to
the assignment of `CheckResults`: it takes the milter goroutine alone and touches
nothing another goroutine changes, except that the callbacks it starts may run
before it is over, which `pending` allows.  `DecidePanics` is the same code when it
takes `results[0]` of an empty list.  `Save` is `messageSave` and the return.
The weights of a group are tenths; the division in `Weighted` is exact for the
scores and weights of the configurations.  That weights are positive is assumed, the
code takes any number.  `ExitOnPanic` is the configuration's: with
it a check or a decision that panics ends the process.

**Judgement.**  Modules are heard, one after the other and not necessarily all;
`Decide` takes any verdict, Permit only if no module (or, in a group, not every
member) failed; `Answer` and `Tell` pass it on.  `Defer` is the one case in which the
record is not what the MTA is told: deciding panicked, and the record has Go's zero
value.  `Promise` in `Verdict` is the refinement mapping: `heard` is `collected`, what
the drainer takes is nothing.

**Milter.**  The MTA is external: `mta` and `Replied` say when it may call what and
what it makes of a reply.  A handler that cannot be interrupted meaningfully is one
action, with all it changes.  `Eom` is two, `EomStart` and `EomAnswer`, because
anything may happen while the checks run.  `Close` is three: it finds the session,
puts it into the ring buffer, and only then takes the lock to delete it.  `prune`
holds the lock over several steps (`Unlocked`).  A panic leaves `call[s]` at the
handler's name for `HandleError`, the deferred function.  A message is reduced to
the transactions its data stems from, its recipients and its verdict.  Addresses
are numbers: a directive of the whitelist is a range that starts at the network's
address and is as long as its mask says, and `IsWhitelisted` compares
its ends as `milterSessionStart` computed them.  `SessionDisconnect` stores the
documents of a session one by one; those that Elasticsearch refuses (`refused`, up to
`MaxLost` at a time) are logged and `lost`.

**Daemon.**  `stage` is the next call of `daemonStart`; `Goes` is a call that either
returns or ends the process (`Log.Fatalf`, a panic).  `todo` is the slice of modules that
the loop ranges over, evaluated once, so that what `Init` of lua registers is listed
but not initialised by it.  `ipc` is where `daemonIpc` is: `AcceptFails` waits for
`done` before it says why.  A session begins only while libmilter listens; every
other step of `Milter` goes on while the process lives, which is all that the
composition adds to it.  The process may end at any step of the start, when libmilter
fails and by a signal; that the modules' code may end it is in `Verdict` and
`Feedback`.

**MessageCache.**  Go's zero values for missing keys are made explicit; the content
of a message is its size.  `prune` is `PruneStart` (reads the size without a lock),
`PruneScan` (read lock), `PruneLock`, one `PruneDelete` per message, `PruneUnlock`.
The value `1 .. MaxEntrySize + 1` for the size of what is stored has one size
that is too big; an empty message does not exist (it is a marshalled structure).

**Headers.**  `headers` and `addHeaders` are the fields of `Message`, `mta` is the
message as the MTA has it, in which a header is named by its key and its number
among those of that key (`Position`).  The value of a header is where it comes
from; `n` tells those of the client apart.  `Expanded`, `WithMessageId`, `Deletes`
and `DropEmpty` are the four parts of `messageGetMutableHeaders`, in this order;
`Expand` and `Drop` are rounds of their loops, the second of which removes from the
list it goes through.  What is to be deleted is a set of pairs, a rule and a header
it asks for; that Eom takes the first one first makes it the list of the code.
`DeleteHeader` is a round of the loop of `Eom`, whose renumbering changes nothing,
because `GetHeader` returns copies.  `AddHeader` is DKIM's, at any time when the
breaker abandoned the check (`signed`).  Of the substituted variables only
`%{recipient}` matters, as it decides how many headers there are.

**Quotas.**  `Poll` reads the clock, `Count`, `Remove` and `Recount` are the three
Redis commands, `Weigh` is the rest of the pipeline as this quota sees it, `AddMsg`
one callback.  `Weigh` takes any verdict, for what the check suggests is weighed with
what the other modules do; and the result may have come too late for the breaker, or
the decision panicked, and then it is `"dropped"` with its callbacks.  So there are
permitted messages that the quota does not bound, and `PermittedWithin` names those
that it does: permitted, with this check heard and within the quota.  `ZAdd` and
`Expire` of one callback are one step.  `now` is read again by every callback, as in
the code.  Two assumptions: the clocks of the hosts agree (the model has one), and no
process ends with callbacks left to run.  Messages are symmetric.

**QuotaDefinitions.**  The list is a bag, as its order is never used.  Whoever
inserts - an importing host or a check - does `Insert` (what the pipeline is given),
`Del` and `LPush`, with other clients' commands in between, because the pipeline is
not a transaction.  `CutOff` ends it early, by a crash, a broken connection or a push
that Redis refuses.  `Schedule` is `SetNX` of the key that picks the importing host,
`Query` reads the database, `Crash` and `ScheduleExpires` are what can go wrong with
it.  A check reads (`Read`), inserts what its regexes say if nothing is there,
`ReadAgain` being the second poll, and drops duplicates.  `KeyExpires` takes the
whole list.

**MailQueue.**  One record per update, as two may overlap.  `Walk` is one file, from the
walker that finds it to the goroutine that takes it into a batch: in the code there is a
channel between the two, in which files wait, but who counts them (`wg`, which begins
with one for the list itself) does so behind it.  `Postcat`, which fails as a whole when
a file has gone and may fail by itself, and `Send` are the goroutine of a batch,
`ParserReturns` its `Done`; `CloseFiles` and `CloseEnvelopes` are the goroutines that
wait to close a channel; `Watch`, `Collect` and `Exec` are the transaction.  The channel
of envelopes has a capacity, and who sends to it when it is full waits.

**Services.**  `UpdateRunningList` writes the keys of three minutes one after
another, so that an instance may end in between (`Stop`); every host has its clock
(within `Skew`) and is late by up to `Late`; a key lives for `Ttl`.  Nobody looks at
errors: up to `MaxErrors` times the commands of one key, or of all, fail, or only its
`Expire`, which leaves a key that `Persists`.  Who announced itself last with an error
is `incomplete`, and is not promised to be listed.

**Rpc.**  A process has subscribed or not (`subscribed`), has asked bayes for its two
channels or not (`listeners`), and has initialised bayes up to one of them or the
goroutine that receives (`phase`): the three go on independently of each other, as the
goroutine `redisRpc` is started before the modules are initialised.  A channel that
was asked for too early is nil, for ever.  `RedisPublish` may fail, `LoseConnection`
loses what was not received, and nobody who is not subscribed gets anything.

**Feedback.**  The bounce handler's goroutine is `Parse`, one `SaveRow` for every row,
`Report`, `DeleteQueueItem`; a panic stops it where it is.  `MailQueueDeleteItems`
does nothing if the mail queue is disabled or the queue id is one it ignores
(`MayDelete`), the second look-up of that id may find none, and postsuper may fail:
then the message is `kept`.  `LookUp` is the search in
the cache, which is that of `MessageCache` on the process that gets the bounce, and a
given set on the others.  `Learn`, `StartLearner` and `BayesLearn` are the loop over
the modules and its goroutines, all of which read the loop's variable: `Learner` is
the module the loop is at, not the one the goroutine was started for, and `taught`
has the goroutine and the module that it called.
`GetAsMessage` has no session, which SpamAssassin's `BayesLearn` does not survive.

**Srs.**  One message and the bounces to the address it was given.  `Check` is
`MessageCheck` of the message, `Persist` the goroutine it starts, `RecipientCheck`
and `SwapRecipients` the two lookups of a bounce.  `RemoveAll` and `MoveDown` keep
what the loop of `getRewriteDomain` does to the array it ranges over, panic
included (`Panic`); a check that panics is a failed one, and the message is
deferred.  What the address looks like is abstracted to its domain; that two
messages get different ones, because it has the queue id in it, is assumed.

**Greylisting.**  A check is a chain of steps: SPF, `EXISTS` of the whitelist, `GET` and
`SET` of the first attempt, `SET` of the whitelist.  Two mails with one key may
be between `GET` and `SET` together.  An error of Redis is taken for an
absent key, as in the code.  `Forget` is what expires.  `earliest`, `spfPassed` and
`lapses` are history, read by the properties only.

**Bounces.**  `Try` is RCPT TO, `ChecksOf` the steps of the two checks, which run at
once, `GetVerdict` the answer: deferred, if greylisting asks for it and the other
scores do not prevent it, or not.  An MTA tries again in a later unit of time.

**Indexing.**  Three goroutines and the persisters, with the channels between them as
sequences of bounded length.  `FetchSessions` is one page: `Wanted` are the rows
that were asked for, and only they are counted, so that a page without any ends the
reading.  Rows that cannot be scanned are skipped, be they of sessions (`Broken`), of
messages (`BrokenMessages`) or of what belongs to a message (`BrokenParts`).  The
number of a message within its session, which is part of the id of its document, is the
order in which the database returned those that can (`Orders`).  A document has the
parts that were hydrated when it was stored.

## Runs

| Run | Shows | Bounds |
|---|---|---|
| `verdict` | the channel, the breaker, the drainer, the callbacks and the answer, and that they implement `Judgement`; forgiven errors; deciding that panics; goroutines end | the group of `cluegetter.conf.dist` (spamassassin, rspamd), quotas, which calls back, and one more, which returns anything a script, clamav, greylisting, DKIM, the contacts, SRS or the demo may; that one and rspamd may panic, and so may the callback; the reject score above the tempfail score; one score is above the breaker's alone |
| `feedback` | the cache's maps and counter agree, a message stays findable, old ones go; what is learnt, stored, removed and taught | 2 queue ids and 2 Message-Ids, judged in three combinations (one Message-Id is shared, one message is stored anew with another), sizes 1 and 2 (3 is refused), capacity 2, 2 clock values; 2 processes, one of which starts, with bayes or without, SpamAssassin on one; 1 bounce for one recipient; the mail queue enabled, a valid queue id, removals that may fail |
| `milter_sessions` | no session lost; verdicts stored but for pruning and refusals, a whitelisted client allowed but for pruning | 2 sessions, 1 transaction each, 1 document refused, ring buffer of 1 (it overflows), a network of four addresses and one more as whitelist, one client in the network's last address and one in the next; panics in `Eoh` |
| `daemon` | own data, delivery on Permit, modules ready, calls answered, sessions ended, start and stop | 1 session, 2 transactions, refused recipients, panics in `EnvRcpt` and `Eoh`, ring buffer of 2, no document refused (none of its properties asks what is stored); 3 registered modules, one of them not enabled, and a script that lua registers |
| `headers` | what the client sent stays, rules add what they promise, one Message-Id | 3 keys, up to 2 rules of every kind, 0 to 2 recipients, 3 headers of the client, made-up Message-Ids added or not |
| `headers_unique` | **violation**: a header that is to be removed stays | as `headers` |
| `quotas` | bounded overshoot, no false alarm | 3 messages (symmetric), 2 in flight, any verdict, results heard or dropped, 1 unit each, a quota of 1 in 2 seconds, 5 clock values, keys that live for 3 |
| `quota_definitions` | gaps only while somebody inserts, few duplicates, imports take effect | 2 hosts, a check with a regex and one of another instance, a definition that the database may have twice, 1 change of the database, 1 crash or pipeline that is cut off |
| `mail_queue` | no send on a closed channel, nothing partial is written, no update hangs while Redis works | 3 files of which 1 cannot be parsed and 1 may be delivered meanwhile, batches of 2, a channel of 1, 2 updates that overlap, a Redis and a postcat that may fail |
| `services` | who runs is listed, who stopped is forgotten | 2 hosts (symmetric), a minute of 3 ticks, announcements every tick and up to 1 late, clocks that differ by 1, keys that live for 6, 1 error, 10 ticks |
| `bounces` | the domain that is chosen; the fate of bounces; nobody gets in without waiting or waits for ever | 4 addresses in 3 domains, up to 3 `X-Original-To` headers and 2 recipients; 2 bounces that are alike to greylisting (symmetric), a wait of 1, first attempts that live for 3, a whitelist for 4 and entries for 5 of 5 ticks, 1 failure of Redis |
| `indexing` | the program ends; what it read is indexed, and stays so | 6 rows in pages of 2, one broken, sessions with 0, 1 and 3 messages, two of which cannot be scanned, one message without its recipients, three ranges, one of which misses the first page; channels of 1, batches of 1, 2 persisters, 1 failure; one session indexed before |

Why the bounds are enough.  Four checks give every order of finishing around the one
that reaches the breaker: before, it, after, and a group of two with a stranger on
either side.  Two queue ids on one Message-Id are what the index can confuse, and one of
them stored anew under another Message-Id is what leaves an entry behind; a message
stored anew between the two halves of prune needs one id.  A second process is enough
for calls to those not meant, and one that starts while the other runs meets every order
of subscribing, asking and initialising; one bounce goes through all of the chain.  Two
sessions are what the ring buffer of one and the lock of prune can interleave; two
transactions are what one can leave to the next.  Two rules on one key, or one that
moves the other, are what the lists of headers can confuse; three headers of the client
are two of one key and one between them.  Two messages in flight are what check-then-act
needs, and the third comes after both.  Two importing hosts and two checks give every
pair of pipelines that overlap.  Three files are a full batch and a last one, with a
channel too small for either.  Ten ticks are more than three minutes, and an
announcement covers three minutes.  Three headers are the fewest with which the loop of
`getRewriteDomain` skips, moves and overruns; two bounces that are alike are what `GET`
and `SET` of a first attempt need to overlap; five ticks are a wait, a first attempt
that is forgotten and another wait.  Three pages are one to skip, one to read and one
that must not be lost; two messages that can be scanned are an order, two persisters a
race for a document.  Three modules are one before lua, lua, and one behind it that is
registered and not enabled.

In `quotas` a period is two seconds, keys live for three and the clock stops at 4:
a unit is counted, leaves the period and the key expires within the run.
`RedisFails` is off there: with it no bound holds, which the repository does not
deny.

The modules with proofs have a type invariant, which is proved (below) and which the
runs leave out.  `FailClosed` is checked where checks are grouped, panic and fail, and
proved in general.

Deadlock is checked but in three runs; `Ended` in the other modules is the stutter of
a message that was answered, and of a run that is over.  In `mail_queue` goroutines
really wait for ever when the transaction fails (nobody receives the envelopes), and
`UpdateEnds` says that nothing else makes them.  In `services` the bound of the clock
is the end, in `daemon` the end of the process.

### Divergences

The run `headers_unique` shows one disagreement between the code and a sentence of
the repository, quoted in `PROJECT.json`: `[U]` is to remove all other headers of a
key, but as the renumbering of `core/milter.go:288` changes copies, every second
one of them stays.

Others were met while modelling; they are exceptions in the properties, and named
there:

* Results taken by the drainer lose their callbacks (`core/message.go:283`), though
  the message may end with a verdict that `tally-status` names
  (`cluegetter.conf.dist:343`): `Judgement` tells those that were heard, and
  `OvershootBounded` counts those only.
* After a session was pruned its handlers panic, and `milterHandleError`
  (`core/milter.go:368`) no longer recognises a whitelisted client
  (`cluegetter.conf.dist:87`, "no matter what"): `WhitelistedUnlessPruned`.
* `prune` hands a session to the modules whose `Eom` is still running
  (`core/milter.go:63`): it may be stored without the verdict, and not again
  (`README.md:4`, "All email (metadata) and verdicts are stored").  Nor is a document
  stored again that Elasticsearch refused (`elasticsearch/elasticsearch.go:96`), which
  is logged.  `VerdictsStoredUnlessPruned` excepts both.
* `CluegetterRecover` is called instead of deferred in the callback's goroutine
  (`core/message.go:342`), so that a callback that panics ends the process; the
  changelog (`CHANGELOG.md:112`) says failing callbacks are recovered.  `Verdict` has
  the process end there (`crashed`).  The same holds for `core/milterSession.go:305`,
  `srs/srs.go:59` and `bayes/bayes.go:181`.
* A lesson ends a process with SpamAssassin (`spamassassin/bayes.go:22`): a message
  that came from Redis has no session to ask for the configuration, and the panic
  is one of those nothing recovers from.  `cluegetter.conf.dist:190` describes bayes
  as what lets such modules learn.  `LessonsAreTaught` excepts an ended process.
* `redisRpc` asks for channels that bayes may not have made (`core/redis.go:286`);
  what it gets then is nil, and no call of that kind is ever heard.  The goroutines
  of bayes that teach read the variable of their loop (`bayes/bayes.go:182`), so
  that one module may be taught twice and another not at all: `LessonsAreTaught`
  promises as many calls as there are modules, goroutine `i` calling its own module
  or a later one, and so only the last module for certain.
* With bayes disabled the bounce handler panics on the first spam bounce
  (`bounceHandler/bounceHandler.go:194`), after it was stored and before the message
  was removed from the queue; and an error of postsuper is logged and not tried again
  (`core/mailQueue.go:132`).  `RefusedLeaveTheQueue` excepts both, a mail queue that
  is disabled and queue ids that are ignored.
* `elasticsearch index` takes a page without a wanted row for the end of the table
  (`elasticsearch/index.go:191`), and returns before what it read is stored
  (`elasticsearch/index.go:120`): `IndexedUnlessLeftBehind`.  Rows that cannot be
  scanned are logged and skipped (`elasticsearch/index.go:228`, `:269`), and an error
  that ends `rows.Next()` early is not asked for (`rows.Err()`), which the model leaves
  out.
* An error of the IPC socket is told only at shutdown (`core/daemon.go:115`), after
  which nothing is left to end: `CallsAreAnswered`.  Commands of modules that are
  not enabled are registered all the same.
* A signal that comes before `daemonStart` waits for one is lost (`core/daemon.go:57`):
  `StartsAndStops` speaks of those it waits for.  HTTP and Redis are started before
  the modules are initialised: `ReadyWhenCalled` speaks of mail and commands.
* `EnvRcpt` refuses recipients in noop mode and of whitelisted clients
  (`core/milter.go:213`).
* The tallies of a quota expire after 24 hours whatever its period
  (`quotas/quotas.go:512`); the runs keep `Ttl` above `Period`.
* `getRewriteDomain` panics or picks a recipient's own domain when a domain is named
  twice in the headers (`srs/srs.go:168`): `RewrittenToForeignDomain` is for domains
  that are named once, and an `original` of two addresses of one domain with a
  recipient of that domain is a counterexample without that condition.

## Fairness

* `Verdict`: every goroutine that can proceed does so in the end (the Go
  scheduler), each under weak fairness.  That a check returns is assumed of the
  servers behind it and their client libraries' timeouts.  Used for
  `GoroutinesEnd`.
* `Feedback`: every process goes on while any of its goroutines can (`Proceeds`), as
  none of them goes round for ever; and `Prune`, a ticker that runs for ever.
  Nothing is assumed of `Set`, of bounces and of connections that break, and `Tick`
  is not fair: `StaleIsPruned` speaks of messages that are old already.  Used for
  `RefusedLeaveTheQueue` and `LessonsAreTaught`, too.
* `Daemon`: weak fairness, while the process lives, of the goroutine of
  `daemonStart`, of the IPC socket's, of the handlers that were called, of the two
  tickers, of `SessionDisconnect` goroutines and of time (`Age`).  Nothing is assumed
  of the MTA: it may never close its connection, and `SessionsEnd` holds by prune
  then.  Nobody has to send a signal or a command.
* `Indexing`: weak fairness of every goroutine; queries come back.
* `QuotaDefinitions`: the tickers of the hosts go on (some host that is up tries to
  import again and again), the key of the schedule expires, every caller that began
  to insert and every check goes on.  That Redis answers is part of it.
* `MailQueue`: weak fairness of every goroutine of an update.  A transaction that
  fails ends its goroutine, after which nobody receives: `UpdateEnds` excepts it.
* `Milter` by itself, `Bounces`, `Services`, `Headers` and `Quotas` state safety only.  What `RunningAreListed` needs
  of the schedule is an assumption on the constants: an announcement, however late
  and by whichever clock, comes within a minute of the one before.

## Proofs

All are for any number of modules, sessions, recipients, queue ids, hosts, bounces,
rows, any results, scores, weights and capacities, from the named assumptions on the
constants.  Where a theorem needs more, its statement says so, and the reason is given
here.

* `VerdictProofs`: `[]TypeOK`, `[]NoSendAfterClose`, `[]FailClosed`,
  `[]CallbacksSeeAnswer`, and that `Verdict`
  implements `Judgement` (`PromiseKept`).  None is inductive.  The invariant adds that the
  WaitGroup's counter is the number of checks that are not done
  (`WaitGroupCounts`), that outside the breaker whoever sent was collected
  (`ResultsAccounted`), so that a failed check is among the errors the decision
  sees (`ErrorsDefer`), and that callbacks are pending or called with the verdict
  that will be answered (`CallbacksTold`).  The refinement takes every action to a
  step of `Judgement` or to a stutter: `Collect` hears, `Decide` decides, `DecidePanics`
  defers, `Save` answers, a callback is told, a panic nobody recovers from ends it,
  and all that goes on at the channel besides is invisible.
  `[]BreakerKeepsVerdict` compares sums of scores.  Where no score is negative, a sum is
  the cardinality of a set of shares, one for every unit of every score (`Adds`,
  `Together`), and sums of parts compare as sets do.  It is for a `TempfailScore` of at
  most the `BreakerScore`: with the breaker below, the code does permit what the rest
  would have deferred (`cluegetter.conf.dist` has 8 and 25).
* `FeedbackProofs`, about `MessageCache`: `[]TypeOK`, `[]CacheCoherent` and the action
  property `FindableUnlessShared`.  The size is the cardinality of a set of units,
  one for every unit of every message, so that storing and deleting are unions and
  differences of finite sets.  About `Feedback`: its cache takes steps of
  `MessageCache` or none (`FeedbackImplementsCache`), so that its index is coherent.
  `[]LearnedAsReported`
  and `[]ActedOnIfStored`: every call, wherever it is, is one that a bounce on record
  justifies (`RightCalls`, `RightLessons`), which stays so because nothing about a
  bounce changes once it is acted on (`ActedOn`); and no process takes a call that is
  not for its instance.
* `DaemonProofs`, about `Milter`: `[]TypeOK`, `[]SessionsAccounted`, `[]JudgedOnOwnData`,
  `[]DeliveredOnPermit`.  The invariant says, of every session, where the MTA is
  while a handler runs (`InPlace`), that in a transaction the last message is that
  transaction's (`OnOwnData`), that after a delivery nothing changed it
  (`Delivered`), and that a session about to be deleted by `Close` is in the ring
  buffer or went through it (`Accounted`).  A handler that panics with the session
  still in the index is one of the two that call into modules, which is why the
  others cannot leave a half-made message behind.
  `[]WhitelistedUnlessPruned` has an invariant of its own: a handler's reply to a
  whitelisted client is only a refusal when `HandleError` did not find the session,
  which is then no longer in the index and does not come back.
  `[]VerdictsStoredUnlessPruned` is another: between `EomStart` and `EomAnswer` only
  `prune` takes a session to the modules, what was taken does not change afterwards, and
  what is not `lost` of it is stored.
  About `Daemon`: every step of the process is, for the sessions, a step of `Milter` or
  none (`DaemonImplementsMilter`), so that `[]JudgedOnOwnData` and
  `[]DeliveredOnPermit` hold of the daemon, too.
  `[]ReadyWhenCalled`: what is ready and what is to be initialised are together the
  registered modules that are enabled, and nobody connects before nothing is to be
  initialised.
* `QuotasProofs`: `[]ExceedsOnlyIfFull`: what a check has counted, or will count after
  its `Remove`, was added within the period before (`RefusedWell`).
  `[]OvershootBounded`: what is over the quota is bounded by what was in flight together,
  but the state does not say what was.  The invariant (`QuotaInv`) claims that there are
  two functions that do: for every message, those whose checks were over when it began
  its own, and those that were in flight beside it, of which there are fewer than
  `MaxInFlight`.  A message that passes has counted the units of the former; the last
  to begin of those permitted in a period has all others on either side of it.  Verdicts
  are any and callbacks may be dropped; what was so permitted is not counted.  Both are for a
  Redis that answers (`~RedisFails`): its errors are not looked at, an empty answer is an
  empty set, and no bound holds.  The first is for quotas that have a period, the second for periods
  that are not longer than the 24 hours tallies are kept for (`Ttl >= Period`), and for
  quotas that tally what is permitted.
  About `QuotaDefinitions`: `[]DefinitionsTypeOK`, `[]DefinedUnlessInserting`,
  `[]DuplicatesBounded`.  The invariant says that nobody starts to insert before his
  last insertion is over (`OneAtATime`), and that those who are between their `Del` and
  their `LPush` put nothing into the list since it was emptied (`PushedAtMostOnce`).
  A pipeline that is cut off with the list empty starts anew: `inserted` is false until
  the next push.
* `MailQueueProofs`, about `MailQueue`: `[]TypeOK`, `[]NoSendOnClosed`, `[]ListIsWhole`.
  Every file is in one place of the pipeline only (`Placed`, `Apart`), the WaitGroups count
  the goroutines that are left (`Counted`), and what is collected with what is still
  under way is what was found (`Conserved`, `Written`).  About `Services`:
  `[]RunningAreListed` and `[]StoppedAreForgotten`.  An instance that is up, and whose last
  announcement met no error, is in the three
  sets around it, which last for longer than the next one is due
  (`Lasting`); no set has it that is of a later minute than its last announcement can
  have been about (`Passing`).  In which of them another host looks is arithmetic of
  quotients.
* `BouncesProofs`: `[]LostOnlyIfForgotten`, from `AcceptedIsKnown`: the address of a
  bounce that was accepted is known, until Redis forgets it or fails.
  `[]PermittedOnlyIfWaited`: what Redis has as a first attempt is never earlier than
  the first attempt there was, and who is about to permit has seen it wait.
  `[]DeferralsBounded`: every wait that begins pays, in advance, for all deferrals of a
  bounce within it (`Budget`).  A wait begins with the `SET` of a first attempt; as long as
  there is none, any of those alike may still do it, and of those between `GET` and
  `SET` each will (`Starts`).
  `[]RewrittenToForeignDomain` is about a fold inside a fold, over an array that changes
  meanwhile.  A fold is the last of a sequence of rounds (`FoldedRounds`), by induction
  over the rounds; of domains that differ, the inner loop removes at most one, at whose place the others
  close up (`RemoveAllFacts`); so that what is left after some rounds of the outer
  loop is an ascending selection of the domains, of all those that are of none of the
  recipients seen so far (`LeftIs`).
* `IndexingProofs`: `[]IndexedUnlessLeftBehind` and `[]StaysIndexed`.  Every session
  that was read and is wanted is at one place of the pipeline or has been stored
  (`Conserved`, `Once`); none is read twice, so that one order of its messages holds for all
  that its persisters write, and a session that was indexed before is in its old state
  until one begins, and in the new one when the last is through (`Persisted`).
* `HeadersProofs`, about `Headers`: `[]HeadersAsConfigured` and `[]LeavesAsCached`, with
  no more assumptions than the model's own.  The list of headers to be added is followed
  round by round.  After the loop over the recipients it is in one-to-one
  correspondence with the pairs of a rule and a recipient (`ExpandedIs`); the loop that
  removes the ones without a value leaves an ascending selection of the others, however
  its index is off (`LeftIs`); so that of every key and value there are as many as the rules
  promise (`MadeFacts`).  The invariant says of the client's headers that the MTA has left that
  they are in the client's order and before all that was added (`InOrder`), that those
  of other keys are all there, and that the only one of a key to be unique is gone
  or asked for (`Deleted`); its number is then 1, which the deletions of others cannot have
  changed (`FirstIsOne`, `SingleIsDeleted`).  What was added and what has yet to be
  come to what was promised (`Accounted`).

Five of the proofs need an induction: over the rounds of a loop, over sums, for the
least element of a set, for the last session of a page and for the last of some messages
to begin.  The library's induction theorems take an operator as a parameter, which these
provers cannot instantiate; the proofs argue from a least counterexample instead, which
the strict subsets of a finite set have (`WFMin`).

Only model-checked: liveness (`GoroutinesEnd`, `StaleIsPruned`, `CallsAreAnswered`,
`SessionsEnd`, `StartsAndStops`, `RefusedLeaveTheQueue`, `LessonsAreTaught`,
`ImportsTakeEffect`, `UpdateEnds`, `IndexReturns`), which is out of the prover's reach.

## Not modelled

* Wording, logging, statistics and rendering; the web interface, which reads state and
  shows it (its start is in `Daemon`); the histograms and the templates of
  Elasticsearch.
* The search of the web interface.  Its conditions on messages are wrapped in a
  nested query on `Messages` (`elasticsearch/repo.go:297`), which the mapping does not
  declare nested (`elasticsearch/mapping.go:89`); what Elasticsearch makes of that
  would have to be guessed.  For the same reason nothing is said of the verdict in an
  indexed document: `elasticsearch/index.go:234` looks the stored one up under
  upper-case names (`core/cluegetter.pb.go:50`), and finds Permit for any other; the
  one enum of verdicts in the repository is in lower case (`DDL-Changes.sql:58`),
  while the definition of the table `message` is not in it.
* The reports (DMARC, over IMAP) and ip information: sequential I/O, the
  results of which are only shown and stored.
* The parsing of the configuration, of addresses and of delivery reports; the SQL
  statements and the null types; `core/cluegetter.pb.go`, which is generated.
* The session configuration that scripts in Lua may ask for and change; what scripts
  do to a verdict is what any check does, and is in `ModuleChecks`.
* Elasticsearch, Redis, MySQL, libmilter, clamd, spamd and rspamd are modelled by what
  the code uses of them.
* The data race on the list of headers to be added, between a DKIM check that the
  breaker abandoned and `messageGetMutableHeaders` itself: `Headers` has the late
  signature between the steps of `Eom` only.  Errors of Redis in `quotas`: the model
  has them, but with them no bound holds (`RedisFails` is off in its run).

## Plan

Done, in this order: `Verdict`, `MessageCache`, `Milter`, `Quotas`, `QuotaDefinitions`,
`MailQueue`, `Services`, `Headers`, `Srs`, `Judgement`, `Rpc` and `Feedback`, `Greylisting` and
`Bounces`, `Indexing`, `Daemon`.  Left:

1. Which quotas a message has: the factors and selectors of `quotas/quotas.go`
   (several recipients of one domain share one key).
2. The deletion of queue items over RPC (`core/mailQueue.go`), on top of `Rpc`.
3. What Lua scripts ask of a session's configuration (`lua/lua.go`).
