# A verification development for the Amarisoft Callbox client

The repository is a Python client for the Remote API of an Amarisoft Callbox, a
REST service on top of it, and an HTTP client of that service. This directory
holds TLA+ modules of its session logic, the TLC configurations that check them,
and TLAPS proofs. It needs only `tlc` and `tlapm` with the community modules:

    tlc -config ws_direct.cfg MCWebSocketClient
    tlc -config rest_calls.cfg MCRestCall
    tlapm WebSocketUserProofs.tla

## 1. The system

    examples, scripts, tests
      |                                   |
    http.Callbox -> HTTPClient          websocket.Callbox -> LogCollector, TestSession,
      |             HTTPOverSSHClient     |                  Capabilities, SSHClient
      v                                   v
    REST service (FastAPI)              ENBApi, MMEApi, IMSApi, UEApi
      routers -> CallboxManager           |
                    \--> ENBApi ... ->  WebSocketClient, WebSocketOverSSHClient
                                          |  WebSocket, JSON, message_id
                                        Amarisoft eNB, MME, IMS, UE simulator

| component | state it keeps | operations | what is hard | what makes it correct |
|---|---|---|---|---|
| **WebSocket client** `client/websocket/client.py` | socket or tunnel, `_ready`, `_message_id`, `_lock` | connect, reconnect, close, send, send_raw, send_batch, listen | late and unsolicited messages, timeouts in the middle of anything, threads, two transports with different error paths | a call returns its own response; a command is executed at most once; `connected` means usable; every call ends |
| **Manager** `service/manager.py` | four clients, four API wrappers, an RLock | the `enb`...`ue` properties, check, connect_all, disconnect, reconnect, get_status, close_all | the lock is released before the API is used; a client that failed to connect stays; auto-reconnect below it | an API wraps the manager's client; a dropped client is down; status and close_all are atomic; methods end |
| **Service** `service/app.py`, `routers/`, `exceptions.py`, `models.py` | what the one event loop is at | some 200 routes, validation, exception mapping | blocking calls in async handlers; order of the routes; handlers of two commands; raw `OSError` as 500 | a status tells what happened; the loop comes back |
| **Service APIs** `enb.py mme.py ims.py ue.py base.py` | none | one message per method | arguments renamed, dropped, added | the command and the arguments the caller meant |
| `Callbox` facade | four clients, capability checker | connect_all, close, set_default_apn_persistent | read-modify-write of a file over SSH | no edit is lost, success means written, a whole file remains |
| Log collector, test session `logging.py` | entries, an index per service, stop event, thread, steps | collect_once, start, stop, clear, step, export | a polling thread that outlives its stop; indices outside the lock | no entry twice, none lost, one loop, an export that is complete |
| Capabilities `capabilities.py` | discovered constraints, checker | discover, validate, ValidationContext | nested contexts, discovered limits that are not used | what the licence allows is accepted, the rest refused |
| SSH client `ssh.py` | none | commands, config backup and restore, reset_sdr | several commands of which one fails | services run again afterwards |
| **WebSocket over SSH** `client/websocket_ssh/client.py` | tunnel process, port, socket, flags | connect_tunnel, close_tunnel, connect, reconnect, close, send, ... | two layers that fail separately; a port that is cleaned by killing its users | no process left behind, none killed that is not a tunnel, methods end |
| **HTTP client** `client/http/` | session with retries | a request per method of four APIs | retries of what was executed; paths and fields kept apart from the routes | a status is true of the try it answers; the method's command is the one sent |
| **HTTP over SSH** `client/http_ssh/client.py` | flag, port | connect, close, reconnect, requests with retries | ssh in the background, found again by the port only | as the other tunnel; no command twice |
| HTTP logging and capabilities, examples, scripts, configurations | | | | |

`PROJECT.json` lists under `hazards` what could go wrong in this code that a test
would hardly reach, each at its line, with the property that watches it or the reason
why none does.

## 2. Modules

| module | what it is |
|---|---|
| `WebSocketClient` | the client, its threads, its connections and the service behind them |
| `RemoteCall` | what a caller may rely on: the abstract specification `WebSocketClient` refines |
| `MCWebSocketClient` | the methods TLC's instances call |
| `WebSocketClientProofs` | for any threads: `TypeCorrect`, `SentOnceAlways`, `AtMostOnceCorrect`, `OwnIds`, `OwnAnswersCorrect`, `RefinesRemoteCall` |
| `WebSocketUserProofs` | `UndecidedAlways`, `FailedSendDisconnectsCorrect`; for threads that take turns `NoLeakedConnectionCorrect`, `AwaitedAnswerCorrect`, `ConnectedMeansAdmittedCorrect`; for one thread `RefinesClientLink` |
| `ClientEnds` | how a call of a client over a direct connection ends, and how it then reads |
| `ClientLink` | that client as one user sees it: the second abstract specification `WebSocketClient` refines |
| `CallboxManager` | the REST service's manager, several threads, clients seen from outside |
| `MCCallboxManager` | the services and their order, for TLC |
| `CallboxManagerProofs` | `ManagerTypeCorrect`, `ApiInvAlways`, `ApiWrapsClientCorrect`, `SweepInvAlways`, `CloseAllClearsCorrect`, `StatusIsSnapshotCorrect`, `DroppedClosedCorrect` |
| `LogCollector` | the log collector, its users, its background threads and the logs of the services |
| `LogCollectorProofs` | `CollectorTypeCorrect`, `NothingSkippedAlways`, `NothingSkippedCorrect` |
| `TestSession` | test sessions on a collector, composed with it: what they export |
| `TestSessionProofs` | `SessionTypeCorrect`, `EachLineOnceCorrect`, `ExportFinalCorrect`, `ExportCompleteCorrect` |
| `Forms` | what the tables are made of: a signature, and a rule for what becomes of the arguments |
| `ServiceApi`, `ENBApi`, `MMEApi`, `IMSApi`, `UEApi` | the methods of the WebSocket APIs |
| `ENBRouter`, `MMERouter`, `IMSRouter`, `UERouter` | the routes of the service |
| `HTTPApis` | the methods of the HTTP client |
| `ServiceCommands`, `Routers`, `RestRequests` | from a method call to a command, from a request to a route and its handler's steps, from a method of the HTTP client to a request |
| `RestCall` | callers, clients, event loop, handlers and services: a call along the whole path |
| `RepeatedCall` | what a caller may rely on: the abstract specification `RestCall` refines |
| `RestTables` | how the tables fit together, argument by argument: facts TLC evaluates, from which the proofs speak of any arguments |
| `MCRestCall` | the calls TLC's instance makes |
| `RestCallProofs` | `RestTypeCorrect`, `RestInvAlways`, `AnswerMeansDoneCorrect`, `RefusedUntouchedCorrect`, `TunnelledOnceCorrect`, `RestRefines`, `SameCommandCorrect`, `ArgumentsArriveCorrect` |
| `SSHTunnel`, `MCSSHTunnel` | the ssh processes of the two SSH clients, their ports, and who kills them |
| `SSHTunnelProofs` | `TunnelTypeCorrect`, `KilledByPortCorrect`, `TunnelsHeldCorrect` |
| `RemoteAdmin` | commands over SSH that change the callbox: the edit of `mme.cfg`, the reset of a radio |
| `RemoteAdminProofs` | `AdminTypeCorrect`, `RecoverableCorrect`, `StoppedIsSaidCorrect` |

### WebSocketClient

`sock` is the connection in `_ws` or `_tunnel_sock`, `wsConnected` the library's
`ws.connected`, `ready`, `messageId` and `lock` are `_ready`, `_message_id` and
`_lock`. `Connected` is the property `connected`, which asks `_ready` of a tunnel
and the library of a direct connection.

A call of a thread is a sequence of steps, each a piece of code between two points
where somebody else can act:

    Call -> EnsureConnected -> Acquire -> Transmit -> RecvMatching / SkipMessage -> idle
                 |                          TransmitRaw -> RecvRaw
                 |                          ListenMessage
                 +-> Close -> Connect -> Open / OpenFails -> Handshake -> RecvReady
                                          -> Authenticate -> RecvAuth -> AfterConnect

`BeginRecv` puts the thread on the connection it will read (`on`): a `close()` or a
reconnect of another thread changes `sock`, not what a blocked thread reads.
`Acquire` reads `_message_id` and `Transmit` writes it: the increment is not atomic,
the lock must make it so. `RecvTimeout`, `TimeoutInsideFrame`, `RecvFails`,
`WriteFails`, `OpenFails` and `Unconnected` are the error paths, each with what it
does to `_ready` and the socket, which differs between the two transports.
`outcome` tells how a call ended: `ok`, `rejected` (CommandError), `timeout`,
`lost` (AmariConnectionError), `denied` (AuthenticationError) or `crash` (an
exception the client does not promise, such as the library's `OSError`).

The service is external. It greets each connection, authenticates, executes a
pending request and answers it in order, in any order, or a batch with one array
(`ReplyOrder`), sends events of its own and closes connections; the network resets
them. It never has to answer.

A request is a thread, its call and a part of it; a message carries the request it
answers, which the client never looks at: the properties do.

### CallboxManager

`client` and `api` are the eight attributes, `lock` the RLock. A client is a number,
and `link` what it shows of itself: `off`, `on` or `dead` (reset, unnoticed).
`ConnectEnds` and `ExchangeEnds` of `ClientEnds` are the direct `WebSocketClient` that the
manager always makes, as it looks from outside: the ends that its `OpenFails`,
`RecvTimeout`, `RecvFails` and `WriteFails` reach. `ClientLink` is the client made of them,
and `WebSocketClient` is shown to implement it. The RLock is `lock \in {None, t}`; it is let go where the outermost `with`
ends, which is why `close_all()` keeps it from one `disconnect_service()` to the next.

`Ensure`, `Create` and `Connect` are `_ensure_client()`; `Call`, `Reopen` and
`Exchange` the use of the API it returned, by a handler, by `check_service()` or,
inside the lock, by `get_status()`; `Look` is one service of `get_status()`;
`Close`, then `Forget`, are `disconnect_service()`, alone, in `reconnect_service()` or in
`close_all()`: the client is closed (`manager.py:479`) before the attributes are cleared
(483), and in between who has its API may reopen it, for that takes no lock of the
manager. `connect_all()` is a `check_service()` per service and a
`get_status()`.

### LogCollector

`logs`, `indices`, `stop` and `thread` are `_logs`, `_log_indices`, `_stop_event` and
`_collector_thread`. A thread is a user's or one of `Loops`, numbered in the order
`start_continuous()` made them. The log of a service is the sequence of its lines'
layers, and only grows; an answer of `log_get(min_=i)` is its lines from index `i` on,
held as the next index `at` and the `end`.

One collection is `CollectOnce` or `LoopTest`, then per service `Ask` (read the index),
`Answered` or `Failed` (`log_get`), `TakeEntry` and `Advance` for each entry (compare
the index, write the index: two steps, no lock) and at last `Store` (extend under the
lock, return). `StartContinuous`, `ClearStopEvent`, `Spawn` and `StopContinuous`,
`Join` are the steps of the two methods that change something; `Join` waits for the
loop for five seconds, and `log_get` alone may take ten: it may return with the thread
still running, which is forgotten all the same. A service that is not connected is left out of the
default list; here it is one whose `log_get` fails, with the same effect.

`QuietClear` says that `clear()` is called only when nobody collects. The copy of the collector
in `http/logging.py` differs in its default list of services only, and so does that of
the session.

### TestSession

A session is the user of a collector who makes its calls in one order, `phase`:
`Enter` is `start_continuous()`, `Exit` `stop_continuous()`, then come `LastCollect` and
`Export`. The steps in between are the collector's own, `Collecting`. `covered` is
bookkeeping of the model: how far into each service's log the answers of the last
collection went, which is what the export is measured by. So is `outlived`: the
threads that a join has not seen end. A session may be entered
again, and between two the collector is used by hand (`ByHand`), which is how the
examples use a `LogCollector` without a session. What a session does besides, steps and
snapshots, only records.

### RemoteAdmin

`whole` is `mme.cfg`: whole, or what a write that did not end has left of it. `backups`
are the edits whose `cp` copied a whole file. An edit is

    Begin -> ReadConfig -> SendCopy -> CopyEnds -> SendWrite -> WriteEnds
                             (Copy)      | NoList     (Truncate, Fill)

with the callbox's part in parentheses. Each command is a process of `ssh`, and
`_run_command` (`ssh.py:275`) waits for it with a timeout: `CopyTimesOut` raises out of
the edit, `WriteTimesOut` is reported, and in both cases the command stays in `copies` or
`writes`, where it is carried out later, in part (`WriteBreaks`) or never. Since the exit status
is not looked at, an ssh that fails reads as an answer: of a `cat` as an empty file, of a
`cat >` as success, of a `cp` as a copy, of a start of the services as services that run.
Two histories keep what nobody was told: `uncopied`, the edits that went on after a copy
that failed, and `unstarted`, the users whose reset returned True of services that are down.
`StopServices`, `ResetDevice`, `StartServices` are `reset_sdr()`; `systemctl` begins
at once, so that a command of this method is not carried out later than its timeout.

### The REST path: tables, and RestCall

A call of the HTTP client crosses four packages of the repository, written by hand
beside each other: `client/http/mme.py` turns a method call into a verb, a path and
fields; `service/routers/mme.py` turns those into a call of a method of
`client/websocket/mme.py`; that one turns its arguments into a message; and
`client.py` sends it. The first three are tables, one module per file: a *form* per
method or route, grouped by what they have in common. A form has a signature
(`required`, `optional`, `presets` for defaults, `open` for `**kwargs`), a path, and
says which arguments are renamed (`min_` to `min`), sent only if truthy (`drops`),
never sent (`ignores`), sent as `True` (`flags`), always sent (`fixed`), or moved from
the path to the body. `Forms!Passed` is the one rule that applies a form to a list of
arguments. A value is the parameter it was given for, or that parameter's falsy value
(0, an empty string or list, `False`), for those are what `if x:` and `ge=1` tell apart.

`RequestOf` applies the HTTP client's form, `RouteOf` finds the first route that
matches verb and path in the order of declaration, `Verdict` is what routing and
validation answer (404, 405, 422, and the 400 of a `ValueError`), `Steps` the API calls
the handler makes, `Command` the message of each; `Handling` is all of that for a request,
and `CallOf` the call that makes it. `Callable` is whether Python finds
the method and can bind the arguments; if not, the handler ends in 500.

`RestCall` runs calls along this path. A user of the HTTP client calls methods, one of the
tunnel client names routes (`Way`), for it has no methods. `call` is what a caller is doing, with the
number of the try; `inbox` are the requests that reached the service; `handler` is what
the event loop is at: the handlers are `async def` and block it, so there is one;
`wire` and `executed` are commands sent and run; `replies` responses under way.

    Begin -> Transmit -> Handle -> Execute -> Succeed -> Receive
               |           |         Reject  -> Fail       |
          Unreachable    Refuse      Swallow    HandlerTimesOut, LinkBreaks
               |         Discard                 TimesOut, BreaksOff
               +------------------ next try -------------+

Each of the three parties gives up by itself, and the others do not hear of it: a
caller's socket times out while its handler waits; a handler's WebSocket times out
while the command is on its way; both may be executed later. `Repeated` is the next
try, of urllib3's `Retry(total=n)` after any failure to connect, read error or 502, 503
and 504, of `HTTPOverSSHClient` after a `URLError`, which is a failure to connect or to
send. `Plan` is the shape of a handler: `once`; `fallback` (`list_cells`: `cell_list`,
then `config_get`); `lookup` (`get_ursp_rules` finds an IMSI by `ue_get` first); `probe`
(status reports, which swallow every error and answer 200). A reused or stale
WebSocket connection, `_ensure_client` and authentication appear as the ways `Perform`
may fail before anything is sent: `CallboxManager` and `WebSocketClient` have them in
detail.

`RestTables` has no state. `Regular` is a call with any of the arguments that its method
or route has, `Reaches` which routes a request of some shape may end in, `Delivers` that
an argument gets from there to the service under the name it should have. Its assumptions say of
every pair of rows that belong together that they fit.

`RepeatedCall` is what remains for the caller: a bounded number of tries, each run or
not, now or later; an end that is good, refused or in doubt; a good end means that its
own try ran, a refused one that none did or will; over the tunnel at most one try runs.

### SSHTunnel

A tunnel is an ssh process, numbered as they are started: `owner` is the client that
started it, `state` is `starting`, `listening` or `ended`. `process` is `_ssh_process`
of a `WebSocketOverSSHClient`, or the ssh that `subprocess.run` of a
`HTTPOverSSHClient` waits for; `flag` is `_tunnel_active` or `_connected`; `ws` the
tunnel that an open `_ws` goes through. An ssh listens if nobody else does on that
port (`ExitOnForwardFailure`), and ends whenever it likes. `InUse` is
`_is_port_in_use`: any listener.

    Begin -> TunnelActive -> ConnectCleans -> Spawn -> Poll -------> Socket -> Ready -> Exchange
      |                                         +-> RunReturns -> Check
      +--> Close -> CloseCleans (-> TunnelActive of a reconnect)

`Cleanup` is `_cleanup_port`: with `lsof` it finds listeners and every program that has
a socket of that number open, with `pkill` the ssh processes that have it in their
command line, and signals them one after the other, itself included. `RunReturns` is
the end of `subprocess.run`: with `ssh -f` the tunnel may stand when the timeout strikes,
and then stays in the background although `connect()` reports a failure.

## 3. What the runs check

| run | instance | properties | what it shows |
|---|---|---|---|
| `ws_tunnel` | 1 thread, proxy tunnel, password, 3 calls, batches of 2, 2 connections | `TypeOK`, `AwaitedAnswerOnItsWay`, `ConnectedMeansAdmitted`, `FailedSendDisconnects` | over the tunnel, with a service that answers in order, `connect()` returns only when admitted, a failed send makes the next call reconnect, and no awaited response is thrown away |
| `ws_direct` | 1 thread, direct, every method, 3 calls, 2 connections | `AtMostOnce`, `NoLeakedConnection`, `ImplementsRemoteCall`, `ImplementsClientLink` | timeouts and reconnections never repeat a command; the client implements `RemoteCall`, and is the client that `CallboxManager` works with; every open socket is the one it holds |
| `ws_threads` | 2 threads, tunnel, one call each, answers in any order or never | `OwnAnswers`, `CallsEnd` | threads that share a client, and reconnect it under each other, get only their own responses; no call hangs, on the lock, the service or the skipping of events |
| `manager_sessions` | 2 threads, 2 services (one versioned), all methods, one call each, auto-reconnect, up to 4 clients | `TypeOK`, `ApiWrapsClient`, `CloseAllClears`, `StatusIsSnapshot`, `DroppedClosed`, `MethodsEnd` | the manager's table is consistent; `close_all` and `get_status` are atomic; what the manager drops it has closed, and only a call that was under way opens it again; every method ends and returns the lock |
| `test_session` | 1 tester, 1 service, 2 lines of 1 layer, 2 sessions, joins that end in time or not, the collector used by hand in between | `SessionTypeOK`, `EachLineOnce`, `ExportComplete`, `ExportFinal`, `SessionEnds` | until a thread outlives its join, the logs have each line once, in order, and an export has what the services gave; whatever threads outlive theirs, no collection begins after a session; a session that is left ends |
| `collector_shared` | 1 user who collects beside 1 loop, which its join may leave running, 2 lines of 2 layers, `clear()` between collections | `NothingSkipped`, `StopEnds`, `Collected` | collections that race repeat entries, but lose none; a stopped loop ends; a running one brings every line in, unless the logs are cleared for ever |
| `rest_calls` | 1 caller of the HTTP client with 1 retry, 1 of the tunnel client with 2 tries, every method and every route in all shapes of its arguments; 2 calls where calls mingle | `TypeOK`, `AnswerMeansDone`, `RefusedUntouched`, `TunnelledOnce`, `SameCommand`, `ArgumentsArrive`, `ImplementsRepeatedCall`, `CallsReturn`, `LoopComesBack` | a status is true of its try; a refusal touched nothing; the two clients' methods of one name mean one command, with all arguments the caller gave; the whole path is a `RepeatedCall`; calls end and the event loop comes back |
| `ssh_tunnels` | 1 client of each kind, each with its port, in one program, `lsof` or `pkill`, 3 calls each, 6 ssh processes | `TypeOK`, `TunnelsHeld`, `KilledByPort`, `MethodsReturn` | a client has one ssh process at most, which it can find again, and none once closed; cleaning a port kills no program but one with an open socket there; every method returns |
| `remote_admin` | 2 users, 2 calls each, edits with backups and resets, late, broken and failed commands | `TypeOK`, `Recoverable`, `StoppedIsSaid` | the callbox has a whole `mme.cfg`, in its place or as a backup, until an edit goes on after a copy that failed; a reset that leaves the services down returns False, unless nothing but the exit status of the start told of it |

Runs that TLC refutes, each against a line of the repository (`findings` quotes it):

| run | property | what happens |
|---|---|---|
| `ws_half_open` | `ConnectedMeansAdmitted` | after a `connect()` that timed out, the next one returns a `ready` the service never sent |
| `manager_check` | `CheckSeesConnection` | `check_service("enb")` connects, fails over a missing `version()` and says not connected |
| `rest_lands` | `CallsLand` | methods of the HTTP client for which the service has no path, verb or field, `UEApi.ue_get` first |

Some properties hold only of the use or transport their run describes, or name the
case that they leave out. Outside of it TLC finds each of them false:

* `EachLineOnce` and `ExportComplete` speak of sessions whose threads have ended within
  the join's five seconds, or have not been joined yet. A thread that outlives its join and
  the last `collect_once()` of the session may add the same line, or the export is written
  while the thread holds lines that no later collection asks for again. `ExportFinal`
  speaks of such threads too: each ends its collection and begins none, while the session
  is over. A `start_continuous()` clears the event that the old loop has yet to see, and from then on
  two loops collect: `SessionTypeOK` has both of them, and the theorems leave nothing out.
  `NothingSkipped` needs a `clear()` that no collection is under way for.
* `AwaitedAnswerOnItsWay` needs a service that answers each part of a batch by itself
  and in order. With `ReplyOrder = "array"`, `_recv` keeps the first element of a JSON
  array (`client.py:598`), and `send_batch`, which the comment there sends its callers
  to, waits for those that were dropped.
* `Recoverable` and `StoppedIsSaid` each name the one case of failure that escapes.
  `_run_command` ignores the exit status, although its docstring has it raise
  (`ssh.py:286`): an edit whose `cp` failed goes on to empty the file (`uncopied`), and a
  write that breaks then leaves no whole configuration at all; a reset whose start failed
  returns True (`unstarted`), although its docstring keeps that for a success (`ssh.py:825`). Commands
  that fail in all other ways are in the run, and lose nothing. Two edits in one second, which share the name of their backup, are outside
  the model, and `restore_config` too, whose one `.bak` a second try overwrites.
* `NoLeakedConnection`, `ConnectedMeansAdmitted` and `AwaitedAnswerOnItsWay` need a
  client that no two threads use at once. `connect()`, `close()` and `_ensure_connected` do not take
  the lock: of two threads that find the client unconnected both open a connection, and
  the second is stored over the first, or replaces the one on which the first thread
  waits for its response. `OwnAnswers`, `AtMostOnce` and the refinement of `RemoteCall`
  hold all the same.
* `FailedSendDisconnects` holds of the tunnel. Over the library its `OSError` escapes,
  and the client goes on as connected until the next read fails.
* `KilledByPort` says whom a `_cleanup_port` may hit, not that it hits nobody. Of two clients
  that share a port, the cleaning of one kills whatever has a socket there, the other client's
  program included: `ssh_tunnels` gives each client its port, as the packages' two defaults do
  (19001 and 19010), and the theorem covers any. And without a second client: a tunnel that dies
  under an open `_ws` leaves the client's own socket on the port, and a `connect()` of that
  client then signals its own process, which the run has.
* `TunnelsHeld` speaks of a client that is alone on its port: two on one port each find, and
  end, the tunnel of the other.
* `DroppedClosed` does not say that a dropped client stays down. A handler that has its API and
  reconnects by itself opens it again behind `disconnect_service()`, and `close_all()` returns
  with a connection open that nobody has a name for.

(The routers are `async def` and call the manager without an `await`, so that the
shipped service has one call at a time; `RestCall` models that loop. The manager
documents itself as thread-safe, which is what `manager_sessions` checks.)

### The compositions

`CallboxManager` does not have a WebSocket client in it, but what it can see of one:
`link`, which is `off`, `on` or `dead`, and the ends a connect or an exchange may have
(`ClientEnds`). That this is the client of `WebSocketClient` is the property
`ImplementsClientLink` of `ws_direct`: with `link` read off its variables, each step of
the detailed client is a step of `ClientLink`, whose calls end as `ConnectEnds` and
`ExchangeEnds` say. `RefinesClientLink` proves it for every number of calls and
connections. `RestCall` in turn has a handler fail before it sends anything in
each way that a method of the manager may fail, and its services execute a command at most
once per time it was sent, which is `AtMostOnce`.

### Bounds

`MaxCalls`, `MaxConns`, `MaxQueue` (events waiting in an inbox), `MaxClients` and
`MaxTunnels` bound counters that grow for ever in the code. `_MAX_SKIP` is 2 instead of
200: the last skipped message, the one that exhausts the bound and a response behind it
all occur. Two connections are enough for a response or an id of an earlier connection
to meet a later one; three calls for one that fails, one that reconnects and one that is
hurt by it; two parts for a batch whose second response is lost. `MaxClients` is what
the calls of `manager_sessions` can create, so that `Create` is never held up, and
`MaxTunnels` what the calls of `ssh_tunnels` can start. Threads that have made their
calls rest (`AllCallsMade`), so that TLC's deadlock check is on and means that a call
cannot go on; in `RestCall` the callers are simply done, and the check is off.

`MaxLines` bounds the services' logs, `MaxLoops` the threads started, and with them the
sessions. In `test_session` the second loop is the one that clears the event the first may
not have seen; with one service and one layer the run is small, and the theorems are for any. Two lines are
enough for an index to be set back, or for an answer to end in the middle, two loops for
one that is forgotten and one that is new. Layers and filters are left to
`collector_shared`. In `RemoteAdmin` two calls of each user let a late command of the
first meet the second, and the second of another user.

`rest_calls` makes every call the tables allow, more than a thousand, in a run of its own
each: they do not touch one another, except at the event loop, and there what counts is
the shape of the handler. `Mingled` are the two calls, one per client, that are made before, beside and
after each other: of the plan `fallback`, which includes a handler of one command. One
retry and two tries are enough for a late try to overtake a later one. A call gives its method's required arguments and none, one or all of the optional ones, or all
of them with one that Python takes for false.

### Fairness

Python runs every thread, and each blocking socket operation has a timeout, which is a
step of the thread: `FairSpec` is weak fairness of each thread's steps in
`WebSocketClient`, `CallboxManager` and `SSHTunnel`. A lock that is free and asked for
is granted sooner or later only because the other threads make finitely many calls,
which the models' bounds see to; Python's locks promise no order. The services and the
network owe nothing; ssh owes nothing either: it may hang, for `subprocess.run` and
`_is_port_in_use` both have timeouts. That `lsof` and `pkill`, which `_cleanup_port` calls
without one, come back is assumed.

In `RestCall` a caller owes to send or to fail, and to time out or take a response; the
event loop owes the end of the handler that runs, whose WebSocket has a timeout. It owes
nothing to a request in its queue, and a call ends all the same.

In `TestSession`, both threads run: the tester once it is out of the test, which may
last, and the loop. Each step of them is a socket operation with a timeout, or a wait of
five seconds.

The collector's `FairSpec` adds, for each service, strong fairness of `Answered` and of
`TakeEntry`: `Collected` can only hold of a service that, asked again and again, answers
in the end, and whose lines can be parsed in the end, since the code asks for a line it
cannot parse for ever.

## 4. What is proved

All theorems hold for every value of the constants that the named assumptions allow:
any number of threads, calls, connections, services, clients and retries, any order of
answers, either transport, any requests.

* **`TypeCorrect`**, **`ManagerTypeCorrect`**, **`CollectorTypeCorrect`**,
  **`RestTypeCorrect`**, **`TunnelTypeCorrect`**, **`AdminTypeCorrect`**: `Spec => []TypeOK`. The types need a little more than
  themselves: a thread in a call has a call number, one that waits for a response has an
  id to wait for (`InCall`), a thread with a connection to use has a client
  (`HasClient`), what a thread reads is in the log (`ReadsLines`), a command is one that
  the plan of its handler has (`OrderOK`).
* **`OwnAnswersCorrect`**: `Spec => []OwnAnswers`. `OwnAnswers` speaks of what was
  collected; that is inductive only together with what is in transit. `OwnAnswersInv`
  adds: every id in transit has been given out (`IdsGivenOut`); a thread between
  reading `_message_id` and its last response holds the lock and its copy is current
  (`HoldsLock`); and an awaited id, on whatever connection it still appears, stands for
  the awaited part of the awaiting call (`AwaitsOwnIds`). A new id is above all in
  transit, which is why late answers and reconnections do no harm.
* **`AtMostOnceCorrect`**: `Spec => []AtMostOnce`. `AtMostOnceInv` says where a request
  is: not sent, and then nowhere; pending, and then on one connection, once, and not
  executed; or done with.
* **`RefinesRemoteCall`**: `Spec => ImplementsRemoteCall`, for any threads, either
  transport and any order of answering. The two invariants above are most of it; two
  more join them. `ControlInv` says which methods reach which steps, and that a call
  waits for as many responses as it has parts left. `RepliesExecuted` says that a good
  response on its way, wherever it is, is of a request that was executed: without it
  the step that takes a response would not be one of the abstract call.
* **`FailedSendDisconnectsCorrect`**: for any threads over the tunnel. It is a property
  of steps; what it needs is that a call under way has no outcome yet (`Undecided`), so
  that a failure seen is the failure of this write.
* **`NoLeakedConnectionCorrect`** (`Method = "direct"`), **`AwaitedAnswerCorrect`**
  (`ReplyOrder = "inorder"`) and **`ConnectedMeansAdmittedCorrect`** (`Method = "proxy"`),
  each of `Spec /\ []TakeTurns`: any number of threads, of which one at a time is in a call
  of the client. This is what its docstring asks for (`client.py:57`: callers that share a
  client must synchronize externally), and what the handlers on the REST service's event
  loop do; section 3 says what happens without these
  conditions. `ReadsHandle`, that who reads reads the connection the client holds, is
  common to them, and `TheirTurn`, that in a step of one thread the others rest. `HandleInv` adds to the
  first that an open connection reads as connected, so that `connect()` opens none over
  it. `AwaitInv` adds to the second that ids come back in the order they are waited for:
  what is skipped in front of the awaited response is older than all that is awaited.
  `AdmitInv` adds to the third that the service's greeting is its first message, and
  that nothing it says before it accepts the password reads as success; so the answer that sets
  `_ready` is the one to the password. Over a direct connection the theorem would be
  false: that is the finding of `ws_half_open`.
* **`RefinesClientLink`**: `Spec => ImplementsClientLink`, for `Method = "direct"` and one
  thread. A step is a stutter, one of the abstract steps, or, for a write to a
  connection the peer has closed, the abstract break. `StageInv` says where in a call
  the client reads as connected: whoever sends, receives or authenticates has a socket
  that does; whoever comes to `connect()` by `_ensure_connected` has none, and may
  reconnect; and the socket that is held is never one the client itself has closed.
* **`ApiWrapsClientCorrect`**: `Spec => []ApiWrapsClient`. `ApiInv` adds that a thread
  that makes or connects a client holds the lock and has the manager's client: what it
  wraps is what the manager holds when it wraps it.
* **`CloseAllClearsCorrect`**, **`StatusIsSnapshotCorrect`**: action properties, from
  `SweepInv`. A thread on its way through the services holds the lock until it ends, and what it
  has passed is as it left it: closed by `close_all()`, or still as `get_status()` noted it.
  `InMethod` says which methods come to which steps, so that a thread in the loop of either is
  known by its step.
* **`DroppedClosedCorrect`**: with `ClientsInv`, that a client is one service's and
  never given to another. From the moment a client is closed it has been dropped, although the manager still
  names it: whoever could take it from there needs the lock (`ForgettingLocks`), and who opens
  it again has had its API before.
* **`NothingSkippedCorrect`**: `Spec => []NothingSkipped` for `"clear" \notin Ops \/ QuietClear`.
  `NothingSkippedInv` adds that a thread inside an answer started where nothing was
  missing and has kept what it read since. What is kept stays kept (`HeldStays`,
  `KeptStays`): logs and threads' hands only hand on. That an index may be set back by a
  slower thread does no harm, which is why no lock is needed for this property. With a
  `clear()` in the middle of a collection it is false: the collection writes its index
  over the cleared one.
* **`SessionTypeCorrect`**, **`EachLineOnceCorrect`**, **`ExportFinalCorrect`**,
  **`ExportCompleteCorrect`**: of `SessionSpec`, for any number of sessions, services and
  lines, and with threads that outlive their joins. `SessionControl` says who is collecting in
  which phase: the tester, the session's thread, and those in `outlived`, which the stop
  event of a session that is over keeps from another collection. As long as there are none of
  these, one thread at a time collects, so what it has in hand follows all that is in the
  logs, and its index is where the logs end (`OrderInv`): nothing comes twice. For the
  export, `CompleteInv` puts this together with `NothingSkippedInv` of the collector,
  whose proof is used here as it stands: every step of a session is a step of the
  collector, or leaves it alone.
* **`KilledByPortCorrect`**, for any ports and programs: whenever a client cleans its port
  in `close()`, `reconnect()` or the reconnection of a command, it has no socket there
  (`SocketClosed`), so that `lsof` does not list its program for it.
  **`TunnelsHeldCorrect`**, if there is a tool to find who uses a port: it needs to know, of
  each client and each step, which tunnels it may have left on its port, and that a cleaning
  comes before the next is started.
* **`RecoverableCorrect`**: `Spec => []Recoverable`, if `Backup`.
  `Recoverable` alone says nothing of the step that empties the file. `CopiedFirst` adds
  that whoever is past his copy, or has a write on its way, however late, finds a whole
  backup there, or has gone on after a copy that failed: his own if the file was whole when
  it was copied, else one of somebody
  who emptied it before him. A copy of a file in pieces undoes no backup, since each edit
  has a name of its own: one backup for all would not do, as the mutant shows.
* **`StoppedIsSaidCorrect`**: `Spec => []StoppedIsSaid`, for any number
  of users who reset radios at once, by commands of which any may fail: who has stopped the
  services is still to start them; if he cannot he says so, and if the start fails he is
  counted in `unstarted` until he makes another reset that works.
* **`AnswerMeansDoneCorrect`**, **`RefusedUntouchedCorrect`**, **`TunnelledOnceCorrect`**
  follow from **`RestInvAlways`**. The three speak of calls that have ended; `RestInv`
  follows the tries that have not: one that is under way was sent, so it is not the
  one that its caller is about to send, and over the tunnel it is the last one
  (`SentTries`, `OneTunnelledTry`); only what is served is ever on the wire, and a
  handler that has an answer has had its command executed (`ServedOnly`); a status is
  true already when it leaves the service, and is taken only by the try it
  is for (`StatusesTrue`). Nothing of the tables is used but that a route refuses or
  serves: the theorems hold of any set of requests.
* **`SameCommandCorrect`**, **`ArgumentsArriveCorrect`**: `Spec => []...`, if the calls are
  `Regular`: whatever arguments the signatures admit, in whatever combination, each of
  them truthy or not, where `rest_calls` tries four shapes of them. What is assumed of
  the tables are the ten facts of `RestTables`, one per kind of pair (a method's path
  is filled from required arguments; each parameter has a way into the route that serves
  it; ...), which TLC evaluates for all rows on every run of `MCRestCall`. What is proved
  is all that happens to a list of arguments in between: the form that `RequestOf`
  chooses, the first of several routes (`LeastNumber`), which can only be one that the shape of
  the request allows, the path taken apart again (`SlotsDiffer`), what is kept or renamed in two
  more forms, the plans of more than one command. `CallableOrders` joins
  them: the order on its way is the one that `CallOf` made of the call.
* **`RestRefines`**: `Spec => RC!Spec`, the path of a call implements `RepeatedCall`. The
  initial state, then one lemma for each action that maps to a step, and one for those
  that stutter, under the two invariants above.

The runs keep the properties that follow from the inductive invariants, not the
invariants themselves. The proofs have one lemma per action; a theorem is the initial state,
the step and the implication, combined by PTL. The assumptions used are those the
modules name: `None` is no thread, sizes are positive, bounds are natural numbers,
`Order` is a sequence of the services, a caller uses one of the two clients.

### Only model-checked

* Liveness, which is outside the prover's reach: `CallsEnd`, `MethodsEnd`, `StopEnds`,
  `Collected`, `SessionEnds`, `CallsReturn`, `LoopComesBack`, `MethodsReturn`.
* The facts of the tables that `RestTables` names: TLC evaluates them, for all rows, and
  tlapm takes them as assumptions. A proof would be the same evaluation.
* What the runs that TLC refutes show.

## 5. What is not modelled

In the modelled components: frames, masks, TLS and JSON (a message is a record, a
frame out of step is a flag); pings and pongs; a write that blocks on a full socket;
empty and malformed messages; `__del__` and the garbage collection of a socket that
was overwritten; the wording of errors. `ClientLink` is checked, and proved, for one user of a
client. The manager's `get_manager`, `set_manager` and `clear_manager` only keep a
global, and invalid service names raise before anything changes. Of the collector: the
callback (user code between two steps of a loop), the text of an entry, `filter_logs`
and `logs` (snapshots under the lock), a user's thread that is interrupted (Ctrl-C) with
entries in its hands, two users that start or stop at once in TLC's runs (the theorems
cover them), and a service that restarts and counts its lines from 0 again.

Of a session: its steps, its snapshots, the export's order by time and its other files.
Of the edit of `mme.cfg`: what the text says, so that an edit lost to another one, and a
success that was none, are not seen; the restart of the MME. Of `SSHClient`: what only
reads and parses, file transfer, `backup_config`, `restore_config`.

Of the service: its settings, the entry point, logging, CORS and the generated
documentation; what an answer contains (responses are a status); the aggregations that
only compute over answers, such as `mme.apn_get`. Of the HTTP client: `Callbox.base_url`
and its `repr`, and `Session`'s pool of connections. Of the tunnels: the `sshpass`
process around ssh, a `pkill` pattern that happens to match another port's digits, and
the matching of ids in `websocket_ssh`'s own copies of `send`, `send_batch` and `listen`.

Not modelled at all: the capabilities of a device (data and pure functions: what a
licence or a bandwidth allows; nothing in them depends on an order of steps, and a table of
inputs and outputs would repeat the code), and examples, installer, scripts, device configurations and measurement records, which hold no core logic.

## 6. Plan

Done: 1. `WebSocketClient`, `RemoteCall` and their proofs. 2. `CallboxManager` and its
proofs. 3. `LogCollector` and its proofs. 4. The REST path: the tables, `RestCall`,
`RepeatedCall` and their proofs. 5. `SSHTunnel`. 6. `ClientLink`, the composition of 1
and 2. 7. `TestSession`, on 3, and its proofs. 8. `RemoteAdmin` and its proofs. 9. Proofs of
`SSHTunnel`, of the two refinements of `WebSocketClient`, and of every safety invariant and
action property a run checks. 10. `RestTables`, and what the tables do to any arguments.

Next, in this order:

11. `ClientLink` for threads that take turns: its `answer` is then the outcome of the
    call that ended last, whoever made it, which needs a history variable.
12. `RemoteAdmin`: `backup_config` and `restore_config`, and what the text of `mme.cfg`
    says, for edits that are lost.

The set of runs stays at a dozen, so that all of it is checked at every change: a new
component gets one safety run and shares its liveness with it where the instance allows,
and a run whose question a theorem has answered for all instances makes room.
