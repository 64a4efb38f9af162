# Verification of the ESP32 SMS gateway

TLA+ models of the firmware in `src/` (C, ESP-IDF, FreeRTOS), TLC
configurations that check them on small instances, and proofs that TLAPS
checks for every size. Paths below are relative to `src/`; `a7670e.c` is short
for `components/a7670e/a7670e.c`, and so on.

* `tlc -config X.cfg M` runs a configuration (module and file in the table of
  runs below); `tlapm M.tla` checks a module of proofs.
* `PROJECT.json` ties every definition to the lines it models (`map`), every
  property to a mutant of the code that breaks it (`mutants`), and lists the
  hazards, the findings and the theorems.

## 1. The system

| Component | State it keeps | Operations | Tasks that run it |
|---|---|---|---|
| `a7670e` modem driver | `s_modem`: `at_mutex`, `at_response_sem`, `at_response`, `waiting_for_response`, `status`; the reader's `prev_line`, `prev_was_cmt` | `a7670e_init`, `_send_sms`, `_get_status`, (`_delete_sms`, `_reset`: no callers); internally `at_cmd`, `uart_reader_task`, `parse_cmt` | reader task; callers: MQTT client task, httpd task, timer task, main |
| `sms_store` | two boxes of 50 messages, their counts, `s_id_counter`, `s_mutex` | add, count, get by index, delete by id, `next_id` (mark read, clear: no callers) | reader (inbox), MQTT and httpd (outbox), httpd (list, delete) |
| `rest_api` | none of its own | status, list, send, delete, configuration, OTA | httpd task |
| `web_server` | server handle, four WebSocket descriptors | start, index page, `/ws`, broadcast | httpd task; reader task (broadcast) |
| `mqtt_gateway` | `s_client`, `s_connected`, prefix, number and message buffers, counters | event handler, commands, publish inbound / status, start and stop with the network | MQTT client task, event loop, reader, timer task, main |
| `webhook` | a queue of eight messages | `webhook_send`, worker | reader; webhook task |
| `config` | `s_config`, nine keys in NVS | load, get, save | main; httpd; everybody reads |
| `ota_update` | `s_status`, `s_url`; the flash partitions and the boot choice | start, status, `ota_task` | httpd; one task per update |
| `main` | `NET_CONNECTED_BIT`, `s_using_ethernet`, `s_wifi_retry`, retry timer, watchdog counter | start-up, Ethernet/WiFi/IP handlers, watchdog, `on_sms_received` | main, event loop, timer task, watchdog task, reader |
| `tcp_log` | ring of 200 lines, client socket | log hook, replay, server | every task that logs; log task |

How they interact:

* The modem prints lines; the reader task makes `sms_message_t`s of them and
  calls `on_sms_received` (main.c:237-244), which stores the message, sends it
  to the WebSocket clients, publishes it by MQTT and queues it for the webhook,
  all in the reader task.
* MQTT commands and `POST /api/sms/send` call `a7670e_send_sms` and then add to
  the outbox. `GET /api/status`, the MQTT connection handler and the 60-second
  timer call `a7670e_get_status`, which sends a command to the modem.
* The event loop sets and clears `NET_CONNECTED_BIT` and starts and stops the
  MQTT client; `app_main` waits for the bit and creates and starts the client;
  the watchdog samples the bit and restarts the device.
* The httpd task starts updates; `ota_task` restarts the device.

What is hard about it: seven or more tasks share the modem's one answer
channel, and answers carry no name; inbound messages arrive in the middle of
answers; timeouts race late answers; values are read before or after the lock
that protects them; start-up overlaps with the event handlers that supervise
it; updates and configurations must survive a power cut anywhere; tables of
sockets are shared without a lock while descriptors are used again; and the MQTT
client's lock and the modem's mutex are waited for in both orders.
`PROJECT.json` lists each of these at its line under `hazards`.

What makes each component correct:

* driver: commands do not mix on the UART; nothing is left locked; every call
  returns; a success is the modem's answer to that call; each inbound message
  is handed over once with its own body;
* store and listing: ids are unique; a deletion removes what was listed; a
  listing misses nothing that stayed;
* update: the device can always boot, boots what was asked for, and the update
  ends; nothing leaks on the way out;
* start-up and supervision: the bit says whether there is a network; lost
  networks are retried; the device restarts if it stays offline; MQTT runs
  while the gateway is online;
* MQTT: Home Assistant is never told of a message that was not sent or
  received; after any number of broken connections it has "online" and the
  right count; no two tasks wait for each other for good;
* configuration: every key has a value its clients expect, after any restart;
* webhook: what the queue took is posted, in order and once, or it is known why
  not;
* WebSocket: a connected browser keeps its slot and gets every message; what is
  stale goes;
* log stream: a monitor hears each task in order without a gap; logging never
  stops.

## 2. Modules

| Module | Models | Extends / instantiates | Theorems in |
|---|---|---|---|
| `SerialLink` | what the driver promises of the serial line (abstract) | | |
| `AtChannel` | `a7670e_send_sms`, `at_cmd`, the reader task; modem and network outside | `SerialLink` (refinement) | `AtChannelProofs` |
| `MCAtChannel` | bodies of inbound messages for the runs | `AtChannel` | |
| `SmsStore` | store, listing and deletion | | `SmsStoreProofs` |
| `OtaUpdate` | `ota_update_start`, `ota_task`; flash and bootloader outside | | `OtaUpdateProofs` |
| `Network` | start-up, event handlers, retry timer, watchdog, the MQTT client's start and stop | | `NetworkProofs` |
| `MqttGateway` | the MQTT event handler, commands, status timer, inbound publications; client library and broker outside | | `MqttGatewayProofs` |
| `GwConfig` | loading, changing and saving the configuration; flash outside | | `WebhookProofs` |
| `MessageQueue` | what the webhook promises for the messages it accepted (abstract) | | |
| `Webhook` | from the modem through the queue to the webhook, over the configuration | `GwConfig` (composition), `MessageQueue` (refinement) | `WebhookProofs` |
| `WebSocket` | the table of WebSocket clients; httpd outside | | `WebSocketProofs` |
| `TcpLog` | the ring of lines, the log hook, `tcp_log_task`; sockets outside | | `TcpLogProofs` |

Operators called `Mutation` in a module are plausible wrong versions of a
definition. They are in no specification; each is used to show that a property
notices it.

### AtChannel

A caller's step is what it does between two points where another task can make
a difference. `a7670e_send_sms`: `SendCall` (the registration check before the
mutex), `SendBegin` (mutex, clear, `waiting_for_response`, AT+CMGS),
`PromptWait`, `PromptMissing` or `SendClear` and `SendText`, `ResultWait`,
`SendRelease`, `SendVerdict`. `SendClear` (the `memset` at line 401) is
separate from `SendText` (402-404) because the reader, which has a higher
priority, may store a late OK between them, and that OK counts. The last two
are separate because the code gives the mutex back at line 409 and reads
`at_response` at line 411. `at_cmd` is `CmdCall`, `CmdBegin`, `CmdWait`,
`CmdRelease`, `CmdVerdict`, with the same gap (203, 210).

The reader is `ReadPrompt` and `ReadLine` (a line is taken from the UART and
handled: the body of a message, a +CMT header, a +CREG status), then, if a
command was waiting at that moment, `ReaderStore` (into `at_response`) and
`ReaderGive` (the semaphore); a caller may act between any two of these, as it
may between lines 142, 149 and 158.

Abstractions. A line is what the code distinguishes in it: `OK` stands for
OK and SEND OK, `ERROR` for the three error lines; a line of a message's body
is of any kind, and the reader acts on it as on the modem's own: a second line
that begins with +CMT: is a header to it, one that begins with +CREG: sets
`registered` (125-133). `SAYS_OK`, `SAYS_ERROR` and
`SAYS_PROMPT` are lines that merely contain the word, which `strstr` finds
although `strcmp` does not end the response with them. `at_response` is a
sequence of lines, and its 1024 bytes are `MaxResponse` lines; a line that does
not fit is dropped and still ends the response (144-159). The bytes after '>'
that belong to the prompt itself (a space) are dropped. Signal strength,
operator, IMEI and what `at_cmd` copies for its caller are data that no
property is about. `MaxUrcs` bounds what comes unasked, messages and +CREG
lines together. `submitted`, `sms`, `arrived` and `okSince` record what
happened for the properties; no code reads them.

The modem is nondeterministic: it may answer a command, refuse or ignore it;
in text mode it takes command lines for text; Ctrl-Z submits the text to the
recipient the text mode was opened with. `SlowModem = FALSE` is the assumption
that it has said everything, and the reader has read it, before a timeout
expires.

### SmsStore

`sms_store_next_id` is a load and a store. Inside the store it runs under
`s_mutex` (`AddBegin`, `AddNumber`, `AddEnd`), with the intermediate states
that the unprotected count shows to others; the MQTT task also calls it bare
(mqtt_gateway.c:186, 232: `BareLoad`, `BareStore`) and throws the value away,
as the store numbers the message again. A listing is `ListBegin` (the count,
without the mutex), `ListGet` (one message by index, under the mutex) and
`ListEnd`. A deletion looks in the inbox, then, under the mutex again, in the
outbox. Messages carry a `name` besides their `id` so that properties can tell
them apart when ids cannot. Statuses and texts are left out, `ListRoom`
messages stand for `JSON_BUF_SIZE` bytes, and the wrap of the 32-bit counter is
not modelled. The boxes hold `Max` messages in place of 50.

### OtaUpdate

One action per step of `ota_task` that another task, the client or a power
failure can tell from the next. Each failure exit is an action of its own
(`ClientInitFails` to `SetBootFails`), which gives back what its own branch of
the code names: `holds` counts for each task and resource (HTTP client, OTA
handle, buffer) how often it was acquired less how often it was released, so a
branch that forgets one or frees one twice shows. `ota_update_start` ignores
what `xTaskCreate` returns (ota_update.c:129); `Start` may therefore leave the
task "refused" and the status "starting". `flash` has the chunks of both
partitions; `esp_ota_begin` with `OTA_WITH_SEQUENTIAL_WRITES` does not erase
the partition first, so what was there stays behind what is written, and a lost
connection ends the download loop like a complete one (line 80); `End` is
`esp_ota_end`, which refuses an image that fails verification. `PowerLoss` may
happen between any two steps; after it, and after `Restart`, RAM is as in the
beginning and flash is as it was.

The verification of an image is abstract: content passes if every chunk is of
one image. A download that is cut short over an older copy of the same image
therefore passes, as it should.

### Network

`app_main` from `eth_init` on; `Take` is the event loop, which runs one handler
at a time; a handler that sets or clears the bit does so in its first step and
starts or stops the MQTT client, and for WiFi the retry timer, in its second
(`ClientUp`, `ClientDown`), because `app_main` and the watchdog can run in
between. The world plugs and unplugs the cable and lets the station join, fail
and lose its access point; each change posts an event, so the handlers run
behind what happened. `Watchdog` is one turn of the watchdog's loop; turns are
counted in place of seconds (`RebootAfter` turns of 60 s). Loss of an address
without loss of the link (an expired lease) is not handled by `main.c` and
left out. The MQTT client is
`NULL`, stopped or started; a client that runs may refuse to be started again.

### MqttGateway

Four tasks run the code of `mqtt_gateway.c`: the client's own task (the event
handler), the event loop (start and stop), the timer task (the status timer)
and the modem's reader (`publish_inbound`, called by `on_sms_received`). What a
task has still to do is the list `todo[t]`: publications (`pub`), then waits
for the client's lock (`enqueue`), calls to the modem, and start or stop. An
event sets the list to what the handler's code will do (`Connected`,
`Disconnected`, `NumberSet`, `MessageSet`, `SendButton`, `SendJson`), and `Act`
does one step of it, so any other task can act between two of them. A
publication that finds `s_connected` false is dropped with no trace, as in
`pub`; a number is formatted when `pub` is called and not when the lock is had
(`Formatted`).

External: esp-mqtt dispatches an event with its API lock held and
`esp_mqtt_client_publish`, `_start` and `_stop` wait for it, so `LockFree` is
that the client's task has nothing to do. A publication goes to the connection
if there is one and room in it (`WireRoom`; else the caller waits, lock held
or not), or is kept in the outbox (`OutboxRoom`) and sent again after a
reconnection. The broker keeps the last publication of each topic, takes what
it is sent in order until the session ends, and publishes the will when it
gives a silent client up (`SessionExpires`). Topics outside `Watched` leave no
trace, which makes two small runs of one large one. The broker outlives the
gateway, whose counters are in RAM only: at the start it may have kept the
status and the counts of an earlier start (`Earlier`, with `EarlierCount`
messages counted then), and that start's session may still be open, so that its
will is published during this one. What an earlier start left under the
discovery topics and the send status is not modelled. The four subscriptions
(mqtt_gateway.c:91-101) are left out, as the broker's part in them is to
deliver commands, which it may do at any time. The text of a discovery
payload is one word, `config`; what is kept of it is the order and the moment,
`Entities` and `Automations`.

### GwConfig and Webhook

`GwConfig` has one step per flash operation: `FlashErased` (app_main's
`nvs_flash_erase`), `Load`, or `LoadFails`, where the namespace or some keys
cannot be read and keep their defaults (config.c:30, 51-53), `KeepKey` or
`GenerateKey`, which writes a new API key over the old one if that could not be
read, `Post` (a copy of the configuration is changed and assigned), `SaveKey`
for each of the nine keys in the order of config.c:86-94, `SaveEnd`. Any read
and any write may fail without notice (`failed` has the writes of one save);
power may fail between any two. `promised[k]` is what clients may find under a
key, from what they were told; no code reads it.

`Webhook` extends it: `Arrive` (the message is in the store), `SendDisabled` /
`SendEnabled` (webhook.c:78-84), then `SendQueued`, `SendDropped` or, before
`webhook_init` has made the queue, `SendToNull`, in which the assertion of
`xQueueSend` restarts the device. The worker is `WorkerReceives`,
`WorkerChecks` (the configuration is read again), then `WorkerPosts`, where
`esp_http_client_perform` returns `ESP_OK`, or `WorkerFails`, where it returns
an error that is logged and the message is given up (`undelivered`;
webhook.c:55-61), or `WorkerNoClient`, where the handle of a URL that cannot be
parsed is used and the device restarts. A restart of any cause is one of both
modules. That the queue and the worker can be created (webhook.c:71-72) is
assumed, as of every task and lock that is created once, at start-up.

`MessageQueue` is what all this looks like to somebody who only counts
messages: `Accept`, `Post`, `GiveUp` (the one request for a message failed),
`Withhold` and `Restart` on one sequence, with room
for one more than the FreeRTOS queue. `Webhook` instantiates it with
`Backlog`, the message in the worker's hand before those in the queue, and
`ImplementsQueue` says that it is one.

### WebSocket

The httpd task serves one request at a time and between two of them accepts
(`Accept`) and closes (`Close`) connections; a descriptor that is closed may be
accepted again, as a WebSocket or not. `ws_add` looks at one slot after another
(`AddLooksOn`, `AddTakes`, `AddFindsNone`). The reader's broadcast is
`CastBegin`, then for each slot `CastSkips`, `CastReaches` or `CastFails`
followed by `CastRemoves` (`ws_remove`, which searches for the descriptor), and
`CastEnd`. `session` names the connection a descriptor has now; `seated`,
`audience`, `vacant`, `heard` and `dropped` record what happened for the
properties. A send to a closed descriptor fails; one to an open connection may.

### TcpLog

`Vprintf(t)` is the log hook of task `t`: the mutex is taken (`PushTakes`) or
the line is not kept after 10 ms (`PushTimesOut`), the line is written, and
then `s_client_sock` is read three times: it is tested (`Look`), read for
`send` (`Load`), and read again to be closed (`HookCloses`) and cleared
(`HookClears`). `tcp_log_task` is `Accepts`, `ReplayTakes` / `ReplayTimesOut`,
`ReplaySends` line by line with the mutex held, `ReplayGives`, `Sets`,
`RecvEnds`, `Clears`, `Closes`. `Shut` closes whatever connection the
descriptor has by then. `history` and `stream` record what was pushed and what
each monitor was sent. The task's own log lines, the listening socket's set-up
and the descriptors of other components are left out.

## 3. Runs

| Run | Question | Bounds |
|---|---|---|
| `AtDriver` | Is a success this call's own, does every call return, is the serial line used as `SerialLink` says, also among lines of messages that look like answers? | a sender and a poller, 2 calls, 1 inbound message of two lines, one that looks like a prompt and `OK`, 3 lines of response, slow modem |
| `AtFast` | What more holds if the modem is never late, and are inbound messages handed over in order, up to one that is not plain? | 2 senders, one of them also a poller, 2 calls, 5 lines of response, 2 unasked arrivals out of 2 messages (one has a second line that begins with +CMT:, one with +CREG:) and +CREG lines |
| `Store` | Are ids unique, does a deletion hit what was listed, is a listing complete? | boxes of 2, 4 additions by 3 tasks, one of which numbers bare; listings of 3 |
| `OtaUpdate` | Is an update safe against power loss at any step, does each exit give back what was acquired, and does an update that has a task end? | 2 urls, 2 chunks, 3 updates, 3 restarts; the client waits for the last update to end, a task may not be created |
| `Network` | Is the bit right, is nothing forgotten, does it recover? | 3 waiting events, a restart after 5 samples (as in the code), 5 retries with different delays |
| `MqttSend` | Commands, inbound messages and the timer contend for lock and modem: is what is reported true, does "sending" end? | 3 commands (the button sends only after number and text have been set), 2 messages, no break, an earlier start that counted 2, `send_status` and `received_count` watched |
| `MqttReconnect` | Is "online" shown on a connection that is there to stay, and does Home Assistant have the truth after broken connections? | 2 losses, 1 message, an earlier start that counted 2, `status` and `received_count` watched |
| `Webhook` | Is what was saved kept, is what happens to messages what `MessageQueue` allows, and is the queue emptied? | 2 varied keys of all nine, 1 request, 1 power failure, 1 flash fault, a queue of 2, 4 messages, one URL that does not parse; any request may fail |
| `WebSocket` | Does a browser keep its slot and get the message while descriptors are used again? | 3 descriptors, 2 open at once, 2 slots, 4 connections, 2 broadcasts |
| `TcpLog` | Is the ring the history, is the stream in order, does logging go on? | 2 tasks, 3 lines, a ring of 2, 2 descriptors, 2 monitors |

The exact constants are in the `.cfg` files. They are enough because what can
go wrong needs little: two calls for a confusion of answers; boxes and rings
of two to have an oldest entry, a newest one and an eviction; two messages for
an order, and a spoilt one before or behind a plain one; two chunks for a
download that is cut; two waiting events for a handler that acts on what is no
longer so; a queue of two and four messages for one in hand, two that wait
and one too many; a third connection, on a descriptor that was used before,
beside one that stays; one lost network and one broken connection for the will
of one session and the outbox of another. A `WireRoom` of one makes every
second publication wait, which is what holds the lock for long. The theorems of
section 5 carry the safety properties to all sizes, and `NeverBricked` and
`NothingKept` to clients that ask at any moment.

Deadlock is not checked where the bounds end a behaviour: calls, additions,
updates, connections, lines and requests run out. `Network` and `MqttGateway`
never stop, and are checked.

Runs that are expected to find a violation; each is a finding with its lines in
`PROJECT.json`:

| Run | What the code does |
|---|---|
| `AtOwnAnswer` | the answer is read after the mutex is given back (a7670e.c:409, 411); a sent message is reported as failed |
| `NetModemOnly` | "modem-only mode" (main.c:279) is never reached: `app_main` waits for WiFi for ever |

The properties that hold are stated for what is true, and their conditions say
where it ends:

* `SuccessNeedsFreshOk` says that a success rests on an OK stored after
  `at_response` was cleared for the text, and no more: with a modem that is late
  it may be the answer to an earlier command, stored even before the text is
  written.
* `InboundFaithful` and `InboundDelivered` end at the first message that is not
  `Plain`. Empty lines are skipped (a7670e.c:118), so an empty body is followed
  by somebody else's line; a first line that begins with `>` is taken for the
  prompt; and a later line that begins with +CMT: makes the reader hand over a
  message nobody sent and take the next message's header for its body
  (a7670e.c:125). Later lines are not part of the message that is handed over;
  in `AtDriver` one is captured as part of an answer, and ends it.
* `NoStaleToken` and `NoCrossedSms` are for a modem that is not late:
  `at_response_sem` is not emptied before a command, and a modem that is still
  in text mode takes the next command for text.
* `UniqueIds` and `DeleteHitsTarget` hold until the MQTT task's
  `sms_store_next_id` outside the mutex (mqtt_gateway.c:186, 232) puts the
  counter back (`setback`); then two messages can share an id.
* `OtaUpdate` is checked for a client that waits for the end of one update
  before it asks for the next. The code does not insist: a request between
  "starting" and "downloading", or after "success", starts a second task
  (ota_update.c:123).
* `UpdateEnds` is about updates that have a task. If the task cannot be created
  the status stays "starting" until somebody asks again; nobody is told.
* `BitSound` says that a set bit is not left behind by the network. It does not
  exclude that the bit is cleared while the other interface is up.
* `ReportsTrue` is about what was published since this start. Until the first
  connection of it Home Assistant sees the counts of the start before, which are
  in general larger.
* `OnlineMeansMqtt` says `boot = "ready"`: an address that comes between
  mqtt_gateway.c:663 and 671 makes the event loop start the client first, and
  if the second start is refused, `ESP_ERROR_CHECK` restarts the device
  (`Abort`). It is about what `Network` keeps of the client, and says nothing
  of the connection, which is `OnlineTold`.
* `SendReported` is for a connection that was not broken: "sent" and "failed"
  are not published without one, and the status stays "sending".
* `OnlineShown` is about moments when nothing is left to be sent and the event
  loop is not about to stop the client. Before that the broker may show
  "offline": the will of the session before is published when the client comes
  back.
* `OnlineTold` and `CountsCatchUp` are about a connection that lasts in the
  end. In between the broker may be told an older count after a newer one, as
  two tasks publish it, each with the number it formatted earlier.
* `ConfigKept` speaks of each key by itself: a power cut during a save leaves
  old and new values side by side. A key of which a write failed may keep its
  old value, though the client is told of success (config.c:86-94), and one that
  could not be read at a start has its default until the next.
* `NothingLost` and `ImplementsQueue` know three ways for an accepted message
  not to be posted: a restart takes all of them, the configuration withholds
  one, and the one request made for it fails (webhook.c:55-61), which gives up
  that message only.
* `SeatKept` is for a browser no send has failed to; a browser that connects
  while stale entries fill the table gets no slot, until the next broadcast
  clears them (`StaleCleared`).
* `StreamInOrder` is for the first monitor on a descriptor. A later one can
  hear a line of a task that read the descriptor before.

## 4. Fairness

* `AtChannel!Fairness`: every task that can run does (FreeRTOS schedules by
  priority, and all of these block), a bounded wait ends
  (`xSemaphoreTake` with a timeout), and a task queued for the mutex gets it if
  it keeps being given back (strong fairness on taking it: FreeRTOS wakes the
  longest waiting of the highest priority). Nothing is assumed of the modem or
  the network, which may stay silent for ever.
* `OtaUpdate!FairSpec`: an `ota_task` goes on, as each of its blocking calls
  has a timeout. Power need not fail.
* `Network!FairSpec`: `app_main`, the event loop, the timer task and the
  watchdog run, and the WiFi driver reports how an attempt to join ended.
  Nothing is assumed of cables and access points.
* `MqttGateway!FairSpec`: strong fairness for each task's next step and for
  the event loop's stop, because they wait for the client's lock, the modem's
  mutex or room on the connection, which others take and give back; the client
  library reconnects, notices a break and sends what it kept; the broker reads;
  the 60-second timer fires. The modem need not answer: the driver's timeouts
  are steps of the waiting task.
* `Webhook!FairSpec`: start-up gets to its end, reader and worker run (the HTTP
  client has a timeout of ten seconds). Neither power nor flash need fail.
* `TcpLog!FairSpec`: a task that logs runs, weakly. Nothing is asked of
  `tcp_log_task`, which waits as long as a monitor takes nothing; it is the
  timeout of 10 ms in `ring_push` that lets logging go on.
* `SmsStore` and `WebSocket` have no liveness property, and no fairness.

## 5. Proofs

For all values of the constants, under the named assumptions of each module
(`TaskAssumption`, `SizeAssumption` etc.: distinct model values, positive
sizes, keys no client sets to the word for "not written"); a theorem that needs
more says so with an `ASSUME` of its own:

* **Driver** (`AtChannelProofs`). `TypeCorrect`. `Discipline`:
  `SessionDiscipline` is inductive given the types; each way through `send_sms`
  and `at_cmd` is one case. `Serialised`: the strengthening is `CallNamed` (the
  call of a task is one that was made) and `PromptPending` (while a task is at
  the prompt, the last thing on the wire is the AT+CMGS of its call), which
  needs `SessionDiscipline` to know that nobody else writes. `FreshOk`: the
  strengthening, `OkIsFresh`, says that from `SendClear` on an OK in
  `at_response` while the task has the mutex was stored after the buffer was
  cleared; the call that returns needs it even after the mutex is given back.
  `Refinement`: each step of the driver is a step or a stutter of `SerialLink`
  under `owner = at_mutex`. `InboundInOrder` (each message is handed over once,
  in the order of arrival, with its own first line, up to the first that is not
  `Plain`) holds for bodies of every kind of line. Its invariant, `InboundInv`,
  names the number `n` of messages before the first that is not plain: those of
  them that were handed over are right (`Faithful`), and the reader is among
  their lines (`Follows`) or past all of them. `Follows` names a function `h`
  from the messages still owed to the places of their headers in the UART
  (`Headers`): it grows with the order of arrival, behind each header is that
  message's first line, and up to the last line of message `n` nothing else can
  be taken for a header. What comes behind, be it spoilt, is not looked at.
  Answers that join at the end leave `h` as it is; lines read from the front
  shift it. `TokenIsOwn` and `SmsNotCrossed` assume `FastModemPlainBodies`: the
  modem is not late (`SlowModem = FALSE`) and no line of a body ends a
  response, as either lets an answer reach another call. `AnswerInv` follows
  what can end a response: at most one is under way, unread, in the UART, with
  the reader or in the semaphore (`OneAnswer`); none is unless a call waits
  (`Quiet`); what the modem reads next is the waiting call's (`ItemIsOwn`), and
  it is in text mode for that call only (`TextModeIsOwn`).
* **Store** (`SmsStoreProofs`). `TypeCorrect`, with an invariant that a writer
  in the middle of an addition has made room. `IdsUnique` and `DeleteHits`
  (`IdInv`): until the counter is put back, stored ids are below it, the one
  being assigned is not used yet, and a request or a listing that has a message
  under an id is the only one that ever had it. `ListingsComplete` and
  `ListingsInOrder` (`ListInv`): a message that was in the box when the listing
  began and still is has been shown or is below the index that is read next,
  because evictions move messages towards the beginning and the loop runs down;
  these hold with bare callers too.
* **Updates** (`OtaUpdateProofs`). For all clients: `Bootable`, as the running
  partition is whole and no task's target, and `Released` from `Accounted`:
  which of client, handle and buffer a task has is decided by where it is, so
  every exit must name exactly these. `BootAlwaysWhole`, `BootsTheRequest`,
  `StatusTold` assume `Patient`: one update at a time, whose target's first
  chunk, once written, is of the image asked for, so that a verified image is
  that image. `StatusTold` says no more of "starting" than that the last
  request's task has not run or was never created.
* **Supervision** (`NetworkProofs`). `BitRight`, `RetryNeverLost`,
  `MqttFollows`, `OfflineRight`. None of the properties is inductive: handlers
  run behind the interfaces, so the invariant `IInv` says what the waiting
  events will make of the bit (`BitLasting`) and that an announced address that
  is not taken back is there (`EthTold`, `WifiTold`). `OfflineRight` (on a board
  without Ethernet a clear bit means that there is no network) adds that
  a WiFi address is in the bit or announced (`WifiAlone`).
  The lemmas `AppendFacts` and `TailFacts` say what posting and taking an event
  do to these statements about the queue.
* **MQTT** (`MqttGatewayProofs`). `TypeCorrect` and `ReportsAreTrue` from `Inv
  == FlagInv /\ ListInv /\ PipeInv`: every publication on the wire, in the
  outbox or kept by the broker is true (`PipeInv`, which excepts what an
  earlier start left there), every step that waits in a task's list would be
  true if it were published now (`TodoInv`: a "sent" is put there only after
  `s_sent_count` has grown, a formatted count is not ahead), and counts never
  shrink (`TruthLasts`), so truth survives delay and repetition. `MutexInv`
  says that the task with the modem's mutex waits for its answer. The type
  invariant says so too, and `WaitsEnd` needs no more: of three waits in a row
  one would be for a task that waits for nobody, so no tasks wait in a circle
  for the client's lock and the modem's mutex. `ConnectionIsUsed` (on a
  connection the event loop is not about to stop, `s_connected` is true, so
  `pub` drops nothing there) and `OnlineIsShown` come from `OnlineInv`: while
  the broker does not show "online", a publication of the status is in the
  outbox, on the wire or in the handler's list (`Carries`), and all of those
  are "online" (`PlainInv`), as only the will says "offline". A broken
  connection moves it to the outbox, or the next `MQTT_EVENT_CONNECTED` starts
  again.
* **Configuration and webhook** (`WebhookProofs`). `ConfigSafe` from `Covered`:
  what a restart would load of each key, stored value or default, is promised;
  while a save is under way, so are the old and the new value, and the default
  of a key that could not be read. `NoneLost` and `InOrderOnce` from `Holding`,
  `InLine` (posted or given up, in hand, queue, about to be queued: in this
  order, every name is smaller than the next) and `OnePlace` (a message is
  posted, given up, under way or excused, and only one of these).
  `QueueImplemented` (`Spec => ImplementsQueue`): from the same invariants,
  each step of reader, queue, worker, configuration, flash and power is a step
  of `MessageQueue` or leaves its four variables alone; a request that fails is
  `GiveUp`. `BacklogFacts` says how `Backlog` moves: receiving a message does
  not change it.
* **WebSocket** (`WebSocketProofs`). `SeatsKept` from `SecondSeat`: while
  `ws_remove` looks for a descriptor that is meanwhile a connected browser's
  again, there is a second entry of it. `BroadcastsReach` from `Reach` (who was
  there from the beginning and has not been sent the message is in a slot
  still to come), `BroadcastsClear` from `Behind`. `OnlyStaleTurnAway`, an
  action property, by a pigeonhole lemma (`Pigeons`) over finite sets.
* **Log stream** (`TcpLogProofs`). `RingCorrect` from `RingInv`: the entry `i`
  places after the oldest is the line `i` places after the oldest that is kept
  of the history, with the arithmetic of `%` in `Modulo`. `ReplaysAreRuns` from
  `RunInv`: while the replay holds the mutex nobody writes, so what was sent is
  the part of the ring up to its index. `StreamsInOrder` from `StreamInv`: only
  the client of `tcp_log_task` is connected (`OneClient`, `OneName`); before
  `s_client_sock` is set, the first monitor on a descriptor hears nothing live
  (`Before`), and from then on a task that can send to it has sent it all that
  it logged since its first line there (`InStep`).

Some of these are not checked by a run as well, because a run of the same
module already checks a stronger or a sibling property: `Discipline`,
`Serialised`, `ListingsInOrder`, `BootAlwaysWhole`, `StatusTold`,
`RetryNeverLost`, `OfflineRight`, `WaitsEnd`, `ConnectionIsUsed`, `ConfigTypes`,
`HookTypes`, `InOrderOnce`, `OnlyStaleTurnAway`, `ReplaysAreRuns` and the types
of `OtaUpdate`.

Every invariant a passing run checks, and the refinement of `MessageQueue`, is
stated by a theorem. Only model-checked is what holds under fairness:
`CallsReturn`, `ImplementsLink` beyond its safety part, `InboundDelivered`,
`UpdateEnds`, `OfflineEnds`, `WifiRetried`, `SendReported`, `HandlersEnd`,
`OnlineTold`, `CountsCatchUp`, `QueueDrains` and `LoggingReturns`, which is out
of the prover's reach.

## 6. Not modelled

* Formatting and bytes: JSON, discovery payloads, the web page, log texts, and
  with them two hazards: the arithmetic of the listing's buffer (rest_api.c:107;
  an entry can be longer than the 200 bytes that are kept free) and the length
  `vsnprintf` returns (tcp_log.c:65). A configuration string is read as a whole
  in the model; in the code another task may read it while it is overwritten
  (config.c:81).
* HTTP authentication and CORS, TLS, mDNS, GPIO and UART set-up. The web page's
  delete button sends no Authorization header, and the httpd configuration sets
  no `uri_match_fn`, without which the handler registered for `/api/sms/*`
  matches that very path only; deletions in the model are those the handler
  would serve.
* `modem_power_on` and `modem_setup` (a7670e.c:221-337): one caller, before any
  other task can send a command; what it sends once and does not check is a
  hazard listed without a property. `sms_store_inbox_mark_read`,
  `sms_store_*_clear`, `a7670e_delete_sms`, `a7670e_reset` and
  `web_server_stop` have no callers.
* `s_discovery_done` is in `MqttGateway`, but no property holds of it: a
  connection that breaks during the first discovery leaves entities unknown
  until the next restart (mqtt_gateway.c:104).
* The wrap of 32-bit counters; times, beyond which wait has a bound and which
  has none; the MQTT user and password are keys of `GwConfig` no request can
  set (rest_api.c:177-185), and `wifi_max_retry` is not kept in NVS.

What could follow: a byte-level module of `sms_to_json` and the listing's
buffer; `modem_setup` against a modem that is not ready; the
composition of `MqttGateway` with `AtChannel`'s callers in one instance.
