# A TLA+ model of roq-proxy-fix

roq-proxy-fix is one process between many FIX clients and one FIX bridge. Clients
log on with a username and a password; the proxy logs on to the bridge once, asks
it for a *route* per client, passes the clients' requests on under ids of its own,
and sends each answer back to the client it belongs to. All callbacks (a timer
tick every 100 ms, bytes from a client, bytes from the bridge, a connect, a
disconnect) run to completion on one event loop. So nothing runs in parallel, and
what is hard is the *order* in which the callbacks come: an answer of the bridge
may arrive after its client died, after the user is back on another connection,
after the request was unsubscribed, or never.

Source paths below are relative to `src/src/roq/proxy/fix/`.

## 1. Inventory

| component | state | operations | talks to | module |
|---|---|---|---|---|
| `client::Session` (client/session.cpp) | state machine WAITING_LOGON → WAITING_CREATE_ROUTE → READY → WAITING_REMOVE_ROUTE → ZOMBIE; username, party id; deadlines; sequence numbers | one handler per FIX message from the client; one per answer; timer; disconnect | Shared (registry), Controller (requests, `Disconnected`) | UserRouting (life cycle), Wire (messages) |
| `client::Manager` (client/manager.cpp) | `sessions_`, time of the next garbage collection | accept, timer, `find`, `get_all_sessions`, `remove_zombies` | sessions | UserRouting |
| `Shared` (shared.cpp) | credentials; `username_to_session_`, `session_to_username_`; `next_request_id`; sessions to remove | `add_user`, `remove_user`, `session_logon_helper`, `session_remove_helper`, `session_remove`, `session_cleanup` | used by sessions, manager, auth | UserRouting |
| `Controller`, users (controller.cpp) | `ready_`; `subscriptions_.user`: four maps | `UserRequest`, `UserResponse`, `Disconnected`, server `Ready`/`Disconnected` | both sides | UserRouting |
| `Controller`, request mappings | `Mapping`: `server_to_client`, `client_to_server`, one per kind of id | `find_req_id`, `add_req_id`, `remove_req_id`, `clear_req_ids` | – | ReqIds |
| `Controller`, reference and market data | `security_req_id`, `security_status_req_id`, `md_req_id` | 4 requests, 6 answers, business reject | both sides | Subscriptions |
| `Controller`, positions | `pos_req_id`, `total_num_pos_reports_` | request, acknowledgement, report | both sides | Positions |
| `Controller`, order entry | `cl_ord_id`, `cl_ord_id_.state` | new, replace, cancel; execution report, cancel reject; broadcast by the party's route | both sides | Orders |
| `Controller`, order status, mass status, mass cancel, trade capture | `ord_status_req_id`, `mass_status_req_id`, `mass_cancel_cl_ord_id`, `trade_request_id` | 4 requests, 5 answers | both sides | Queries |
| `server::Session` (server/session.cpp) | DISCONNECTED, LOGON_SENT, READY; sequence numbers; heartbeat | connect, logon, disconnect, one handler per answer | Controller | UserRouting (connection), Wire (messages) |
| `auth::Session` (auth/session.cpp) | its own connection | user inserted, user removed | Shared | UserRouting (its effect) |
| FIX bridge | outside the repository | – | server::Session | external, in every module |
| `client::Listener`, `Config`, `Settings`, flags, `tools::Crypto`, `Application`, `Error` | none that changes | start-up, I/O, password check | – | not modelled |

Behaviours that are hard, and what makes each component correct:

* **Logon.** Three tables speak of one session: Shared's registry, the Controller's
  routes, and the session's own state. A session can die in every state and in a
  dozen ways (bad message, deadline, disconnect, loss of the bridge, an exception
  halfway through a logon). Correct: a user is logged on at most once; the registry
  holds exactly those that are logged on; a READY session owns its route; when the
  bridge goes, everybody goes; every wait ends.
* **Request ids.** The same client id may be used by many clients and many times.
  Correct: the two directions of a mapping agree; a session that died leaves nothing;
  an answer reaches the client that asked; a request that is over is forgotten.
* **Late answers.** The bridge is not told of most disconnects. Correct: a late answer
  neither reaches somebody else nor disturbs the user's next session.
* **Orders.** An order outlives its session. Correct: reports reach the session that
  the user has now; a request that awaits its answer stays on record through fills
  and other requests on the same order; completed orders are forgotten, until somebody
  asks for their status.
* **Messages.** What a session writes must fit what has become of it, whatever came
  first: a conversation starts with a Logon and ends with a farewell; what a client is
  told of its route is so; the bridge never sees a request of a party that it does not
  have logged on; the numbers on its connection start again with each connection.
* **Counters and limits.** `total_num_pos_reports_` is shared by all clients.

The full list, at its source lines, is under `hazards` in PROJECT.json.

## 2. Modules

    LogonService            what a client may rely on about being logged on (abstract)
      ^ refined by UserRouting  <- ServiceProofs
      ^ extended by RequestService: and about their requests (abstract)
          ^ refined by Subscriptions, Positions, Orders, Queries, whose sessions it moves
    UserRouting  <- MCUserRouting, UserRoutingProofs
      ^ extended by Wire  <- MCWire, WireProofs
    ReqIds       <- Subscriptions, Positions, Orders, Queries  <- MC...
      ^ ReqIdsProofs  <- SubscriptionsProofs, PositionsProofs, OrdersProofs, QueriesProofs

**UserRouting** is the core: client sessions, manager, registry, routes and the
connection to the bridge in one module, because a single handler changes all of
them. `state[s]` is the session's `state_` (`ABSENT` when no object exists);
`username_to_session`/`session_to_username` are Shared's; the record `user` holds
the four maps of `subscriptions_.user`. One action per handler: `Logon`,
`LogonRejected`, `LogonNotReady` (the Controller throws halfway), `Logout`,
`Heartbeat`, `TestRequest`, `ResendRequest`, `Reject`, `BusinessRequest`,
`ClientDisconnected`, `UserResponse`, `ServerConnected`, `ServerLogon`,
`ServerDisconnected`, `Timer`, `remove_zombies`, `Accept`, `add_user`,
`remove_user` (both of auth's, `AuthStep`). `credentials[u]` is the strategy that auth or
the configuration gave `u`, `party_id[s]` the one that `s` logged on with. Whatever a handler calls is inside its action: `make_zombie` is the
session's death together with the Controller's `Disconnected` (release of the
route, LOG_OFF to the bridge) and Shared's `session_remove_helper`. A `log::fatal`
sets `fatal`, and nothing happens after it.

**Wire** extends UserRouting by the messages that the proxy writes: `to_client[s]` is
what was sent to session `s` since its object was made, `to_server` what was sent on the
present connection to the bridge, with `outbound_.msg_seq_num`. Each of its actions is an
action of UserRouting together with what the handler sends on the way, or a handler that
changes nothing and sends: a client's TestRequest is answered, a request is refused or
passed on, a message of an unknown type is refused, an answer of the Controller's reaches
its client, pings go to and fro. What arrives is the action that reads it. A step sends
at most one user request, the one that it adds to `pending` (`SendIfUserRequest`); a
session that dies says farewell only in the states in which the handler does
(`FarewellIn`). `comp_id` holds the sessions whose `comp_id_` is set. `logout_read`
only records that the bridge's Logout was read. Every step of Wire is a step of
UserRouting or leaves it alone (`WireImplementsUserRouting`), so that UserRouting's
invariants hold in it too.

**LogonService** is what the request modules need to know of all that: a session is
new, joining, active, leaving or done; a user is held by one session at most; only
while the bridge is up does anybody get in. `UserRouting!ImplementsLogonService`
states that UserRouting implements it (`Phase` is the refinement mapping). The
request modules then use LogonService's actions in place of UserRouting, so that
their state spaces stay small and sessions still come and go at any moment (`Service`,
which is RequestService, has them too).
"active" is READY; "leaving" is WAITING_REMOVE_ROUTE, in which a session drops what
it is sent (`ready()` is false) and dies of any request.

**RequestService** adds what a client may rely on about its requests: under which ids
they are on record. An active session gets a request on record that it does not have
there yet, under an id that nobody has (`Record`); one that is over goes (`Forget`);
when sessions are done, what they have on record goes, that and nothing else
(`ComeAndGo`). Entries are never altered. The request modules show `record`, whose
request each id stands for, of each of their mappings (in Queries without the requests
that have no id), and implement it: `ImplementsRequestService`. It does not say which
step ends a request; that is for the modules' own invariants.

**ReqIds** is `Controller::Mapping` and its four helpers, as operators on a record of
two functions. An absent `client_to_server[session]` and an empty one are not told
apart, as no code does.

**Subscriptions**, **Positions**, **Orders**, **Queries** have one action per handler
of the Controller for a request, an answer, and a death. Ids are `1, 2, ...` where
`Shared::create_request_id` makes them, and pairs `<<user, client id>>` where
`create_request_id(client_id, cl_ord_id)` formats them from the party and the client's
id (the formatting is injective: the client's id is checked to be Base64; a party stands
for one user here). In Subscriptions, Orders and Queries a variable of its own
(`answer`, `stray`, `astray`) observes what the last step did with an answer; the
guards never read it, nor the observation fields in the bridge's records (`session`,
`req_id`, `unique`, `alone`).

**Orders** also has `route`, which is `subscriptions_.user.client_to_session`: reports
are broadcast to whoever has the route of the party they name, whereas rejects go by the
record of their request. A session that is admitted binds the route of its party
(`user_add`); while it is bound nobody else joins under that party (`user_is_locked`); a
death or the loss of the bridge releases it. A session that dies while it waits for the
bridge's answer may get the route all the same (first finding below); a report is then
broadcast to a session that is gone, and to nobody. `state` is the key set of
`cl_ord_id_.state` with all its writers: reports on requests and orders, and the reports
that answer order status and mass status requests (`ReportStatus`), which enter the id
they name even if they say that there is no such order. `denied` observes the ids that
were entered like that. Whom those reports are passed on to, and their own mappings, are
in Queries, which keeps what they write apart.

Operators whose comment starts with *Fault:* are not part of the specifications. Each
is a plausible slip in the operator that follows it (one of two maps is not cleaned,
a guard is dropped, a counter is not reset). With the slip in place TLC finds the
property that PROJECT.json lists for it violated, so every property is known to have
teeth.

### The bridge

The bridge is outside the repository and is modelled from what the code expects of it:

* It answers user requests oldest first and once each: LOG_ON by LOGGED_IN,
  NOT_LOGGED_IN or another status; LOG_OFF by NOT_LOGGED_IN or another status.
* It answers other requests in any order, a subscription any number of times. It may
  refuse any request with a BusinessMessageReject.
* When the connection is lost, so is everything on the wire, and it forgets the
  requests. Orders stay.
* In Orders an order's id is never used for a second order, and a request is carried
  out only while its order is open; an answer to a PENDING request may also be a
  rejection. A report names the party of the id it is about. Asked for a status, the bridge
  says that there is no such order, or reports one that is not complete, or a request that
  it has not finished: this is what the assertions of the handler (controller.cpp:592-596,
  614-618) take for granted. In Queries an order status report is about an order of the same user.

## 3. Runs

Sizes are distinct states; all runs finish in under three minutes on two cores.

| run | question | instance | result |
|---|---|---|---|
| `logon_safety` | Do registry, routes and session states stay consistent, also if two users can be given one strategy? Is the proofs' invariant one? | 2 users, the first moved between 2 strategies of which one is the second's, 3 connections, 5 user requests | holds, 1 666 962 |
| `logon_service` | Do waits end? Are silent clients dropped? Is LogonService implemented? | 2 users, 2 connections, 6 user requests, fairness | holds, 55 044 |
| `messages` | Does what is written fit the states of sessions and bridge? | 1 user, 2 connections, 5 user requests; 1 message per client besides Logon and farewell, 1 client request per bridge connection | holds, 1 316 950 |
| `subscriptions` | Reference and market data | 2 users, 2 connections, 1 client id, 3 requests | holds, 531 276 (with symmetry) |
| `positions` | Positions, one at a time | 2 users, 2 connections, 1 client id, 3 requests, 2 reports | holds, 54 228 (with symmetry) |
| `orders` | Order entry | 2 users, 2 connections, 2 client ids, of which 2 are in use at a time; 2 requests at a time | holds, 317 685 (with symmetry) |
| `queries` | Status, mass cancel, trade capture | 2 users, 2 connections, 1 client id and the empty one, 2 requests at a time | holds, 136 613 (with symmetry) |
| `route_held_by_dead`, `unsubscribe`, `positions_counter`, `orders_final`, `server_logout` | see Findings | as the run above them | violated |

**What the properties say.**
*logon_safety:* `RegistryExact` – registered are exactly the sessions between logon
and death, whichever way they die. `RoutesInverse`. `ReadyOwnsRoute` – no late
NOT_LOGGED_IN for an older session takes the route of a newer one, when the strategy is
one that only this user can be given (`Sole`).
`BridgeDownDropsSessions`. `OnlyUserAddAborts` – of the five `log::fatal` on this path
only one can be reached (see Findings). `IInv` – section 4; it is what fails if a session
that logs off names the strategy its user has now, not the one it logged on with.
Two users who share a strategy take the route from each other: of `ReadyOwnsRoute`, and of
`IInv`'s parts about the requests of one party, there remains what speaks of `Sole`
parties. But registry and maps stay right, no live session holds a party that is not its
own, and no other `log::fatal` is reached.
*logon_service:* `WaitingEnds`; `SilentClientsAreDropped` – a client that stops talking
is READY no longer some time, whether or not the bridge answers; `ImplementsLogonService`.
*messages:* `FarewellIsLast` – nothing follows a Reject, a Logout or the answer to the
client's Logout, whatever is still buffered, due, or on its way from the bridge.
`LogonComesFirst` – one Logon, and no answer, ping or confirmation before it.
`ClientsAreToldTheTruth` – with its Logon a client has the route; with an answer it
still has it, and with the confirmation of its Logout no request for it is outstanding,
both if no other user can be given its strategy; with that confirmation nobody has it. `LinkStartsWithLogon` – each connection to the bridge starts with a Logon
numbered 1, has no gap, and carries only Heartbeats until the bridge has answered.
`RequestsAreRouted` – a request follows a LOG_ON of its party on the same connection,
with no LOG_OFF in between (of a `Sole` party), however the lives of two sessions of the
party overlap.
*all four request runs:* `ImplementsRequestService` – a request gets on record only for an
active session that does not have it there, under an id that is free; no entry is altered;
a death takes off all of its session's requests and nobody else's, any other step at most
one.
*subscriptions:* `MappingsPaired`, `AnswersArrive`, `SnapshotsEnd`, `NoOrphanStream` – the
bridge streams market data to nobody who is gone. Market data only: a death unsubscribes
what is in `md_req_id`, and leaves security list, security definition and security status
subscriptions with the bridge (controller.cpp:795-796, "subscriptions not yet supported");
their later answers find no record and are dropped, as `AnswersArrive` and
`ImplementsRequestService` say.
*positions:* `PositionsPaired` (hence no `log::fatal` in an UNSUBSCRIBE);
`AllReportsArriveAlone` and `CounterExactAlone` for a request that has the bridge to itself, whatever dead clients have left in the counter.
*orders:* `OrdersPaired`; `AnswersStayWithTheUser` – neither the record of a request nor
the route of a party leads to another user; `AwaitedRequestsAreOnRecord`; `RequestsEnd`;
`DoneOrdersAreForgotten` – an order that is complete or replaced is in `cl_ord_id_.state`
only if a later status report has put it back.
*queries:* `QueriesPaired`, `AnswersStayWithTheUser`, `AnswersArrive`, `RequestsEnd`.

**Why the bounds are enough.** Every hazard is about an old session, a new one and
what is in flight between them. Three connections of one user are a dead session with
an unanswered LOG_ON, a second one on its way out and a third logging on, or two of one
user between which one of another took the route; five user requests are the LOG_ON of
each and the LOG_OFF of two, and the third one's LOG_OFF would find no later session to
disturb. (With six, 2 910 132 states, and with one user, two strategies of its own and nine
requests, 1 185 411 states, everything holds as well.) Two users with two connections are the least
in which an answer can go to the wrong user or the wrong session, or one session can
be another user's successor. The same client id for everybody makes every clash that
can happen happen; Orders has two per user, an order and its replacement. There the bridge and
`cl_ord_id_.state` know two ids at a time (`MaxIds`): an order and its replacement, or one
order of each user, as the orders of two users have nothing in common but the sessions
they are asked on. Three requests in
Subscriptions and Positions are an old one, a new one under the same id, and somebody
else's. In Wire two connections of one user are a session and its successor, on one strategy
(a run with two, 7 837 578 states, holds as well);
five user requests are the LOG_ON of each, the LOG_OFF of each, and one more after the
bridge was lost. One message to a client besides Logon and farewell is enough: all
properties of `to_client` compare one such message with a Logon or a farewell. One client
request on a connection to the bridge can stand before, between and after the user
requests; pings are explored as its second message, where they can come before the
bridge's answer, as later ones meet nothing that a client's request does not. Queries was also run with three requests at a time (2 631 890 states, holds).
When a bound on ids or connections is used up, the action that needs more is disabled.

**Deadlock.** All configurations say `CHECK_DEADLOCK FALSE`: the process ends after a
`log::fatal`, and a behaviour ends when the bounds are used up and every session is
done. `WaitingEnds` says what must not get stuck before that.

**Symmetry** exchanges users and sessions (client ids in Orders). It is used only in
the runs of the request modules, which check invariants and, of each step by itself,
`ImplementsRequestService`; nothing in those modules or in RequestService orders or names
them. The
`CHOOSE` in `client_id` has exactly one candidate.

**Fairness.** `FairSpec` asks for weak fairness of `Timer(s)` and `remove_zombies`, and
of nothing else: the io::sys timer ticks every 100 ms (`TIMER_FREQUENCY`), visits each
session and collects garbage once a second, so a deadline that was set passes and is
seen. In the model a `Timer(s)` step *is* the passing of the deadline, which may be
early; it can be as late as it likes, but not never. Clients and bridge owe nothing.

## 4. Proofs

UserRoutingProofs proves, for any users, any sets of strategies that the users may be
given in turn, shared or not, any `None` that is not one of them, and any bounds in Nat
(the assumptions at the head of UserRouting):

| theorem | says |
|---|---|
| `InductiveInvariant` | `Spec => []IInv` |
| `TypeCorrect` | `Spec => []TypeOK` |
| `RegistryIsExact` | `Spec => []RegistryExact` |
| `RoutesAreInverse` | `Spec => []RoutesInverse` |
| `ReadySessionsOwnTheirRoutes` | `Spec => []ReadyOwnsRoute` |
| `BridgeLossDropsEverybody` | `Spec => []BridgeDownDropsSessions` |
| `OnlyUserAddCanAbort` | `Spec => []OnlyUserAddAborts` |

The argument. `ReadyOwnsRoute` is not inductive: the answer NOT_LOGGED_IN to a LOG_OFF
of an older session erases the route of a *party*, whoever holds it, so one must know
that no such answer is outstanding while a session of that party is READY. The
strengthening `IInv` adds, about the requests in flight:

* `FreshIds` – ids not handed out yet, and sessions that have not logged on, occur in
  no route and no record, so new ones clash with nothing;
* `PartyOfUser` – a session goes by a strategy of the user it is registered for, if not
  by the present one; as the registry is exact, two live sessions are of different users,
  and have different parties if the one's is `Sole`;
* `PendingKnown` – every unanswered request is on record under its own id, with the
  party of its session: answers find their request, so `UserResponse`'s fatal is not
  reached;
* `LogOnOnce` – a session has at most one unanswered LOG_ON, and no route while it has;
* `OwnRequests` – what of a session's is unanswered fits its state: a LOG_ON while it awaits
  its route, nothing while it is READY, a LOG_OFF while it awaits its release; `OwnRoute` –
  a live session holds its own party or none. These two need no `Sole`, and with them
  `OnlyUserAddAborts` holds for shared strategies too: a READY session is not answered, so
  `user_remove`'s fatal is not reached whoever took its route;
* `CreateIsYoungest` – while a session awaits its route, its LOG_ON is the youngest
  request for its party, if that is `Sole`; as the bridge answers oldest first, all older
  requests for the
  party are answered by the time the session becomes READY;
* `ReadyIsQuiet` – so while it is READY it has no request on record, and nothing is
  outstanding for its `Sole` party: no answer can take its route;
* `RemoveIsAlone` – while it awaits its release, only its own LOG_OFF is (of a `Sole`
  party).

There is one lemma per action (`LogonStep`, `LogoutStep`, `ZombieStep`,
`UserResponseStep`, ...); `ZombieStep` and `DeathFacts` carry the eleven actions that
end in `make_zombie`. `NextIInv` puts them together.

WireProofs proves, for any bounds on messages as well:

| theorem | says |
|---|---|
| `WireImplementsUserRouting` | `WireSpec => Spec`, hence `WireSpec => []IInv` (`WireKeepsIInv`) |
| `FarewellsAreLast` | `WireSpec => []FarewellIsLast` |
| `LogonsComeFirst` | `WireSpec => []LogonComesFirst` |
| `LinksStartWithLogon` | `WireSpec => []LinkStartsWithLogon` |
| `RequestsAreAllRouted` | `WireSpec => []RequestsAreRouted` |
| `TruthIsTold` | `WireSpec => ClientsAreToldTheTruth` |
| `WireTypes` | `WireSpec => []WireTypeOK` |

The argument. `WireStep` maps every step of Wire to one of UserRouting or a stutter, so
`IInv` is at hand. There are then two invariants, one for each side.

* `ClientInv` (theorem `Conversations`) adds to `FarewellIsLast` and `LogonComesFirst`
  that sessions past their logon have been told so, others have not, and that whoever is
  past the logon has a `comp_id_` (`Told`). `Turn(s, ms)` lists the ways in which a
  session that is told `ms` may move; `TurnStep` shows that any turn keeps `ClientInv`,
  and one lemma per kind of callback shows that it is a turn.
* `LinkInv` (theorem `Link`) adds to `LinkStartsWithLogon` and `RequestsAreRouted` that
  the bridge has been asked for the route of everybody past the logon, with no LOG_OFF of
  the party after it while the session awaits or has the route of a `Sole` party
  (`Routed`). `Asks(s)` says
  what a step of one session may ask of the bridge: a LOG_ON when it enters
  WAITING_CREATE_ROUTE, a LOG_OFF for its own party when it leaves READY or dies, nothing
  for anybody else. As two sessions past the logon have different parties if one is `Sole`
  (`PartiesDiffer`), no LOG_OFF closes what another session has opened.
* `TruthIsTold` needs one thing more for the confirmation of a Logout: the LOG_OFF it
  answers was the only request for that party (`SoleLogOff`). `LogonTruth` and
  `GoodbyeTruth` say what the two answers do to the route, whoever else has the strategy.

ServiceProofs proves that UserRouting implements LogonService, the service that the four
request modules are built on: `ServiceIsImplemented`, `Spec => ImplementsLogonService`.

The argument. The mapping shows of a session its `Phase`, and the registry and `ready` as
they are. `PhaseFacts`: once a session was accepted its phase depends on its state alone
(by `FreshIds`, ids not handed out have no state). `HoldersFreed`: as the registry is
exact, the users freed by a death are those that the dead sessions hold. So every
`make_zombie` is an `End` (`ZombieIsEnd`), an accepted logon a `Join`, the answer
LOGGED_IN an `Admit`, a Logout a `Retract`, the loss of the bridge a `Drop` of everybody
inside (`LossIsDrop`); that nobody is admitted while the bridge is down needs
`BridgeDownDropsSessions`. All other steps change nothing that the service shows,
`remove_zombies` included, because a zombie holds no user. `NextRefines` has one case
per kind of step.

ReqIdsProofs has the lemmas on `Controller::Mapping` that the request modules share, for
any sessions and ids: what `add_req_id` (on an id that is new), `remove_req_id` and
`clear_req_ids` make of each entry (`AddFacts`, `RemoveFacts`, `ClearFacts`), and that
they keep the two directions `Paired`. In particular `clear_req_ids`, which goes by
`client_to_server`, finds all that `server_to_client` has of its sessions exactly
because the mapping is paired (`RequestsOfFacts`).

SubscriptionsProofs, PositionsProofs, OrdersProofs and QueriesProofs prove every
invariant of their module's passing run, for any users, sessions, client ids and bounds:

| theorem | says |
|---|---|
| `TypeCorrect` (all four) | `Spec => []TypeOK` |
| `MappingsArePaired` (Subscriptions, Queries), `UnsubscribesAreSafe` (Positions), `MappingIsPaired` (Orders) | the module's pairing invariant; in Positions with `~fatal` |
| `NothingIsKeptOfTheDead` (all four) | `Spec => []TheDeadAreForgotten` |
| `AnswersReachWhoAsked` (Subscriptions, Queries) | `Spec => []AnswersArrive` |
| `RequestsAreForgotten` (Subscriptions, Orders, Queries) | `Spec => []SnapshotsEnd`, `[]RequestsEnd` |
| `MarketDataHasClients` (Subscriptions) | `Spec => []NoOrphanStream`, of market data alone |
| `CounterIsExactAlone`, `ReportsArriveAlone` (Positions) | `Spec => []CounterExactAlone`, `[]AllReportsArriveAlone` |
| `AnswersAreTheUsers` (Orders, Queries) | `Spec => []AnswersStayWithTheUser` |
| `AwaitedIsOnRecord`, `DoneOrdersAreNotKept` (Orders) | `Spec => []AwaitedRequestsAreOnRecord`, `[]DoneOrdersAreForgotten` |
| `RequestsAreKept` (all four) | `Spec => ImplementsRequestService` |

Assumed is what the modules state at their heads: that `None` is no id, no record and
(Orders, Queries) no session, and how `ServerIds` is made up. The argument has the same
three parts everywhere. An id under which a request goes out is *not on record*; what
the bridge holds is *on record* while its client may still get an answer; a session that
is done has *nothing on record*. The modules differ in why an id is not on record:

* *Fresh ids* (Subscriptions, Positions; `AskedOnce`, `IdsHandedOut`): ids are counted,
  and all that is on record or with the bridge was handed out before. In Positions a
  request that is `alone` is all the bridge holds, so `total_num_pos_reports` is the
  number of reports it has yet to get, and its record is removed by the last one of them
  and by no other.
* *Ids of the user* (Orders, Queries; `RecordsAreTheUsers`): under `<<user, client id>>`
  only the session that has the user now can be on record, with that client id. Had
  another session asked under it, it would be of the same user (`OneHolder`), hence done
  and cleared; had the same session, `exists` would have said so. So the id is free when
  a request goes out, and an answer is told to nobody but the user's present session.
  The argument rests on the registry being one to one, which is LogonService's part. In
  Orders a report goes by the route instead: `RoutesAreTheUsers` says that a route leads to
  the session that has the user, or to one that is gone and passes nothing on.
* *Done orders* (Orders): nothing the bridge says of an order after it is done enters it in
  `cl_ord_id_.state` but a status report, which `denied` observes. Such an id stays there:
  `DoneOrdersAreForgotten` excepts it.
* *Requests without an id* (Queries): they are recorded in one direction. `Named`
  leaves them out of the mapping; `RecordFacts`, `ForgetFacts` and `ClearedFacts` show
  that they do not disturb the others, because no two records are under one client id
  (`Labelled`). They may outlive their session, but then nobody is told
  (`RecordsAreTheUsers` says "or is gone").
* What is *kept alive* by a subscription needs a subscription with the bridge
  (`RecordsAreRequests` in Queries): otherwise the last report of an older request under
  the same id would leave the record behind.

`RequestsAreKept` builds on all of this. Three lemmas of ReqIdsProofs speak of what a set of
mappings shows (`Records`) and of nothing else: if an entry for a request that is not on
record appears under a free id, the record gets exactly that one (`RecordsWith`; that the
request is there under no other id is where the mapping has to be `Paired`); if an entry
goes, the record loses that one (`RecordsLess`); if the entries of the sessions that are
done go, so do theirs (`RecordsWithout`). In each module `GoesOnRecord`,
`ForgetStep` and `ComeAndGoStep` turn these into steps of RequestService,
and there is one lemma per kind of handler: a request does the first or nothing (the id is
free for one of the two reasons above; the session does not have the request, because the
handler asked `exists`), an answer the second or nothing, a death the third. That a death
takes off *exactly* its session's requests needs `TheDeadAreForgotten` as well: otherwise the
record of an older dead session would have to go in the same step. In Queries the same is
said of the mappings without the requests that have no id (`NamedMappings`).

Every invariant that a passing run checks is proved, and so are both refinements. Only model-checked: liveness
(`WaitingEnds`, `SilentClientsAreDropped`), which is out of the prover's reach.

## 5. Findings

Where the code and what it says of itself disagree (runs with a violation):

1. `route_held_by_dead` – a session dies in WAITING_CREATE_ROUTE; the bridge's
   LOGGED_IN arrives before its object is destroyed; `user_add` binds the route to the
   dead session (controller.cpp:415), and nothing releases it until the bridge sends
   NOT_LOGGED_IN for that user. The comment at controller.cpp:823-827 releases at once
   "to allow the client to reconnect". A second consequence: if the user is already on
   a newer session whose LOG_ON is in flight, that one's LOGGED_IN finds the party
   taken and `user_add` ends the process (controller.cpp:1795); this is the one abort
   that `OnlyUserAddAborts` admits. Users who are given the same strategy, which the
   configuration does not exclude, reach it by ordinary logons.
2. `unsubscribe` – UNSUBSCRIBE removes an id it has just made up (controller.cpp:893),
   so the subscription stays on record; the comment at 546 supposes it is gone.
3. `positions_counter` – one counter for all clients (controller.cpp:681): two
   overlapping requests finish each other early, although the record "must await all
   reports" (679).
4. `orders_final` – a request that was PENDING and then rejected stays in
   `cl_ord_id_.state`; the flag to disable removal supposes that final states are
   removed (flags/flags.json:33). The property leaves out the ids that a status report has entered
   of which there is no order (controller.cpp:598, 619).
5. `server_logout` – the bridge's Logout is decoded as a Heartbeat
   (server/session.cpp:253), which is only logged; the handler that answers it ("note!
   mandated, must send a logout response", 386) is never reached.

Seen on the way, without a run of its own: a BusinessMessageReject never takes a
request off the record (the code asks "what about keep_alive ???"; `SnapshotsEnd` and
`RequestsEnd` except it), and one of a mass cancel request is dropped
(controller.cpp:381); reports that follow the acknowledgement of a trade snapshot find
no record (734); an acknowledgement that announces no positions ends a subscription
(679); `send` asserts READY and is called in other states (client/session.cpp:399;
`LogonComesFirst` says what gets out in a build without assertions); an order status
request without its "optional" id, if `Base64::is_valid` (a library function) accepts an
empty text, is recorded in one direction, and `clear_req_ids` cannot find it
(controller.cpp:1223; `AnswersArrive` in Queries excepts it); a status report that says
there is no such order enters the id in `cl_ord_id_.state` (598, 619), where nothing
removes it, also if it is that of an order that was done and had been removed; a death
leaves security subscriptions with the bridge (795-796).

## 6. Not modelled, and why

* Encodings, texts, and the sequence numbers on a client's connection: the proxy counts
  what it sends, and compares what it reads with what it expects only to log it.
* The UNSUBSCRIBEs that a death sends are in Subscriptions, not in Wire: the session has
  its route until the same handler releases it.
* How long the bridge may be silent: the code has no deadline for its answers to a
  logon or a ping (server/session.cpp:77-86), so no wait for the bridge need end but by
  a client's own deadline.
* `md_req_id` is one mapping; the depth and the entries of market data are data.
* A request that client::Session refuses itself (bad id, party ids present) changes
  nothing and is a stutter. `trad_ses_req_id` is cleared and otherwise never used.
* In Orders and Queries each user has a party of its own. Ids there are made of the party:
  users who are given one strategy (UserRouting and Wire have them) may ask under the same
  id, and what then becomes of their records and answers is not modelled.
* `cl_ord_id_.state` is a set of ids: the status kept with an id is only logged.
  `disable_remove_cl_ord_id` (a test flag) is off.
* Passwords: `valid` stands for the whole check.
* Exceptions for want of memory, and full socket buffers.
* Listener, configuration, start-up: no state that changes afterwards.

## 7. Plan

Done, in this order: LogonService, UserRouting and its proofs, ReqIds, Subscriptions,
Positions, Orders, Queries, Wire and its proofs, the proof that UserRouting implements
LogonService, the proofs about ReqIds and the four request modules; then strategies that
users share, in UserRouting, Wire and all their proofs, and RequestService with the proofs
that the four request modules implement it.

Next:

1. Wire composed with one request module, so that a death's UNSUBSCRIBEs stand among the
   messages of the same connection.
2. Parties that users share in Orders and Queries, where two users can then have one id.
