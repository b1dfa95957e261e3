# Formal model of DMAIT

DMAIT is an application-layer framework for RPL-based sensor networks (Contiki-NG,
RPL-lite). Client nodes have their route to the root validated, send data over it, and
react to lost data by refusing the parent that lost it and by telling the root, over an
alternate route, which route failed. The root probes the nodes of that route to locate the
fault. This directory holds TLA+ modules for the parts of DMAIT that keep state, the TLC
configurations that check them, and proofs that hold for every value of the constants.

Paths below are relative to the repository; `rpl-mrhof.c` is the file in
`#CONTIKI-NG MODIFICATION/`.

## 1. Inventory

| Component | Source | State | Operations | What is hard |
|---|---|---|---|---|
| Client process | `dmait-client.c:516-645` | `hasValidRoute`, `validatingRoute`, `parentValidationLlAddr`, `unreachableCounter`, one periodic timer | one tick every 29 to 34 s: start a validation, send data, notice a parent change, count time off the network | RPL changes parents between any two steps |
| Route-validation timeout | `dmait-client.c:485-513` | one static callback timer, 40 s | condemn the parent of an unanswered validation | timer set again, answer racing the timeout |
| RVACK handler | `dmait-client.c:165-257`, `dmait-client-logic.c:86-144` | validated route (pool of 30) | accept or discard, copy the route | stale answers, bad HMAC, unknown neighbour |
| Data messages and DMACK | `dmait-client-logic.c:385-586` | loss counter, last sequence number and parent, 250 ms timer | send, count, acknowledge, condemn | late or repeated answers, double counting, 8-bit numbers |
| Avoid message (AR), first hop | `dmait-client-logic.c:260-383`, `dmait-logic.c:804-864` | none of its own | choose a neighbour outside the route, or fall back to the parent | parent gone, stale selection |
| Negative list | `rpl-mrhof.c:111-185, 399-474` | array of 16 pointers into a pool of 16 | query, add, clear | full list, duplicates, freeing |
| Parent selection | `rpl-mrhof.c:195-341` | RPL's neighbour table | `best_parent` with hysteresis | acceptability against stability |
| Route validation on the way and at the root | `dmait-client.c:83-162`, `dmait-server-logic.c:312-610` | block chain in the message, list of validated nodes, pool of 100 shared with a temporary list | append a block, verify the chain, acknowledge | cycles, pool exhaustion, parents changing under way |
| AR relaying | `dmait-client.c:260-377` | path in the message | drop a cycle, append, choose the next hop or fall back on the parent | tables that change under way, dying out, fallback without a parent |
| Fault location | `dmait-server-logic.c:47-59, 215-301, 683-880`, `dmait-client-logic.c:588-676` | suspects with two 8-bit scores, pool of 50 | accuse, probe, credit | interleaved ARs and answers, wrap, full pool |
| Data acknowledgement at the root | `dmait-server-logic.c:884-987` | none kept | answer every DM with a DMACK, without checking its HMAC | lost, repeated and late answers |
| Dispatch | `dmait-client.c:380-482`, `dmait-server.c:66-113` | none | pick the handler by header | |
| Formats, keys, HMAC, SHA-256 | `dmait-logic.c`, `hmac_sha256.c`, `sha256.c` | none | conversions | |
| Baseline application, log parser, experiments, `dmait-blacklist.c` | | | not part of the running framework | |

The client drives everything: a tick starts a validation (RV) or sends data (DM); the root
answers (RVACK, DMACK); timeouts call the objective function, whose negative list RPL asks
before it takes a parent; a data timeout also sends the AR that makes the root probe
(FL-PROBE, FL-ACK). Contiki processes and callback timers are cooperative, so each handler
is atomic; concurrency is between handlers, between nodes, with RPL, and with a network that
loses, repeats and delays.

What makes each part correct:

* client: a running validation always ends and condemns, if anybody, the parent it went
  through; the loss counter means losses in a row; data, validated route and avoid message
  concern the same parent; nobody is condemned without a cause; a node cut off by its own
  list recovers;
* negative list: a bounded list, whatever happened to its memory before;
* fault location: suspicion equals unanswered probes; accused nodes are recorded;
* route validation: an accepted chain is a path of RPL parents and the root stores what it
  acknowledges;
* AR relaying: the message avoids the named route while it can, visits no node twice, and
  reaches the root or dies; the route it carries is the way it took;
* parent selection: an acceptable parent is left only for a reason, a condemned one never
  stays because of the hysteresis, and the rank grows on the way down.

The hazards of the code, each at its line and with the properties that would catch it, are
the `hazards` of `PROJECT.json`.

## 2. Plan

1. `BlockedNodes` (abstract list), `DmaitClient` (core), with proofs. *Done.*
2. `NegativeList`, shown and proved to implement `BlockedNodes`. *Done.*
3. `FaultLocation`, with proofs. *Done.*
4. `RouteValidation`: the chain of blocks hop by hop under parent changes, verification at
   the root, the shared pool, RVACK, with proofs. *Done.*
5. `AlternateRoute`: relaying and fallback over a small graph, with repeated messages and
   changing tables; shown and proved to deliver to `FaultLocation` what that module takes for
   granted, so that the theorems about the root hold for the composition. *Done.*
6. `ParentSelection`: `best_parent` over a neighbour table in any order, which justifies the
   RPL environment of `DmaitClient`, with proofs. *Done.*
7. The root's side of data messages. *Done*: the handler keeps no state and refuses nothing,
   so it is an operator of `DmaitClient` (`AnsweredByRoot`).
8. Left: a composition of several clients with one root. Each side states what it expects of
   the other, and the other side is checked for it (section 3, "How they fit together"); the
   product of `DmaitClient` with `RouteValidation` is beyond TLC on any instance with two
   clients.

## 3. Modules

| Module | Models | Correspondence |
|---|---|---|
| `BlockedNodes` | what callers may assume of the negative list | `Added`, `Clear`, `Members` for add, clear, query |
| `NegativeList` | `rpl-mrhof.c:111-185, 399-474` | `negativelist`, `used` and `content` are array, pool and pool memory; `CheckedList` is `checkInit` |
| `DmaitClient` | one client with RPL and the network as environment | one action per branch of a tick and per handler, see below |
| `FaultLocation` | root and clients | the suspect list is a sequence of records; probes and answers are counted per node |
| `RouteValidation` | any number of nodes, RPL, the network and the root | an RV is a record with a chain of blocks; start, forwarding and the three ways out of the root's handler |
| `AlternateRoute` | first hop, relays and arrival of ARs, composed with `FaultLocation` | an AR is a record of the route to avoid, the route it took, and the node it is addressed to |
| `ParentSelection` | `rpl-mrhof.c:195-341` | cost, rank, acceptability, hysteresis and `best_parent` as operators, under the external loop of RPL |
| `MC...` | instances for TLC | values of the constants |
| `DmaitClientProofs`, `NegativeListProofs`, `FaultLocationProofs`, `RouteValidationProofs`, `AlternateRouteProofs`, `ParentSelectionProofs` | theorems | section 6 |

How they fit together. `DmaitClient` uses the negative list through `BlockedNodes`, which
`NegativeList` implements. It lets RPL move to any node off that list, which
`OnlyUnlistedChosen` of `ParentSelection` says of the objective function. An RVACK brings it a route
that begins with the parent the RV went to, along links RPL has used, as `AckedRouteWasWalked` of
`RouteValidation` says of the root; that it leads to the root holds for RVs that arrive whole
(section 7). The AR it sends
is `StartAr` of `AlternateRoute`, which carries it to the root; there it is `ReceiveAr` of
`FaultLocation`, and `DeliversToFaultLocation` says that every step of the relays and the root
together is a step of `FaultLocation` or leaves the root alone.

`DmaitClient` in detail. A tick (`dmait-client.c:549-641`) is exactly one of
`TickValidate`, `TickSend`, `TickParentChanged`, `TickValidating`, `TickUnreachable`; each
contains everything the branch does, the helpers it calls included (`StartRouteValidation`,
`SendDataMessage`, `RegisterMessageSent`, `ResetUnacked`, `ClearBlackList`). `RvTimeout` and
`DataTimeout...` are the two timer callbacks, `ReceiveRvAck`, `ReceiveBadRvAck` and
`ReceiveDataAck` the handlers, `StartAvoidRoute` the sending of an AR.

* Time. Ticks come every 29 to 34 s. The data timer (250 ms) has always fired before the next
  tick: `TickReady` waits for it. The validation timer (40 s) spans exactly one tick, so it
  is `"idle"`, `"set"`, or `"due"` after that tick, and it is then served before the next
  one, and after the data timer of the tick it spanned.
* Messages. A request is a token (`rvSent`: the parent it went through; `dmSent`: the
  sequence number) that allows its answer at any time, any number of times, or never: loss,
  duplication and reordering. With `Late = FALSE` tokens vanish at the next tick: no answer
  outlives the tick after its request. Radio paths of a few hops make that the normal case,
  so some properties are stated for it; the others hold without it.
* RPL is outside the repository. `RplUpdate` lets it keep its parent, lose it, or move to any
  node that is not on the negative list, at any time; it is reachable only with a parent. A
  listed node may stay parent for a while, as RPL asks the list only when it reconsiders.
* The root's side of data. The root answers every copy of a DM with its number and its HMAC,
  and checks neither (`AnsweredByRoot`); a token of `dmSent` is thus a DM or its DMACK under way.
* Data kept: which parent, which route, which number. Addresses are model values, HMACs are
  correct or not, and a wrong HMAC of a DMACK has no effect at all and no action.
* Ghost variables (`rvParent`, `missed`, `answered`, `condemned`) record what the code does
  not keep, for the properties only; no guard of a code action reads them.

`FaultLocation`: an AR is a route to avoid and the set of nodes it came through; one
`ReceiveAr` is the whole loop of the handler. `AccuseAll` is the suspect list after the last
round of the loop, a recursive function of the round; a round (`Accuse`) passes over a node
the AR came through. `Times` is how many points, and probes, a node gets from one AR.
A route may name a node twice (`MCAvoidRoute` has one), as a cycle of parents can produce.
Probes and answers may be lost, reordered, or delivered once more (`Repeat`, counted per node
in the ghost `repeated`).

`RouteValidation`: the RVs ever sent stay in `rv`, and each may arrive at any time, any number
of times, or never, so loss, repetition and delay need no actions. A block keeps its three
addresses and whether its digest matches them. An RV may be damaged on its way, `MaxDamage`
times in all: `Alter` changes a block, whose digest then no longer matches; `LoseBlocks` drops
any run of blocks, the last ones for instance; `PassOnUnsigned` is a node that passes the RV on,
to any other, without adding its block. The root cannot tell an RV that has lost its end, or
whose last bearer signed nothing, from a whole one: it compares the last block with nothing. The
ghost field `whole` of RVs and RVACKs records the difference for the properties. The root's
handler (`ReceiveRv`) is atomic, and its three ways out are actions: the
pool runs out in the loop (`AbortRv`), every block is verified (`AcceptRv`), or one is not
(`RefuseRv`). `Examined` counts the blocks the loop has put into the temporary list when it
ends. The list of validated nodes is a set: the code adds a node only after looking for it,
and nothing reads the order. Each of the two, list and temporary list, takes blocks from one
pool, counted by `used`. The sending client's own state is `DmaitClient`'s; here any node with
a parent may start a validation at any time. The ghost `wasParent` keeps the links RPL has
ever used.

`AlternateRoute`: `Views` is what RPL may hold at a node when an AR comes by, a table of
neighbours and a parent among them, and it may differ at every hop. In half of the initial
states the tables are `steady`, so that it can be said when a detour exists. `Targets` is
`dmait_select_neighbor_not_in_array` with the fallback of its two callers: the first
suitable neighbour of a table in any order, or the parent. A node without a parent is off
the network and sends nothing; if it has to fall back, the null parent is read first, and the
node halts or carries on without effect. A relay first drops an AR that has been there
(`IsCycle`), then adds itself to the route and excludes both routes of the AR. `Taken` lets the
network keep a copy of what it delivers. At the root an AR is taken by `FaultLocation`, whose
other steps go on at the same time.

`ParentSelection`: `BestParent` is the C function of two neighbours. RPL's loop over the table is
external: `BeginScan`, `Offer` of any neighbour not yet offered, and `EndScan` at any point, after which RPL
adopts the result or keeps its parent. Between scans a table entry, the negative list or
the parent may change. An entry has the rank a neighbour announces, the link metric, and
whether it has been better than the parent for longer than `TIME_THRESHOLD`, which is how much
of the clock the code looks at. The thresholds are the code's numbers.

## 4. Runs

| Run | Question | Bounds |
|---|---|---|
| `client_prompt` | do route, data, losses and AR concern one parent when answers are prompt? | two parents and the root, routes of one or two hops |
| `client_late` | does the client's bookkeeping survive answers at any time? | the same, `Late = TRUE` |
| `client_liveness` | what do the timers force to happen? | one parent and the root, `Late = TRUE` |
| `negative_list` | does the array implement the list? | 4 slots, 3 addresses |
| `fault_location` | does suspicion mean unanswered probes, in every order? | 3 nodes, pool of 2, 3 ARs, 1 copy |
| `route_validation` | is what the root acknowledges a route, and is its pool intact? | 3 nodes, RVs of 3 blocks, pool of 3, 4 changes of parents, 1 damaged RV |
| `alternate_route` | do ARs avoid what they should and reach the root as `FaultLocation` expects? | 4 nodes and the root, 2 ARs, 1 copy |
| `parent_selection` | does the choice depend on the order of the table? | 3 neighbours, tables made of 10 entries |
| `client_fallback` | finding: the fallback without a parent | as `client_prompt` |
| `client_forgets` | finding: a full list forgets | as `client_prompt` |
| `fault_scores` | finding: cleared suspects stay | as `fault_location` |
| `rv_cycles` | finding: an RV goes round a cycle | 3 nodes, RVs of 4 blocks, 3 changes of parents |

Why the bounds suffice. Two candidate parents are needed for a wrong parent to be condemned,
and two routes that share a node for an AR to name the wrong one; the root as third
neighbour gives the empty route. `Slots = 2` lets the list fill with one duplicate and drop a
third; `RoutePool = 1` makes the route pool overflow; `UnreachableLimit = 1` reaches the
clearing of the list. `LossThreshold = 2` is the code's. `SeqMod = 3` wraps, and keeps a stale
acknowledgement distinct from the present one: with one outstanding message two numbers
would do. The unreachable counter is cut at the first value that clears the list, since it
is compared with nothing else (`OneMoreTick`). In `fault_location` the pool is smaller than
the set of nodes, and `ScoreMod = 3` lets a twice-named node wrap its score; `MaxAr` is the
only bound that stops the system, which is why deadlock is not checked there. In
`route_validation` three nodes give cycles of two, which are dropped, and of three, which are
not; a pool of 3 is exhausted by the loop (one node recorded, three blocks) and by recording
(an RV of one block when two nodes are recorded); `MaxBlocks` stands for the size of a packet, and
`MaxMoves` may leave every node without a parent, so deadlock is not checked there either.
The same properties hold with RVs of 4 blocks, so that one node may sign twice, and 3 changes of
parents (23,242 states), and with two damaged RVs and 3 changes (522,567 states); the proofs
cover every length and any amount of damage.

In `alternate_route` one node hears only its parent, so its AR must fall back on a node of the
avoided route; another has a way round it through a third; two ARs and a copy meet at the root in
either order, with a pool that two accused nodes fill. In `parent_selection` the ten
entries lie just inside and just outside the hysteresis, at the highest acceptable cost and
link metric and one beyond, and include a neighbour without a rank, whose cost would wrap
in 16 bits. With three neighbours one is the parent and two compete, in every order.

What the properties say (each is stated in full in its module):

* `ValidationGuarded`, `LossAccounting`, `CondemnedAreBlocked`, `CondemnedForCause`: the
  client's bookkeeping under an arbitrary network. `LossAccounting` explains the threshold: the
  counter runs at twice the losses in a row plus the message still waiting, so a parent is
  condemned at the second loss with a threshold of 2.
* `ValidatedRouteLeavesByParent`, `MissesShareParent`, `ArAvoidsCondemnedParent`: need prompt
  answers. With `Late = TRUE` the first one fails: an RVACK carries no sign of the validation
  it answers, so one that went through an earlier parent is accepted during a later one.
* `DeafParentBlocked`: liveness of the data loss counter: a parent that carries no answer to
  the last message is blocked in the end, or the list is full. Answers to earlier messages, which may come
  late and any number of times, do not keep it.
* `ValidationEnds`, `StableParentSettles`, `IsolationEnds`: liveness. `StableParentSettles`
  names two ways out, and TLC finds the property false without either: the list may be full,
  and RVACKs with a wrong HMAC may lower the flag before every timeout.
* `BlocksOwned`, `ImplementsList`: no block lost or shared; refinement of `BlockedNodes`.
* `SuspicionIsUnanswered`, `AccusedAreRecorded`: scores and probes stay in step, and the list
  holds accused nodes only, each once, and all of them while a block is free. Nothing ties an
  FL-ACK to a probe, so a repeated one is credited again: the property says that the
  suspicion plus the copies is what is under way or lost (modulo the width).
* `AnsweringClears`: a node none of whose messages is lost or repeated ends with no
  suspicion, whatever happens to the others.
* `NoNodeTwice`, `RouteIsPath`: an AR visits no node twice and reports where it has been, although
  tables and parents change while it travels; the root relies on the second when it takes
  suspicion from the nodes on the way.
* `DetourFirst`: with steady tables a relay uses the avoided route only when it has no other
  neighbour. With changing tables this cannot be said of a state, and is not claimed.
* `DeliversToFaultLocation`, `ArsDieOut`: see above; no fallback passes an AR round for ever.
* `SwitchIsJustified`: stability. The comment at `rpl-mrhof.c:330-332` says that the parent is
  left only if the gain is large or has lasted. What the code gives is
  weaker: some neighbour must be better by that much, but once it has displaced the
  parent, a cheaper one within the hysteresis may displace it in turn, or not, depending
  on the order of the table. Stock MRHOF does the same; the property states what holds.
* `CondemnedIsReplaced`, `OnlyUnlistedChosen`, `RankGrows`: the negative list against the
  hysteresis, the environment of `DmaitClient`, and sums of 16-bit ranks.
* `UnalteredIsVerified`, `AckedRouteWasWalked`, `PoolHoldsRecorded`: blocks written hop by hop
  under changing parents always fit together; what the root acknowledges is a walk over links
  RPL has used, even if the RV was altered, cut short or passed on unsigned, and the walk ends at the
  root if the RV was whole; no way out of the handler keeps blocks of the pool. The condition
  is the code's doing: the root never checks that the last block leads to it
  (`dmait-server-logic.c:388-498`), so the acknowledged route of a damaged RV may stop short.

Findings. `client_fallback`: `dmait-client-logic.c:371` copies the address of the preferred
parent, which may be gone. `client_forgets`: duplicates fill the list, and a node condemned
later can be the parent again, against the comment at `dmait-client.c:499`; the property
only forbids RPL to move to a node condemned since the last clearing (while the list has a
free slot it holds, see `KeptAway` in section 6). `fault_scores`:
`dmait-server-logic.h:121, 137` promise that suspects without suspicion are removed;
`dmait-server-logic.c:263-269` has that commented out. `rv_cycles`: `dmait-client.c:111` says
that cycles are eliminated, and only those of two nodes are; a route that names a node twice
can be the result.

## 5. Fairness

`FairSpec` of `DmaitClient` assumes weak fairness of `Tick`, `RvTimeout` and `DataTimeout`: Contiki
fires every expired timer, the periodic timer is set again at the end of every tick, and no
handler blocks. Nothing is assumed of RPL or of the network: no message need ever arrive. A
node that crashed takes no step, so the liveness properties speak of nodes that have not.

`FairSpec` of `FaultLocation` assumes weak fairness of the two handlers for each node: a probe
or an answer that is under way is delivered or lost in the end. `FairSpec` of `AlternateRoute` assumes
weak fairness of `Travel`, the same for ARs: losing one is a step of it, so it does not
assume that the network delivers.

## 6. Proofs

All theorems hold for every set of nodes and routes, every pool and list size, every
threshold and every width of the sequence number, under the assumptions named in the
modules (`ClientAssumption`, `LateAssumption`, `NegativeListAssumption`,
`FaultLocationAssumption`, `RouteValidationAssumption`, `AlternateRouteAssumption`,
`ParentSelectionAssumption`).

`DmaitClientProofs`: `TypeCorrect`, `ClientSafety` and `OnlyForCause` rest on one inductive
invariant, `IInv`: types, `ValidationGuarded`, `LossAccounting`, `CondemnedAreBlocked`, and
`AddressesWritten` (a parent variable that a timer will use has been written; without it a
timeout could block an address never set). `LossAccounting` is what turns the guard of the
timeout into the cause `CondemnedForCause` asks for (`RaisedMeansMissed`). `PromptSafety`
assumes `~Late` and adds `PromptInv`: every RVACK that may still arrive went through
`parentValidation`, none may arrive once data has been sent, and while data waits for its
acknowledgement the parent it was sent to is the validated one. Without these the three
properties are not inductive. Two action properties that no run checks follow: `KeptAway`, what is
true of the comment that `client_forgets` refutes (RPL never moves to a condemned node
while the list has a free slot), and `DataIsValidated` (with prompt answers a data message leaves
by the first hop of the validated route, and its loss is charged to that parent).

`NegativeListProofs`: slots and blocks are taken in order and given back all at once, so in
every state the first n slots hold the first n blocks (`Filled`). This gives `ListSafety`, with
no counting argument, and `ListImplements`, the refinement of `BlockedNodes`.

`FaultLocationProofs`: the two invariants of the root are not inductive, because a suspicion is
a remainder and says nothing of the two scores it is made of, and because a node outside the
list may be recorded by the next AR. `InStep` says of every entry that its two scores differ by
what the node is due (`Due`: probes and answers under way or lost, less the copies) plus a whole number of
turns of a byte (`Turns`), that no node has two entries, and that the list holds every
accused node while a block is free; a node nobody accused is due nothing, which is what the first
entry of a node needs. `IncrementInStep` and `DecrementInStep` keep this for one
point. For the loop (`AccuseAllInStep`) it has to be kept round by round, whatever the route: the
recursive definition of the rounds is first shown to have a value (`LoopUnfolds`), and then
`InStep` is carried through the rounds, together with the points each node has been given so
far (`TimesFacts`). Both inductions use `PrefixInduction`, which is proved from the least
element of a set of naturals, since the induction theorems of the library take an operator as parameter.
`FaultSafety` is the result; `AnsweredAreCleared`, its corollary, is the safety half of
`AnsweringClears`.

`RouteValidationProofs`: `ValidationSafety` needs three facts that the properties do not state. An
authentic block names a link RPL has used; an authentic last block says where the RV comes from and
where it goes (so the walk ends at the root, which the root never checks); and a
chain is spoilt only by altered blocks (`Sound`); the last two hold of whole RVs only. These are
kept by starting, forwarding and altering an RV (`StartSound`, `ForwardSound`, `AlterSound`); an RV
that loses blocks or is passed on unsigned keeps the first, since each of its blocks comes from a
sound RV (`LoseSound`, `PassOnSound`), and RPL keeps them because links are never
forgotten. So the route of any RVACK is walked link by link, and its end is known only for
whole RVs. The pool is a counting argument over the finite set of recorded nodes.

`AlternateRouteProofs`: `RelaySafety` rests on one invariant per AR, `Good`: type, no repetition, path, and
the detour property. A fresh AR is good (`StartGood`) and a relay keeps it so (`RelayGood`);
both use what `Targets` can return (`HopFacts`). The parts need each other: that the route
does not repeat a node follows from `IsCycle`, and the detour property of the old part of the
route from the path not changing. `RelayRefinesFaultLocation` is step simulation under this
invariant; the types of the ARs give the parameters of `ReceiveAr`. With it `FaultSafety`, taken
from an instance of `FaultLocationProofs`, becomes `RootSafety`: the root's invariants hold for
relays and root together (the `Same...` lemmas only identify the two instances).
`FewHops`, from `NoNodeTwice` by counting, bounds the hops of an AR by the number of
nodes: the safety half of `ArsDieOut`. It alone assumes that the set of nodes is finite.

`ParentSelectionProofs`: `ScanSafety` proves the invariant of the loop, that the best so far is
acceptable, together with the two properties of a scan, for tables of any size in any
order; `OfferKeeps` does the case analysis of `best_parent`. All thresholds are
constants; `RankGrows` needs only that the greatest path cost plus one rank increment is
below infinity. `OnlyUnlisted` follows from the same invariant.

Only model-checked: liveness (`ValidationEnds`, `StableParentSettles`, `DeafParentBlocked`,
`IsolationEnds`, `AnsweringClears`, `ArsDieOut`), which needs fairness and is out of the prover's
reach. Every invariant and action property of the passing runs is a theorem.

## 7. Not modelled

Message formats, key derivation and HMAC are pure conversions. `ParentSelection` leaves out the
metric container of RPL (`RPL_WITH_MC`, which no file of the repository turns on): the code under
that option only changes what is announced and which metric is added.
`dmait_print_nbr_list`, and `dmait_replace_parent` which only it calls, are called by nothing. An RV without any block, which no node
sends, is not a state of `RouteValidation`. The damage modelled there is of the kinds section 3
lists: an altered block never matches its digest again, blocks are not moved from one RV into
another, and a node signs only the parent it has. `ReceiveRvAck` of `DmaitClient` takes RVACKs whose
route begins where the RV went; the RVACK of an RV that reached the root with its first block
alone, cut short or passed on unsigned by the parent, names no parent and is left out
there: `ValidatedRouteLeavesByParent` and `ArAvoidsCondemnedParent` are claimed without it. The baseline, the log parser, the simulator scripts and `dmait-blacklist.c`
(unused) are not part of the running framework. Restarts are not modelled: no component
keeps state across them. An acknowledgement 256 messages old would match the current one if the
data is the same; with `SeqMod` values the model has the same confusion, and counts such
an answer as that of the last message.
