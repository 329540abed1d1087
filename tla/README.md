# TLA+ models of the ports routing core

This directory holds TLA+ models of the Mojo "ports" library in
`src/mojo/edk/system/ports/`, together with the TLC configurations that check
them. The library moves the ends of message pipes between processes ("nodes")
and never reorders, duplicates or drops a message. To do that it uses a
per-port state machine, per-port sequence numbers, and a distributed
proxy-removal protocol.

## The system

| Part | Source | What it does |
|---|---|---|
| Port | `src/unnamed/part_000` (port.h), `src/unnamed/part_005` (port.cc) | The record of one endpoint: `state` (Receiving, Buffering, Proxying, Closed), the peer's node and port name, `next_sequence_num_to_send`, `last_sequence_num_to_receive`, the message queue, `remove_proxy_on_last_message`, `peer_closed`, `send_on_proxy_removal`. |
| MessageQueue | `ports/message_queue.cc` | A min-heap keyed by sequence number with a `next_sequence_num_` cursor. It hands out messages strictly in order. It has a `signalable` flag. |
| Node | `ports/node.cc` | The map `ports_` of one node. It handles the user operations (`SendMessage`, `GetMessage(If)`, `ClosePort`, `CreatePortPair`, `InitializePort`) and the handlers of the five events (`User`, `PortAccepted`, `ObserveProxy`, `ObserveProxyAck`, `ObserveClosure`), and it reacts to `LostConnectionToNode`. |
| NodeController and NodeChannel | `node_controller.cc`, `node_channel.cc` | The `NodeDelegate`. `ForwardMessage` puts events for its own node on the FIFO `incoming_messages_` queue, drained by `AcceptIncomingMessages`. It sends events for other nodes over FIFO channels. It also keeps the peer table and introductions. |
| Core, dispatchers, embedder | `core.cc`, `message_pipe_dispatcher.h`, `embedder.cc` | The handle-based API on top of the Node. A handle names a dispatcher; a message pipe's dispatcher owns one port. `WriteMessage` puts the handles a message carries *in transit* (`BeginTransit`), lets the dispatcher call `Node::SendMessage`, and then removes them (`CompleteTransit`) or gives them back (`CancelTransit`). |
| Older prototypes | `src/src/*`, `src/include/ports.h`, `src/unnamed/part_001`, `src/mojo_system/*` | Earlier variants with a `PortRejected` event and a `Shutdown` protocol. |

How the parts interact:

1. Sending a message that carries a port *takes* that port (`WillSendPort_Locked`).
   - The port gets a fresh name at the destination.
   - Its peer and sequence counters go into a descriptor.
   - The local record becomes Buffering and points at the new name.
2. The destination creates a Receiving, unsignalable port from the descriptor (`AcceptPort`) and sends `PortAccepted` back.
3. The Buffering port becomes a proxy and forwards what it queued. It then sends `ObserveProxy` along the peer chain.
4. The port whose peer is the proxy switches its peer to the new port. It replies `ObserveProxyAck` with the last sequence number it sent.
5. The proxy erases itself once it has forwarded every message up to that number.
6. `ObserveClosure` carries a closing port's last sequence number. It doubles as the ack for proxies it passes through.

## Modules

- **`MessageQueue.tla`** models `message_queue.cc`. The heap is the set of queued messages, `Top` is `heap_[0]`, and `HasHead`/`PopNext` are `GetNextMessageIf` without a selector. `PortsNode` uses it through `MQ == INSTANCE MessageQueue`.
- **`PortsNode.tla`** models `node.cc` for any number of nodes.
  - **`port`** holds the port records of all nodes, keyed by name. A name is `<<end, generation>>`:
    - the *end* is a ghost: the logical pipe end the record stands for;
    - the *generation* is drawn from a per-end counter `gen`, so names are fresh, as the 128-bit random names are.
    - The states `Unused` and `Erased` mean "not in any `ports_` map".
  - **`network`** is a bag of in-flight events. The loopback queue, the controller's incoming queue and the channels are folded into it, and delivery is in any order. The code depends on no order between events of different senders, and sequence numbers make user messages independent of order.
  - **Actions.** Each handler is one atomic step, because it runs under its port's lock:
    - `SendMessage(p, c)`, with the checks of `WillSendMessage_Locked` in `PortSendable`;
    - `GetMessage(p)`;
    - `ClosePort(p)`;
    - `ClosePortErase(p)`. `ClosePort` releases the lock before `ErasePort`, so the erase is a separate step;
    - `AcceptMessage(m)` dispatching to `OnUserMessage` (which includes `AcceptPort`, `ForwardMessages_Locked` and `MaybeRemoveProxy_Locked`), `OnPortAccepted`, `OnObserveProxy`, `OnObserveProxyAck` and `OnObserveClosure`.

    A helper that emits events works on a "world" `[port, gen, out]`, and `Commit` writes it back. So a handler is the composition of the code's calls, in the code's order.
  - **Omissions.** User operations that return an error leave the state as it was (`WillSendMessage_Locked` also gives back the sequence number), so they are not steps. An `OOPS` (a `CHECK(false)`) is recorded in `oops`.
  - **Node loss.** `LoseNode(l)` kills the process of a node in `Losable`: its ports take no more steps and events addressed to it are never read. `LostConnectionToNode(n, l)` is `node.cc:344-395` on a surviving node `n`: every port of `n` whose `peer_node_name` is `l` becomes peer-closed at its queue's frontier, and every such port that is not Receiving is erased. It runs once per pair, after `n` has accepted every event in flight to it. That order stands for `OnChannelError` coming after everything the dead node wrote has been read; it also orders `n`'s own pending events first, so it excludes some real interleavings rather than adding spurious ones.
  - **Ghosts.** `sent`, `delivered` and `closedEp` are ghost history for the properties; `lost` and `notified` record the deaths and the `LostConnectionToNode` calls.
  - **Initial state.** The initial ports are what `CreatePortPair` (local pipe) and `InitializePort` on two nodes (remote pipe) leave.
- **`MCPortsNode.tla`** instantiates two nodes and two pipes:
  - `a`-`b` between `n1` and `n2`;
  - `c`-`d` on `n1`.

  A port can only be sent from a port on its own node. So `a` can carry `c` or `d` to `n2`, and `c` can carry `a`. Ends move between nodes and within `n1`, and proxy chains form. `MaxSends[e]` bounds the `SendMessage` calls on end `e`, and `MaxGen` bounds the transfers of each end. `Closers` lists the ends the user may close, and `Losable` the nodes that may die.

- **`SendWithPorts.tla`** models the locking inside `Node::SendMessage` and `WillSendMessage_Locked` on one node (`node.cc:250-285`, `752-835`), below the atomic steps of `PortsNode`.
  - **State.** `owner[p]` is the thread holding `Port::lock`, `swp` the holder of `send_with_ports_lock_`, `inMap[p]` whether `GetPort` still finds the port, `state[p]` Receiving, Buffering or Closed, `nextSend[p]` the sequence counter. Each thread has a program counter `pc[t]` with the message it is sending and the loop indices `i` and `j`.
  - **Steps.** A step ends at every lock acquisition (which may block) and at every unlock another thread can observe: `CallSendMessage` (the `CannotSendSelf` check), `LockPort` (lock, state check, stamp a sequence number), `LockSendWithPorts`, `TakePort` (`GetPort`, lock, state and `CannotSendPeer` checks), `UnlockOnError` (one iteration of the error loop at `node.cc:802-803`, the last also gives the sequence number back and releases both guards), `Send` (the success path). `CallClosePort`/`ClosePortLocked`/`ClosePortErase` are `ClosePort`: the guarded change to Closed (or `PortStateUnexpected`), then `ErasePort`. `CallLockedOp`/`OpLock`/`OpUnlock` stand for the operations that hold one port lock and change nothing the model tracks (`GetStatus`, `GetMessageIf`, the handlers). `ProxyRemoved` is the IO thread's `ErasePort` of a transferred port.
  - **Undefined behaviour.** Unlocking a mutex the caller does not hold releases it, as glibc's default mutex does. Locking through the null pointer `GetPort` returns sets `crashed`, and no thread takes a step after it.
- **`SendAtomic.tla`** is the abstract specification of `SendWithPorts`: what its locking must achieve. `ASend(p, X)` is a whole successful `SendMessage`. It needs `p` and every carried port Receiving and none of them `p`'s peer, makes the carried ports Buffering and advances `nextSend[p]` and `sends[p]` together. `AClose` and `AErase` are `ClosePort`'s guarded block and `ErasePort`. A refused send is no step.
  - **Refinement.** `SendWithPorts` has `Atomic == INSTANCE SendAtomic WITH nextSend <- nextSendCommitted`. `state`, `inMap` and the ghost `sends` map to themselves. `nextSendCommitted[p]` leaves out the number stamped by a thread that has locked `p` and is still between `LockPort` and `Send` or the end of `UnlockOnError` (`Stamped`). `Send` is `ASend`, the Receiving branch of `ClosePortLocked` is `AClose`, `ClosePortErase` and `ProxyRemoved` are `AErase`, and every other step is a stutter. `SendLinearizable == Atomic!ASendSpec` is checked through `Core` (`core_write`).
- **`MCSendWithPorts.tla`** has ports `a`-`b` (a local pipe) and `c` (remote peer), two threads, and named sets of `SendMessage` calls for each run.
- **`Core.tla`** models `Core::WriteMessage`, `Core::Close` and `Core::ReadMessage` (`core.cc:173-183`, `325-386`) for message pipes on one node, composed with `SendWithPorts` below them (`Node == INSTANCE SendWithPorts WITH ...`, sharing its variables).
  - **State.** `table[h]` is the handle table entry of handle `h`: `idle`, `busy` (in transit), or out of the table, either `closed` by the user or `sent` with a message (the distinction is a ghost). `transit[t]` is the set of handles thread `t`'s `WriteMessage` has in transit. `PortOf[h]` is the port of `h`'s dispatcher. The pipes exist from the start, as `CreateMessagePipe`'s success path leaves them.
  - **Steps.** `WriteMessage(t, w)` is everything up to the dispatcher's call: `GetDispatcher`, the `MOJO_RESULT_BUSY` check that no carried handle is the pipe's own, and `BeginTransit` under `handles_lock_`. It is one step with `SendWithPorts`'s `CallSendMessage`, because nothing in between takes a lock. `EndWriteMessage(t)` runs once `SendMessage` has returned: `CompleteTransit` when the send succeeded, `CancelTransit` otherwise. `Close(t, h)` is `GetAndRemoveDispatcher` (refused for a handle in transit) followed by `ClosePort`; `ReadMessage(t, h)` is `GetDispatcher` followed by `GetMessage`. Every other step is a step of `SendWithPorts` (`NodeStep`). A call that fails before it changes anything is not a step.
  - **Collaborators not in the repository.** `HandleTable` and `message_pipe_dispatcher.cc` are not here. The model uses their behaviour as `core.cc` relies on it: `GetDispatcher` finds a handle in transit too, `BeginTransit` fails without effect if a handle is busy or unknown, and the dispatcher's `WriteMessage` returns `Node::SendMessage`'s result. That result is read off the carried ports: they are Buffering after a successful send and still Receiving after a refused one, since no other call can touch a busy handle's port.
- **`MCCore.tla`** has ports `a`-`b` (a local pipe), `c` and `d` (each with a remote peer), their handles `ha`, `hb`, `hc` and `hd`, two threads, and two sets of `WriteMessage` calls: `MCWrites` for `core_write` and `WritesChained` (`ha` carries `hb`, `hb` carries `hc`) for `send_deadlock`.
- **`HandleTable.tla`** models the calls of `Core` that add dispatchers to the handle table or take them out, with the table's capacity (`core.cc:65-154`, `173-183`, `225-239`, `298-323`, `388-424`, `494-545`).
  - **State.** A dispatcher is a model value with a `kind` (pipe, data, waitset, buffer, wrapper) and a `status`: unused (not created yet), open, closed (its `Close()` ran) or dropped (its last reference went away without `Close()`). `inTable` is the set of dispatchers with a handle; it never holds more than `MaxHandles`. `pc[t]` records a `CreateMessagePipe` or `CreateDataPipe` between its two `AddDispatcher` calls, and `crashed` a null dereference.
  - **Steps.** Each call is one step, because `handles_lock_` is taken once inside it, except `CreateMessagePipe` and `CreateDataPipe`. These take two steps, `CreatePipeFirst` and `CreatePipeSecond`, because the lock is released between their two `AddDispatcher` calls. Every step includes its error path when the table is full:
    - the first pipe handle: the dispatcher is dropped;
    - the second pipe handle: `Close()` through the null `unused`, a crash;
    - a wait set or shared buffer: the new dispatcher is closed;
    - `DuplicateBufferHandle`: the *original* buffer is closed and the duplicate dropped;
    - a platform-handle wrapper, or `Create{Parent,Child}MessagePipe`: the dispatcher is dropped, and the latter two return an invalid handle;
    - received dispatchers (`AddDispatchersFromTransit`): all are closed.
  - **Other steps.** `Close` and `PassWrappedPlatformHandle` remove a handle the user holds and close its dispatcher.
  - **Collaborators not in the repository.** `HandleTable` fails `AddDispatcher` at capacity and adds received dispatchers all or none. The dispatchers' `Close()` and destructors are not here; the model states nothing about the ports of dropped dispatchers.
- **`MCHandleTable.tla`** has two threads, four dispatchers and `MaxHandles = 2`.

- **`NodeController.tla`** models `node_controller.cc` and the `NodeChannel`s between nodes, for one parent (broker) and its children.
  - **Channels.** A channel is a pair of ends, `<<channel, side>>`. `wire[e]` is the FIFO of messages end `e` wrote that the other end has not read. `endState` is `none` (not created), `idle` (created, not started), `started` or `closed`; a write to a closed end is dropped, as `Channel::Write` after `ShutDown`. `remote[e]` is `SetRemoteNodeName`. The bootstrap channels exist from the start; `IntroChans` are the names `OnRequestIntroduction` may give a new `PlatformChannelPair`.
  - **Controller state.** `peers`, `pendingMsgs` (`pending_peer_messages_`), `pendingChildren`, `bootstrap` (`bootstrap_channel_to_parent_`), `parentName`, `reserved` (`reserved_ports_` for the one token) and `pendingToken` (`pending_token_connections_`).
  - **Ports.** Only two ports are modelled: the parent's reserved port and `PortChild`'s connector port, both created Uninitialized. `PortSend` queues a message on such a port until `InitializePort` flushes it (`node.cc:71-91`, `272-284`). `UserSend` stands for the other ports messages one node forwards to another (`Sends` bounds them), which go through `SendPeerMessage` and may wait for an introduction.
  - **Steps.** The embedder's calls (`ConnectToChild`, `ConnectToParent`, `ReservePortForToken`, `ConnectToParentPortByToken`) are each one task on the IO thread. `Receive(e)` is `NodeChannel::OnChannelMessage` dispatching one message to a handler (`OnAcceptChild`, `OnAcceptParent`, `OnPortsMessage`, `OnConnectToPort`, `OnConnectToPortAck`, `OnRequestIntroduction`, `OnIntroduce`). `ChannelError(e)` is `OnChannelError` once the other end is closed and everything it wrote has been read, and it runs `DropPeer`, which ends with `Node::LostConnectionToNode` on the two modelled ports. `Crash(n)` closes every end a node in `Crashable` holds; the node takes no further step.
  - **World.** As in `PortsNode`, a handler composes the helpers it calls (`SendPeerMessage`, `ForwardMessages`, `AddPeer`, `DropPeer`, `InitializePort`, `Write`, `ShutDown`) on a record of the variables, in the code's order. Dereferencing `peers_.end()` or a failing `CHECK` sets `oops`.
  - **Left out.** `InitializePortDeferred` and `pending_peer_ports_` (no modelled call path uses them, so the loop at the end of `AddPeer` is always empty), the local `incoming_messages_` queue of `ForwardMessage`, and `PortStatusChanged`.
  - **Revisions.** `node_channel.cc` is older than `node_controller.cc`: it has `RequestPortConnection` and no `ConnectToPortAck`. The model follows the controller's calls.
  - **Assumption.** The child learns the port token from the parent's embedder after the parent reserved it. A `ConnectToPort` that arrives before the reservation would drop the child; the model excludes that order (part_004: "The embedder must provide a channel to communicate the token to each node").
- **`PeerDelivery.tla`** is the abstract specification of what the controllers promise the ports layer through `ForwardMessage`: a ports message forwarded from one node to another is received exactly once, and the messages of one sender reach one receiver in the order they were forwarded. Its state is the count `sent[s][d]`, the received numbers `recv[d][s]` and the set `inflight[s][d]`; `Deliver` hands over the oldest message in flight. Once a node has failed (`Fail`), messages in flight may be lost (`Lose`) and a forward may go straight into a dead channel (`ForwardLost`).
  - **Refinement.** `NodeController` instantiates it as `Delivery == INSTANCE PeerDelivery WITH ...`. `sent` and `recv` map to the ghosts of the same name, `failed` to `crashed # {}`, and `inflight[s][d]` to `InFlight(s, d)`: the numbers of the ports messages of `s` queued in `pendingMsgs[s][d]` or on any channel end that `d` holds. `PeerDeliveryRefined == Delivery!Spec` is checked as a temporal property.
- **`MCNodeController.tla`** has parent `p`, children `c1` and `c2`, and two introduction channel names. `c1` connects its port to `p`'s reserved port, and `c1` and `c2` forward one ports message to each other, which needs an introduction. Two channel names are needed because both children may ask for the introduction at once; with one, the second request would block in the model, which the real code does not.

## Runs

| Run | cfg | Expect | What it shows |
|---|---|---|---|
| `safety` | `MCPortsNode.cfg` | pass (about 205k states) | `c` sends twice and `a` once, `c` may close and `n2` may die. So two messages of the c-d pipe race a transfer of `c` or `d` to `n2`, a transfer of `a` within `n1`, and forwarding through proxies. See the property list below. |
| `delivery_liveness` | `MCPortsNodeLive.cfg` | pass (about 10k states) | `EventuallyAtReceiver`: every message sent reaches the port that currently holds the reading end, unless that end is closed. |
| `proxy_collapse` | `MCProxyCollapse.cfg` | violation | `ProxiesCollapse` fails. See finding 1. |
| `closure_observed` | `MCClosureObserved.cfg` | violation | `ClosureObserved` fails. See finding 2. |
| `orphan_ports` | `MCOrphanPorts.cfg` | violation | `NoOrphanPorts` fails. See finding 3. |
| `peer_loss` | `MCPeerLoss.cfg` | violation | `PeerLossObserved` fails when `n2` may die. See finding 8. |
| `core_write` | `MCCore.cfg` | pass (about 30k states) | Two threads call `WriteMessage`, `ReadMessage` and `Close` on `ha`, `hb`, `hc` and `hd`. The writes send `hc` from `ha` and from `hd`, write on `hc` (which races its transfer), and send `hb` from `ha` (which `Node` refuses with `CannotSendPeer` after locking `b`). `Close` may race any of them. `SendLinearizable` (from `SendWithPorts`, temporal): every step refines `SendAtomic`, so each `SendMessage`, `ClosePort` and `ErasePort` takes effect at one point; a refused send gives its sequence number back and leaves every port as it was. `HandlesMatchPorts`: a handle the user holds names a Receiving port no send has taken, a closed one a port no send took, and a sent one a port exactly one send took. `TransitEnds` (liveness): every handle put in transit leaves it, so it is not left busy, refusing `Close` and every send, for ever. |
| `handle_table_full` | `MCHandleTable.cfg` | violation | `HandlesUsable` fails: two `CreateMessagePipe` calls share a two-handle table, and the second `AddDispatcher` of one of them crashes. See findings 9 and 10. |
| `send_deadlock` | `MCCoreDeadlock.cfg` (on `MCCore`) | violation | `TransitEnds` fails: `WriteMessage(ha, [hb])` and `WriteMessage(hb, [hc])` deadlock. See finding 6. |
| `controller_safety` | `MCNodeController.cfg` | pass (about 27k states) | No crash; two messages on each token-connected port. `PeerDeliveryRefined`: the controllers implement the abstract `PeerDelivery` (see Modules): ports messages from one node to another are received exactly once and in the order they were forwarded, through pending queues, outgoing queues and duplicate introductions. `PortReadyFirst`: no message reaches a token-connected port before it is initialized (the comment at `node_controller.cc:419-434`). `NoOops`. `TypeOK`, which includes that `parent_name_` is a node name and every `peers_` entry is an end the node holds. |
| `controller_crash` | `MCNodeControllerCrash.cfg` | pass (about 2k states) | Both children may crash; `c1` forwards one message to `c2`. `PeerLossDetected`: every live node eventually observes a child's loss: the child leaves its `peers_`, and a port whose peer was there (the parent's token port, for `c1`) gets `peer_closed` (`LostConnectionToNode`). `PeerDeliveryRefined` with crashes: a message is lost only after a node failed, and none is duplicated or overtaken. In behaviours without a crash, `EventuallyDelivered` (every forwarded message is received, including those queued for an introduction) and `TokenConnects` (both ports of the token connection become initialized). `NoOops`. |
| `stale_parent` | `MCStaleParent.cfg` | violation | `NoOops` fails when the parent may crash. See finding 7. |

The `safety` run checks these properties:
- `InOrderDelivery`: reads are gap-free and in order.
- `MessagesNotLost`: no message is dropped while its reading end is open and alive (`EndGone`), also when `LostConnectionToNode` erases proxies.
- `NoOops`: no handler reaches an OOPS.
- `TypeOK`: it includes that every live port counts from `kInitialSequenceNum`.

Every property of a passing run has a mutant in `PROJECT.json`. The mutant is a plausible bug in the mapped code, and TLC finds the property violated under it:

| Property | Mutated code | The bug |
|---|---|---|
| `TypeOK` | descriptor | `next_recv` off by one |
| `InOrderDelivery` | descriptor | reuses the last sequence number |
| `NoOops` | `PortSendable` | the `kReceiving` check dropped |
| `MessagesNotLost` | `MaybeRemoveProxy` | no `CanAcceptMoreMessages` guard |
| `EventuallyAtReceiver` | `OnPortAccepted` | does not forward its buffered messages |
| `TypeOK` (Core) | `LockPort` (SendWithPorts) | gives a sequence number back on the early `PortStateUnexpected` return, where none was taken |
| `SendLinearizable` | `UnlockOnError` | no `next_sequence_num_to_send--` |
| `HandlesMatchPorts` | `EndWriteMessage` | calls `CompleteTransit` whatever the send returned |
| `TransitEnds` | `EndWriteMessage` | no `CancelTransit` after a refused send |
| `TypeOK` (NodeController) | `OnAcceptChild` | stores the token as `parent_name_` (both parameters are `ports::NodeName`) |
| `PeerDeliveryRefined` | `InitializePort` | flushes the outgoing queue newest first |
| `PeerDeliveryRefined` (crash run) | `AddPeer` | discards the pending messages instead of writing them |
| `PortReadyFirst` | `OnConnectToPort` | initializes the port before sending `ConnectToPortAck` |
| `NoOops` (NodeController) | `ConnectToParentPortByToken` | sends `ConnectToPort` at once instead of queuing it until the parent is known |
| `EventuallyDelivered` | `AddPeer` | discards the pending messages instead of writing them |
| `TokenConnects` | `OnAcceptChild` | does not flush the pending token connections |
| `PeerLossDetected` | `DropPeer` | does not call `LostConnectionToNode` |

### Findings

1. **Proxy never removed when the peer never sent** (`node.cc:538` against `node.cc:598`).
   - `OnObserveProxy` acks with `next_sequence_num_to_send - 1`. That is 0 for a port that has not sent yet, because sequence numbers start at 1. 0 is also `kInvalidSequenceNum`, "send ObserveProxy again".
   - The acking port has already switched its peer to the new port. So the resent `ObserveProxy` is passed between the two real ends forever, and the proxy is never erased.
   - Trace: `a` sends `c`; `c1` is accepted on `n2`; `d0` acks 0; the ObserveProxy goes `c1 -> d0 -> c1 -> ...`.
2. **Closure lost while a port is in transit** (`node.cc:640`).
   - `ObserveClosure` on a Buffering port arms removal but is not forwarded, and `OnPortAccepted` then removes the proxy without telling anyone.
   - The port now holding the end never learns that its peer closed. This is the spec's scenario 4 (close C before PortAccepted).
3. **Ports orphaned by ClosePort** (`node.cc:141-166`).
   - `ClosePort` erases a port without closing the ports carried by messages in its queue.
   - A message accepted between `state = kClosed` and `ErasePort` is queued on the closed port, because `CanAcceptMoreMessages` is true for it.
   - The carried port stays Receiving and nobody can reach it. Its peer never sees a closure.

4. **Carried ports left locked** (`node.cc:803`). `tlc -config MCLockLeak.cfg MCSendWithPorts` shows it (`NoLockLeak`). The configuration is kept beside the runs; the runs of `SendWithPorts` now go through `Core` (see `core_write`), and this one calls `Node::SendMessage` directly.
   - The error loop is `for (j = 0; j <= i; ++j) ports[i]->lock.unlock();`: it unlocks `ports[i]` `i+1` times and never `ports[0..i-1]`.
   - Trace: one thread sends from `a` a message carrying `c` and then `b`, `a`'s peer. `c` is locked, `b` is locked and refused with `CannotSendPeer`, `b` is unlocked twice, and `SendMessage` returns with `c` still locked. Every later operation on `c` blocks.
5. **Null port dereferenced** (`node.cc:789`). `tlc -config MCNullPort.cfg MCSendWithPorts` shows it (`NoNullPort`). The configuration is kept beside the runs but is not a run: through `Core` the race cannot happen (see below), and the run went to `handle_table_full`.
   - `GetPort` returns null for a port that is no longer in `ports_`, and the result is locked without a check.
   - Trace: `a` sends `c`; the proxy of `c` is erased; another thread sends `c` from `b` and crashes. Spec scenario 5 expects `ERROR_PORT_STATE_UNEXPECTED`.
   - Through `Core` this cannot happen: the handle of `c` is busy while one `WriteMessage` carries it and gone once it is sent, so no second message can carry `c` (`core_write`). Direct callers of `Node::SendMessage` meet it. For the same reason the state check `TakePort` makes on a carried port never fails through `Core`: with it removed, `HandlesMatchPorts` still holds. `tlc -config MCSendWithPorts.cfg MCSendWithPorts` checks `SequenceRolledBack` (the invariant form of the rollback) and `TakenOnce` (a port is taken by at most one send) on `Node::SendMessage` alone, where that check is needed.
6. **Lock-order deadlock between senders** (`node.cc:784`).
   - The sender's own lock is taken before `send_with_ports_lock_`, the carried ports' locks after it. The comment says the mutex keeps threads from locking ports in arbitrary order, but it does not cover the first lock.
   - Crossed sends are not needed. Any sender that holds `b` and waits for `send_with_ports_lock_` deadlocks with a sender that holds the mutex and waits for `b` as a carried port. `GetDispatcher` hands out a handle in transit, so the public API reaches it.
   - Trace (`send_deadlock`): thread 2 calls `WriteMessage(ha, [hb])`, locks `a` and takes `send_with_ports_lock_`; thread 1 calls `WriteMessage(hb, [hc])` and locks `b`; thread 2 waits for `b`, thread 1 for `send_with_ports_lock_`. `hb` stays busy for ever. `tlc -config MCSendDeadlock.cfg MCSendWithPorts` shows the crossed version (`a` sends `c` while `c` sends `a`) on `Node::SendMessage` alone.

7. **Parent's channel dereferenced after it was dropped** (`node_controller.cc:282`, also `:244`).
   - When the parent's channel fails, `OnChannelError` runs `DropPeer(parent)`. It erases `peers_[parent_name_]` but leaves `parent_name_` set.
   - `ConnectToParentPortByTokenNow` then calls `peers_.find(parent_name_)->second` with no check. `SendPeerMessage` does the same for the first message to an unknown peer, checked only by a `DCHECK`.
   - Trace: `p` and `c1` bootstrap, `p` crashes, `c1` reads the channel error and drops `p`, the embedder calls `ConnectToParentPortByToken` on `c1`.

8. **A port whose peer was in transit to a dead node is never told** (`node.cc:363`).
   - `LostConnectionToNode(l)` marks peer-closed only the ports whose `peer_node_name` is `l`, and erases the ones that are not Receiving.
   - A port whose peer is a Buffering or Proxying port on its own node, on its way to `l`, is not marked. That peer is erased, because its own peer is on `l`.
   - Trace: `a` sends a message carrying `d` to `n2`; `n2` dies before accepting it; `n1` erases `d` and leaves `c`, whose peer is still `d` on `n1`, Receiving without `peer_closed`. `c`'s reads wait for ever, and its sends go to a port that no longer exists. The spec's overview says "a lost node causes surviving peers to observe closure".

9. **Null dereference when the handle table fills during `CreateMessagePipe`** (`core.cc:317`, and `core.cc:418` in `CreateDataPipe`).
   - On the second `AddDispatcher`'s failure the cleanup runs `scoped_refptr<Dispatcher> unused; unused->Close();` before `GetAndRemoveDispatcher` sets `unused`.
   - No misuse is needed: the lock is released between the two `AddDispatcher` calls. Trace (`handle_table_full`): with two free handles, `t1` and `t2` each call `CreateMessagePipe` and each add their first dispatcher; `t1`'s second `AddDispatcher` finds the table full and crashes.
   - Even with the two lines swapped, the dispatcher of port 1, which never got a handle, is dropped without `Close()`.

10. **`DuplicateBufferHandle` closes the original buffer on a full table** (`core.cc:539`).
   - When `AddDispatcher` fails for the duplicate, the code calls `dispatcher->Close()`, and `dispatcher` is the original buffer. That dispatcher keeps its handle in the table, so the user's buffer handle names a closed dispatcher. The duplicate, `new_dispatcher`, is dropped unclosed.
   - `tlc -config MCHandleDup.cfg MCHandleTable` checks `TableDispatchersOpen`, the second conjunct of `HandlesUsable`, alone. Trace: a pipe takes one handle, `CreateSharedBuffer` takes the other, and `DuplicateBufferHandle` on the buffer finds the table full.

## Bounds

- **Two nodes and two pipes.** This is enough for every event type to cross nodes and to stay on one node, for a port to be carried over the other pipe of its own pair, and for the ObserveProxy forwarding chain.
- **`MaxGen = 2` in the passing runs.** This lets an end be transferred and then forwarded once more by a proxy, which takes it again. The name bound can block a forward (`CanDrawName`, `NamesForForward`). In the passing configurations no forward runs out of names, which the liveness run would show as a violation.
- **Sends.** With two messages from `c`, a transfer can fall between them. `MaxSends = 2` on every end exceeded 3 million states.
- **`core_write`: two threads, two calls each, four handles.** Two threads are enough for every race on one lock or on one handle, and with two calls a thread can write on, read or close a handle after another thread's call sent, refused or closed it. The four writes cover a successful send of a handle, two threads carrying the same handle, a write on a handle in transit and a refused send after a carried port was locked. No handle that is carried also sends a message with handles (`hc` sends an empty one), so the writes cannot deadlock: a chain such as `ha` carrying `hb` while `hb` carries `hc` deadlocks (finding 6, `send_deadlock`), and `TransitEnds` would only repeat that finding. Port `d` is there so that two threads can carry `hc` from different ports.
- **NodeController: one parent and two children.** Two children are the smallest system with an introduction, and with a race of two introductions for the same pair. `PortSends = 2` in `controller_safety` gives two messages on one channel to reorder. The crash run sends nothing on the token ports (`PortSends = 0`) and has one ports message, from `c1` to `c2`, so that its liveness checking stays small; the race of two introductions is left to `controller_safety`.
- **`Losable = {n2}` in `safety`.** `n2` is the node ports are carried to, so its death catches ports in transit, proxies on `n1` pointing at it and messages queued for it. The liveness run keeps `Losable` empty: after a death its properties would hold trivially.
- **`handle_table_full`: two threads, two calls each, four dispatchers, two handles.** Two handles are the fewest for one pipe's first handle to fit while the table fills before its second; two threads are needed for the fill to happen between the two `AddDispatcher` calls of a call that began with room for both. Threads and dispatchers are symmetric.
- **The other violation runs use the smallest bounds that show the bug:** one send from `a` and `MaxGen = 1` (`MaxGen = 2` in `peer_loss`).

## Fairness

The controller's incoming queue and the channels are FIFO and drained by their threads, so every event handed to `ForwardMessage` is eventually accepted. This is stated per logical user message (`DeliverUser(e, i)`) and per target port for control events (`DeliverControl(p)`).

A single weak fairness on "deliver something" would not do. It lets an endlessly re-forwarded `ObserveProxy` starve everything else, which real FIFO queues do not.

`ClosePortErase` is weakly fair: the thread that closed a port goes on to erase it. `LostConnectionToNode` is weakly fair: the IO thread reports the failed channel, and `DropPeer` calls it. The user is never required to act.

In `SendWithPorts` every thread that can step is weakly fair (the OS schedules every runnable thread), and so is the IO thread's erase of a sent port. `Core` adds weak fairness on `EndWriteMessage`: the thread whose `SendMessage` returned goes straight on to `CompleteTransit` or `CancelTransit`. The users' calls are not fair.

In `NodeController` every channel end is weakly fair for reading its next message and for reporting its error: the IO thread's message loop watches every started channel. The embedder's calls and the user's sends are not fair: they may never happen.

`CHECK_DEADLOCK FALSE` is set because the users' calls are bounded. Once every message is read and every event accepted, the system is idle, and that is a state a real node reaches.

## Not modelled yet (plan for later work)

1. **Uninitialized ports inside `PortsNode`.** `NodeController` has the two token ports, but `PortsNode` starts every port initialized.
2. **An abstract specification of a pipe** (a FIFO per direction, closing), with `PortsNode` shown to refine it through a mapping from the port records to the per-end queues. `NodeController` already refines `PeerDelivery`.
3. **The incoming-message queue of `NodeController`** (`AcceptIncomingMessages`, `PortStatusChanged`).

Out of scope:
- **The Windows channel.** `channel_win.cc` is a stub: its reads and writes are compiled out with `#if 0`, so `Write` drops every message and nothing is read. `NodeController` models a channel by what `NodeChannel` needs of it, a FIFO pair of ends.
- **The rest of Core.** `Wait`, `WaitMany`, `AsyncWait` and the wait-set calls need the `Waiter` and the dispatchers' signal states, and data-pipe I/O and buffer mapping live in their dispatchers. None of these is in the repository. Received handles reach `HandleTable` (`ReceiveDispatchers`), but `Core` does not link them to the messages `SendWithPorts` delivers. `Create{Parent,Child}MessagePipe` ignore a failed `AddDispatcher`. What then happens to their port depends on `~MessagePipeDispatcher`, which is not in the repository, so that hazard (`core.cc:142`) has no property.
- **Sequence-number roll-over.** `message_queue.cc:56` is a TODO. Roll-over needs 2^32 messages.
- **The older prototypes.** The spec follows the later design.
