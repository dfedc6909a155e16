----------------------------- MODULE WifiTransport -----------------------------
(***************************************************************************)
(* The Wi-Fi transport of the agent link (components/agent_link/src/       *)
(* transport_wifi.cpp) and the tasks that share it:                        *)
(*   WebSocketWorker   owns the client: it says hello, announces the link, *)
(*                     sends the queue and recycles a lost connection;     *)
(*   CallbackWorker    hands connections and data over to the core;        *)
(*   the client's and the Wi-Fi driver's event tasks, which may only set   *)
(*                     flags, queue what was received and signal;          *)
(*   a caller          of wifi_send_ctrl and the stream calls;             *)
(*   the owner         of wifi_start and wifi_stop, which a callback may   *)
(*                     call as well.                                       *)
(*                                                                         *)
(* What is done under s_tx_lock is one step.  A client reconnects by       *)
(* itself after 2 s (reconnect_timeout_ms), which is later than the worker *)
(* recycles it.  How long the worker waits before it connects again is     *)
(* left out.                                                               *)
(***************************************************************************)
EXTENDS Integers, Sequences, FiniteSets

CONSTANTS
  TxItems,        \* kTxItemCapacity
  TxAudio,        \* kAudioItemCapacity, of those
  RxItems,        \* kRxItemCapacity
  CallbackItems,  \* kCallbackItemCapacity
  MaxChunks,      \* chunks of a stream
  MaxStarts       \* calls of wifi_start

ASSUME WifiAssumption ==
  /\ {TxItems, TxAudio, RxItems, MaxChunks, MaxStarts} \subseteq Nat
  /\ CallbackItems \in Nat \ {0, 1}

VARIABLES
  flag,     \* the atomic flags
  bits,     \* s_ws_events: those that do more than wake the worker
  closed,   \* which of s_public_calls and s_callback_calls is closed
  tx,       \* s_tx_queue, which is what s_tx_policy has admitted
  uplink,   \* s_uplink: the stream is active, its next chunk
  frag,     \* s_fragments: a message has begun
  rx,       \* s_rx_queue
  cbq,      \* s_callback_queue
  gen,      \* s_callback_generation
  ws,       \* the worker
  cw,       \* the callback worker, inside s_callback_calls unless idle; history:
            \* the generation when it entered
  inside,   \* a public call is inside s_public_calls
  life,     \* s_lifecycle_mtx: who holds it, and where its procedure is
  net,      \* the Bridge and the network
  level,    \* history: what the core was told last of a link of this start
  wire      \* history: the stream the Bridge has seen on this connection

queues == <<tx, uplink>>
arriving == <<frag, rx>>
vars == <<flag, bits, closed, queues, arriving, cbq, gen, ws, cw, inside, life, net, level, wire>>

NoItem == [t |-> "none", gen |-> 0]
IdleCallback == [pc |-> "idle", item |-> NoItem, since |-> 0]
Worker == [pc |-> "none", bits |-> {}, client |-> FALSE]
NoStream == [active |-> FALSE, next |-> 0]
NothingSeen == [open |-> FALSE, next |-> 0, sound |-> TRUE]
NoNet == [open |-> FALSE, hello |-> FALSE, acked |-> FALSE, part |-> FALSE]

Init ==
  /\ flag = {} /\ bits = {}
  /\ closed = {"calls", "callbacks"}
  /\ tx = <<>> /\ uplink = NoStream
  /\ frag = FALSE /\ rx = <<>> /\ cbq = <<>> /\ gen = 0
  /\ ws = Worker
  /\ cw = IdleCallback
  /\ inside = FALSE
  /\ life = [by |-> "none", pc |-> "off"]
  /\ net = NoNet
  /\ level = "down"
  /\ wire = NothingSeen

Is(f) == f \in flag

\* MarkConnectionUnusable clears these, and then asks for a new connection.
Unusable == flag \ {"accepting", "authenticated", "connected"}

MarkConnectionUnusable == flag' = Unusable /\ bits' = bits \cup {"recycle"}

\* The queues, the locks and the event group exist from StartCreates to
\* StopDeletes.
Exists == life.pc \notin {"off", "create"}

\* PublicCallBarrier counts those inside, and opens again only when they are
\* out.
TryEnter(barrier) == barrier \notin closed
OpenBarriers  == cw.pc = "idle" /\ ~inside /\ closed' = {}
CloseBarriers == closed' = {"calls", "callbacks"}

----------------------------------------------------------------------------
(* The queue of the callbacks.                                             *)

Counted == Cardinality({i \in DOMAIN cbq : cbq[i].t # "lost"})

(* Mutant: the last place is not kept for a disconnection.                 *)
RoomForAny(t) == Len(cbq) < CallbackItems

\* QueueCallback leaves one place for a disconnection.
RoomFor(t) == Len(cbq) < CallbackItems /\ (t = "lost" \/ Counted < CallbackItems - 1)

QueueCallback(t) == cbq' = Append(cbq, [t |-> t, gen |-> gen])

----------------------------------------------------------------------------
(* WebSocketWorker.                                                        *)

Goes(pc) == ws' = [ws EXCEPT !.pc = pc]

\* The rest of the state, which a step of the worker leaves alone.
Others == UNCHANGED <<closed, gen, cw, inside, life, level>>

\* Where a turn begins: SendHello and the announcement wait for their bits,
\* and the queues are looked at when they hold something, which is what
\* kWsTxReady and kWsRxReady say.
Begin(seen) ==
  IF "connected" \in seen THEN "hello"
  ELSE IF "authenticated" \in seen THEN "ready" ELSE "transmit"

\* CreateWebSocketClient, when there is an address and no client.  It may fail:
\* the turn is then over and the bits it took are gone.
CreateWebSocketClient(seen) ==
  {[pc |-> Begin(seen), bits |-> seen, client |-> TRUE], [Worker EXCEPT !.pc = "top"]}

Turn(seen, client) ==
  IF ~client /\ Is("ip") THEN CreateWebSocketClient(seen)
  ELSE {[pc |-> Begin(seen), bits |-> seen, client |-> client]}

\* WaitRetry, before a new client is made: a stop ends the worker.
WaitRetry == ~Is("stopping")

AfterTransmit == IF rx = <<>> THEN "top" ELSE "receive"

(* It takes the bits, or wakes up after kWorkerPollMs.  A client is made   *)
(* when there is an address.                                               *)
WorkerLooks ==
  /\ ws.pc = "top"
  /\ bits # {} \/ tx # <<>> \/ rx # <<>> \/ Is("stopping") \/ (~ws.client /\ Is("ip"))
  /\ bits' = {}
  /\ CASE Is("stopping") -> Goes("close")
       [] ~Is("stopping") /\ "recycle" \in bits ->
            ws' = [ws EXCEPT !.pc = "recycle", !.bits = bits \ {"recycle"}]
       [] OTHER -> ws' \in Turn(bits, ws.client)
  /\ Others /\ UNCHANGED <<flag, queues, arriving, cbq, net, wire>>

(* CloseAdmissionAndResetStreams, when it recycles and when it stops,      *)
WorkerCloses ==
  /\ ws.pc \in {"recycle", "close"}
  /\ flag' = flag \ {"accepting"}
  /\ uplink' = NoStream
  /\ Goes(IF ws.pc = "close" THEN "closed" ELSE "recycled")
  /\ Others /\ UNCHANGED <<bits, tx, arriving, cbq, net, wire>>

(* Mutant: the queue is left for the next connection.                      *)
LeaveTxQueue == tx' = tx

\* DrainTxQueue releases what it takes and starts to count from nothing.
DrainTxQueue == tx' = <<>>

\* The connection is over, with what either side had begun to send.
Cut == net' = NoNet /\ wire' = NothingSeen

(* PublishDisconnected and DestroyWebSocketClient, and the queues are      *)
(* drained; nobody else uses them now.  A worker that stops gives          *)
(* s_worker_done and is gone, one that recycles makes a client and goes on *)
(* with the bits it has taken.                                             *)
WorkerDestroys ==
  /\ ws.pc \in {"recycled", "closed"}
  /\ IF Is("announced") /\ RoomFor("lost") THEN QueueCallback("lost") ELSE UNCHANGED cbq
  /\ flag' = (IF ws.client THEN Unusable ELSE flag) \ {"announced"}
  /\ IF ws.client
     THEN bits' = {} /\ frag' = FALSE /\ Cut
     ELSE UNCHANGED <<bits, frag, net, wire>>
  /\ DrainTxQueue /\ uplink' = NoStream
  /\ rx' = <<>>
  /\ IF ws.pc = "closed" THEN ws' = [Worker EXCEPT !.pc = "done"]
     ELSE IF Is("ip") /\ ~WaitRetry THEN ws' = [Worker EXCEPT !.pc = "close"]
     ELSE ws' \in Turn(ws.bits, FALSE)
  /\ Others

(* SendHello, or MarkConnectionUnusable when it fails,                     *)
WorkerHello ==
  /\ ws.pc = "hello"
  /\ IF Is("connected")
     THEN IF net.open
          THEN net' = [net EXCEPT !.hello = TRUE] /\ UNCHANGED <<flag, bits>>
          ELSE MarkConnectionUnusable /\ UNCHANGED net
     ELSE UNCHANGED <<flag, bits, net>>
  /\ ws' = [ws EXCEPT !.pc = Begin(ws.bits \ {"connected"}), !.bits = @ \ {"connected"}]
  /\ Others /\ UNCHANGED <<queues, arriving, cbq, wire>>

(* the link is announced once,                                             *)
WorkerReady ==
  /\ ws.pc = "ready"
  /\ IF {"authenticated", "ip", "connected"} \subseteq flag
     THEN IF Is("announced") \/ RoomFor("ready")
          THEN /\ flag' = flag \cup {"accepting", "announced"} /\ UNCHANGED bits
               /\ IF Is("announced") THEN UNCHANGED cbq ELSE QueueCallback("ready")
          ELSE /\ flag' = Unusable \cup {"announced"}
               /\ bits' = bits \cup {"recycle"} /\ UNCHANGED cbq
     ELSE UNCHANGED <<flag, bits, cbq>>
  /\ ws' = [ws EXCEPT !.pc = "transmit", !.bits = {}]
  /\ Others /\ UNCHANGED <<queues, arriving, net, wire>>

\* The stream as the Bridge sees it, once a frame has arrived.
Seen(frame) ==
  CASE frame.t = "ctrl"  -> wire
    [] frame.t = "start" -> [open |-> TRUE, next |-> 0, sound |-> wire.sound /\ ~wire.open]
    [] frame.t = "chunk" -> [wire EXCEPT !.next = @ + 1,
                                         !.sound = @ /\ wire.open /\ frame.n = wire.next]
    [] OTHER             -> [open |-> FALSE, next |-> 0,
                             sound |-> wire.sound /\ wire.open /\ frame.n = wire.next]

(* DrainTransmit: an item is taken while the link is authenticated, sent,  *)
(* and its place released.                                                 *)
WorkerTransmits ==
  /\ ws.pc = "transmit"
  /\ IF Is("authenticated") /\ ws.client /\ tx # <<>>
     THEN /\ tx' = Tail(tx)
          /\ IF net.open
             THEN wire' = Seen(Head(tx)) /\ UNCHANGED <<flag, bits, ws>>
             ELSE MarkConnectionUnusable /\ Goes(AfterTransmit) /\ UNCHANGED wire
     ELSE Goes(AfterTransmit) /\ UNCHANGED <<flag, bits, tx, wire>>
  /\ Others /\ UNCHANGED <<uplink, arriving, cbq, net>>

(* DrainReceive with DispatchText and DispatchBinary: the acknowledgement  *)
(* of the hello opens the link, anything else is for the core.             *)
WorkerReceives ==
  /\ ws.pc = "receive" /\ rx # <<>>
  /\ rx' = Tail(rx)
  /\ IF Head(rx) = "ack"
     THEN /\ IF Is("authenticated") THEN UNCHANGED <<flag, bits>>
             ELSE /\ flag' = flag \cup {"authenticated", "accepting"}
                  /\ bits' = bits \cup {"authenticated"}
          /\ UNCHANGED cbq
     ELSE IF ~Is("authenticated") THEN UNCHANGED <<flag, bits, cbq>>
     ELSE IF RoomFor("data") THEN QueueCallback("data") /\ UNCHANGED <<flag, bits>>
     ELSE MarkConnectionUnusable /\ UNCHANGED cbq
  /\ Others /\ UNCHANGED <<queues, ws, frag, net, wire>>

(* The end of a turn.  A hello that is not acknowledged in time makes the  *)
(* connection unusable.                                                    *)
WorkerTurns ==
  /\ ws.pc = "receive" /\ rx = <<>>
  /\ Goes("top")
  /\ Others /\ UNCHANGED <<flag, bits, queues, arriving, cbq, net, wire>>

HelloTimesOut ==
  /\ ws.pc = "top" /\ net.hello /\ Is("connected") /\ ~Is("authenticated")
  /\ MarkConnectionUnusable
  /\ Others /\ UNCHANGED <<queues, ws, arriving, cbq, net, wire>>

WebSocketWorker ==
  \/ WorkerLooks \/ WorkerCloses \/ WorkerDestroys
  \/ WorkerHello \/ WorkerReady \/ WorkerTransmits
  \/ WorkerReceives \/ WorkerTurns

----------------------------------------------------------------------------
(* CallbackWorker.                                                         *)

\* What a step of the callback worker leaves alone.
Elsewhere == UNCHANGED <<flag, bits, closed, queues, arriving, gen, ws, inside, life, net, wire>>

CallbackIdle == cw' = IdleCallback

\* CallbackCallGuard
CallbackEnters == TryEnter("callbacks")

(* The next item, which a closed barrier drops.                            *)
CallbackTakes ==
  /\ cw.pc = "idle" /\ cbq # <<>>
  /\ cbq' = Tail(cbq)
  /\ cw' = IF CallbackEnters
           THEN [pc |-> "check", item |-> Head(cbq), since |-> gen] ELSE cw
  /\ Elsewhere /\ UNCHANGED level

(* s_callback_generation is loaded: an item of an earlier start is dropped. *)
CallbackChecks ==
  /\ cw.pc = "check"
  /\ IF cw.item.gen = gen THEN cw' = [cw EXCEPT !.pc = "current"] ELSE CallbackIdle
  /\ Elsewhere /\ UNCHANGED <<cbq, level>>

\* After wifi_stop only a disconnection is delivered.
Deliver(item) == Is("active") \/ item.t = "lost"

\* What the core believes of this start's links, once it has been told.
Told(item) ==
  CASE item.t = "ready" /\ item.gen = gen -> "up"
    [] item.t = "lost" -> "down"
    [] OTHER -> level

(* Then s_callbacks_active is: a start may have gone on in between.  The    *)
(* core is told of the link, or is given data.                             *)
CallbackRuns ==
  /\ cw.pc = "current"
  /\ IF Deliver(cw.item)
     THEN cw' = [cw EXCEPT !.pc = "run"] /\ level' = Told(cw.item)
     ELSE CallbackIdle /\ UNCHANGED level
  /\ Elsewhere /\ UNCHANGED cbq

(* A callback that has called wifi_stop returns when that has.             *)
CallbackReturns ==
  /\ cw.pc = "run" /\ life.by # "callback"
  /\ CallbackIdle
  /\ Elsewhere /\ UNCHANGED <<cbq, level>>

CallbackWorker == CallbackTakes \/ CallbackChecks \/ CallbackRuns \/ CallbackReturns

----------------------------------------------------------------------------
(* The public calls.                                                       *)

Kinds == {"ctrl", "start", "chunk", "end", "abort"}

\* What a public call leaves alone.
Apart == UNCHANGED <<flag, bits, closed, arriving, cbq, gen, ws, cw, life, net, level, wire>>

(* wifi_send_ctrl, wifi_stream_start, wifi_send_stream, wifi_stream_end:   *)
(* PublicCallGuard and the first look at s_accepting.                      *)
CallEnters ==
  /\ ~inside /\ TryEnter("calls") /\ Is("accepting")
  /\ inside' = TRUE
  /\ Apart /\ UNCHANGED queues

CanAdmit(kind) ==
  /\ Len(tx) < TxItems
  /\ kind = "chunk" => Cardinality({i \in DOMAIN tx : tx[i].t = "chunk"}) < TxAudio

\* UplinkStreams: whether the call fits the stream, and the stream after it.
Fits(kind) ==
  CASE kind = "start" -> ~uplink.active
    [] kind = "end"   -> uplink.active /\ uplink.next # 0
    [] kind = "ctrl"  -> TRUE
    [] OTHER          -> uplink.active

Advanced(kind) ==
  CASE kind = "start" -> [active |-> TRUE, next |-> 0]
    [] kind = "chunk" -> [uplink EXCEPT !.next = @ + 1]
    [] kind = "ctrl"  -> uplink
    [] OTHER          -> NoStream

Frame(kind) == [t |-> kind, n |-> IF kind = "ctrl" THEN 0 ELSE uplink.next]

CanQueue(kind) ==
  {"accepting", "authenticated"} \subseteq flag /\ Fits(kind) /\ CanAdmit(kind)

(* Under s_tx_lock, with TryQueueLocked: the item is queued and the stream *)
(* advances, or neither.                                                   *)
CallQueues(kind) ==
  /\ inside /\ CanQueue(kind)
  /\ kind = "chunk" => uplink.next < MaxChunks
  /\ tx' = Append(tx, Frame(kind))
  /\ uplink' = Advanced(kind)
  /\ inside' = FALSE
  /\ Apart

(* Otherwise it fails.  Only a chunk does so at once when there is no room: *)
(* the others wait for s_tx_space and look again for as long as             *)
(* kReservedAdmissionWaitMs.                                                *)
CallFails(kind) ==
  /\ inside /\ ~CanQueue(kind)
  /\ inside' = FALSE
  /\ Apart /\ UNCHANGED queues

PublicCall == \E kind \in Kinds : CallQueues(kind) \/ CallFails(kind)

----------------------------------------------------------------------------
(* wifi_start and wifi_stop.                                               *)

\* What a start or a stop leaves alone.
Beside == UNCHANGED <<queues, arriving, cbq, cw, inside, net, wire>>

At(by, pc) == life.by = by /\ life.pc = pc
LifeGoes(pc) == life' = [life EXCEPT !.pc = pc]
Release(pc) == life' = [by |-> "none", pc |-> pc]

(* Both barriers are opened, which fails while something is inside one.    *)
StartOpens ==
  /\ At("none", "off") /\ gen < MaxStarts
  /\ OpenBarriers
  /\ life' = [by |-> "owner", pc |-> "create"]
  /\ Beside /\ UNCHANGED <<flag, bits, gen, ws, level>>

(* InitializeWebSocketWorker,                                              *)
StartCreates ==
  /\ At("owner", "create")
  /\ flag' = flag \ {"stopping"}
  /\ bits' = {}
  /\ ws' = [Worker EXCEPT !.pc = "top"]
  /\ LifeGoes("activate")
  /\ Beside /\ UNCHANGED <<closed, gen, level>>

(* WifiInitOnce may fail,                                                  *)
StartFails ==
  /\ At("owner", "activate")
  /\ CloseBarriers
  /\ flag' = flag \cup {"stopping"}
  /\ LifeGoes("undo")
  /\ Beside /\ UNCHANGED <<bits, gen, ws, level>>

(* and then the generation is counted,                                     *)
StartCounts ==
  /\ At("owner", "activate")
  /\ gen' = gen + 1
  /\ LifeGoes("enable")
  /\ Beside /\ UNCHANGED <<flag, bits, closed, ws, level>>

(* and the callbacks and the station are started.                          *)
StartActivates ==
  /\ At("owner", "enable")
  /\ flag' = flag \cup {"active"}
  /\ Release("on")
  /\ Beside /\ UNCHANGED <<bits, closed, gen, ws, level>>

\* The mutex is free: a callback that finds it taken by a stop returns
\* without stopping, and otherwise looks again.
TryLifecycleLock(by) == At("none", "on") /\ (by = "callback" => cw.pc = "run")

(* wifi_stop by the owner, or by a callback (TryCallbackLifecycleLock).    *)
StopBegins(by) ==
  /\ TryLifecycleLock(by)
  /\ life' = [by |-> by, pc |-> "close"]
  /\ flag' = flag \cup {"stopping"}
  /\ Beside /\ UNCHANGED <<bits, closed, gen, ws, level>>

StopCloses ==
  /\ life.pc = "close"
  /\ CloseBarriers
  /\ LifeGoes("signal")
  /\ Beside /\ UNCHANGED <<flag, bits, gen, ws, level>>

StopSignals ==
  /\ life.pc = "signal"
  /\ flag' = flag \ {"active", "accepting", "ip"}
  /\ LifeGoes("join")
  /\ Beside /\ UNCHANGED <<bits, closed, gen, ws, level>>

(* The worker is waited for.  A start that fails waits for 5 s at most,     *)
(* which is enough: its worker has no address yet, hence no client, and    *)
(* looks at s_stopping every kWorkerPollMs.                                *)
StopJoins ==
  /\ life.pc \in {"join", "undo"} /\ ws.pc = "done"
  /\ ws' = Worker
  /\ LifeGoes(IF life.pc = "undo" THEN "delete" ELSE "calls")
  /\ Beside /\ UNCHANGED <<flag, bits, closed, gen, level>>

(* Mutant: the calls inside are not waited for.                            *)
CallsLeftInside == TRUE

CallsAreOut == ~inside

(* then the calls inside,                                                  *)
StopWaitsForCalls ==
  /\ life.pc = "calls" /\ CallsAreOut
  /\ LifeGoes("callbacks")
  /\ Beside /\ UNCHANGED <<flag, bits, closed, gen, ws, level>>

(* Mutant: the owner does not wait for the callbacks either.               *)
CallbacksLeftInside == TRUE

(* Mutant: a callback that stops waits for itself.                         *)
EveryCallbackIsOut == cw.pc = "idle"

CallbacksAreOut == life.by = "callback" \/ cw.pc = "idle"

(* and the callbacks, unless one of them is stopping.                      *)
StopWaitsForCallbacks ==
  /\ life.pc = "callbacks" /\ CallbacksAreOut
  /\ LifeGoes("delete")
  /\ Beside /\ UNCHANGED <<flag, bits, closed, gen, ws, level>>

(* DeleteWebSocketWorkerResources; agent_link_stop then forgets the link.  *)
StopDeletes ==
  /\ life.pc = "delete"
  /\ bits' = {}
  /\ level' = "down"
  /\ Release("off")
  /\ Beside /\ UNCHANGED <<flag, closed, gen, ws>>

Lifecycle ==
  \/ StartCreates \/ StartCounts \/ StartActivates
  \/ StopCloses \/ StopSignals \/ StopJoins
  \/ StopWaitsForCalls \/ StopWaitsForCallbacks \/ StopDeletes

----------------------------------------------------------------------------
(* The event tasks and the network.                                        *)

\* What an event leaves alone.
Around == UNCHANGED <<closed, queues, cbq, gen, ws, cw, inside, life, level>>

(* OnGotIp                                                                 *)
GotIp ==
  /\ At("none", "on") /\ ~Is("ip")
  /\ flag' = flag \cup {"ip"}
  /\ Around /\ UNCHANGED <<bits, arriving, net, wire>>

(* WEBSOCKET_EVENT_CONNECTED, of a client the worker has just made.  The   *)
(* core has been told of the last connection by then, 2 s after it.        *)
Connected ==
  /\ ws.client /\ Is("ip") /\ ~Is("stopping")
  /\ ~net.open /\ ~Is("connected") /\ "recycle" \notin bits /\ ws.pc \notin {"recycle", "recycled"}
  /\ \A i \in DOMAIN cbq : cbq[i].t # "lost"
  /\ net' = [NoNet EXCEPT !.open = TRUE]
  /\ flag' = (flag \cup {"connected"}) \ {"authenticated", "accepting"}
  /\ bits' = bits \cup {"connected"}
  /\ Around /\ UNCHANGED <<arriving, wire>>

\* FragmentAssembler::Append: a frame that does not fit what has come before
\* is rejected with it.
Rejected(first) == first = frag
Complete(first, fin) == ~Rejected(first) /\ fin

AppendFragment(first, fin) == frag' = (~Rejected(first) /\ ~fin)

(* OnWsData: a whole message of the Bridge is queued for the worker.       *)
BridgeSends(t, fin) ==
  LET first == ~net.part
  IN /\ net.open /\ ~Is("stopping")
     /\ IF t = "ack" THEN net.hello /\ ~net.acked /\ fin ELSE net.acked
     /\ net' = [net EXCEPT !.acked = TRUE, !.part = ~fin]
     /\ AppendFragment(first, fin)
     /\ IF ~Complete(first, fin) THEN UNCHANGED <<flag, bits, rx>>
        ELSE IF Len(rx) < RxItems
        THEN rx' = Append(rx, t) /\ UNCHANGED <<flag, bits>>
        ELSE MarkConnectionUnusable /\ UNCHANGED rx
     /\ Around /\ UNCHANGED wire

(* The client reports an error or the end of its connection, or the        *)
(* station is lost (OnStaDisconnected).  A worker that is stopping is not  *)
(* signalled.                                                              *)
Lose(station) ==
  /\ IF station THEN Is("ip") ELSE ws.client /\ ~Is("stopping")
  /\ Cut
  /\ flag' = Unusable \ (IF station THEN {"ip"} ELSE {})
  /\ bits' = IF Is("stopping") THEN bits ELSE bits \cup {"recycle"}
  /\ Around /\ UNCHANGED arriving

Next ==
  \/ WebSocketWorker \/ HelloTimesOut
  \/ CallbackWorker
  \/ CallEnters \/ PublicCall
  \/ StartOpens \/ StartFails \/ Lifecycle
  \/ \E by \in {"owner", "callback"} : StopBegins(by)
  \/ GotIp \/ Connected
  \/ \E station \in BOOLEAN : Lose(station)
  \/ \E t \in {"ack", "data"}, fin \in BOOLEAN : BridgeSends(t, fin)

Fairness ==
  /\ WF_vars(WebSocketWorker) /\ WF_vars(CallbackWorker)
  /\ WF_vars(PublicCall) /\ WF_vars(Lifecycle)

Spec == Init /\ [][Next]_vars /\ Fairness

----------------------------------------------------------------------------
(* Properties.                                                             *)

\* The queues, the lock and the event group outlive whoever uses them: they
\* are not deleted under the worker nor under a public call (wifi_stop).
NothingUsedAfterDelete ==
  ws.pc \notin {"none", "done"} \/ inside => Exists

\* A callback runs for an item that was of the present start when the callback
\* worker entered the barrier.  A start opens the barrier before it counts the
\* generation, so that an item of the start before may still slip through; but
\* no second one, since whatever enters later is compared with the new
\* generation.  None runs while the owner of the link creates or deletes it,
\* except that a disconnection may still be told then: it says what is so
\* (CallbackWorker, wifi_start, wifi_stop).
CallbacksAreCurrent ==
  cw.pc = "run" =>
    /\ cw.item.gen = cw.since /\ cw.since \in {gen - 1, gen}
    /\ cw.item.t # "lost" /\ life.by = "owner" =>
         life.pc \notin {"create", "activate", "enable", "delete"}

\* The core does not go on believing in a connection of this start that was
\* given up: its loss is on its way to it (PublishDisconnected, QueueCallback).
\* A "ready" of the start before that slips through is not meant: its loss,
\* behind it, is dropped for its generation.
LossIsTold ==
  level = "up" /\ "callbacks" \notin closed /\ ~Is("announced") =>
    \/ cw.item = [t |-> "lost", gen |-> gen]
    \/ \E i \in DOMAIN cbq : cbq[i] = [t |-> "lost", gen |-> gen]

\* Neither side mixes two connections.  What the Bridge sees is whole streams:
\* a start, then the chunks without a gap, then the end (UplinkStreams,
\* CloseAdmissionAndResetStreams, DrainTxQueue); and what the device puts
\* together is the message the Bridge is sending now (FragmentAssembler,
\* DestroyWebSocketClient).
WireIsWellFormed ==
  /\ wire.sound
  /\ net.open => frag = net.part

\* wifi_stop returns, whoever calls it and whatever is going on.
StopReturns == (life.pc = "close") ~> (life.pc = "off")
=============================================================================
