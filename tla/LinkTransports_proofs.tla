------------------------ MODULE LinkTransports_proofs -----------------------
(***************************************************************************)
(* The two transports of the agent link, one after the other.              *)
(*                                                                         *)
(* Wi-Fi, for queues of every size and any number of starts, stops,        *)
(* connections and calls: wifi_stop deletes nothing that is still used, a  *)
(* callback runs in the start it belongs to or, once at most, in the next  *)
(* one, the core is told of every link that is lost, and the Bridge sees   *)
(* whole streams of one connection only.                                   *)
(*                                                                         *)
(* The first two rest on the order in which wifi_stop and wifi_start do    *)
(* things: close the barriers, take the address away, wait for the worker, *)
(* for the calls and for the callbacks, and only then delete; and on the   *)
(* worker, which leaves no client, no received data and no admission       *)
(* behind.  The third rests on the place that QueueCallback keeps for a    *)
(* loss, the last on the worker, which drains the queue between two        *)
(* connections, and on s_tx_lock, under which a stream advances exactly    *)
(* when its frame is queued.                                               *)
(*                                                                         *)
(* BLE, for recordings, images and voice of every size, queues of every    *)
(* length and any number of connections, channels, streams and failures: a *)
(* stream carries its own data in order; and the end of a recording or an  *)
(* image (0x53, 0x55) tells the truth, except of a stream whose flags were *)
(* cleared while a channel was closing (crossed), whose report may not.    *)
(*                                                                         *)
(* The end follows the count of the pieces: while nothing was cut, what    *)
(* was taken by NimBLE, what the worker holds and what is queued is all    *)
(* that was accepted; a stream that has been asked to end, and was not     *)
(* cut, takes no more; and whoever asks a stream to end without the        *)
(* application has marked it as truncated before.  The order follows the   *)
(* places of the pieces (OrderInv): whatever was lost, what is held and    *)
(* queued are the last pieces that were accepted.                          *)
(***************************************************************************)
EXTENDS WifiTransport, BleUplink, FiniteSetTheorems, SequenceTheorems, TLAPS

----------------------------------------------------------------------------
(* Wi-Fi.                                                                  *)


LifePcs == {"off", "create", "activate", "enable", "undo", "on", "close", "signal",
            "join", "calls", "callbacks", "delete"}

\* The records keep their fields; what the other fields hold does not matter.
Shape ==
  /\ life \in [by : {"none", "owner", "callback"}, pc : LifePcs]
  /\ cw = [pc |-> cw.pc, item |-> cw.item, since |-> cw.since]
  /\ ws = [pc |-> ws.pc, bits |-> ws.bits, client |-> ws.client]
  /\ net = [open |-> net.open, hello |-> net.hello, acked |-> net.acked, part |-> net.part]
  /\ gen \in Nat

\* Before the start is complete, and after the stop.
Starting == life.pc \in {"create", "activate", "enable", "undo"}
Closed   == life.pc \in {"signal", "join", "calls", "callbacks", "delete", "off", "undo"}
Running  == ws.pc \notin {"none", "done"}

\* Who holds the mutex: a start is the owner's.
LifeOwner ==
  /\ life.by = "none" <=> life.pc \in {"off", "on"}
  /\ Starting => life.by = "owner"

\* The worker is gone when it has been waited for.
WorkerIsJoined ==
  life.pc \in {"off", "create", "calls", "callbacks", "delete"} => ws.pc = "none"

\* A connection is of a client,
NetHasClient == net.open => ws.client

\* and a worker that is gone, or has no address yet, has neither.
NoClientLeft == ~Running \/ Starting => ~ws.client /\ rx = <<>>

\* Nothing is admitted then, nor once the worker has closed the admission.
NoAdmission == ~Running \/ Starting \/ ws.pc = "closed" => "accepting" \notin flag

\* The address and the callbacks are the gift of a start and go with a stop.
NoAddress == life.pc \notin {"on", "close", "signal"} => flag \cap {"ip", "active"} = {}

\* Nobody enters a closed barrier, and those inside are waited for.
BarriersAreClosed == Closed => closed = {"calls", "callbacks"}
CallsAreInside    == inside => life.pc \in {"on", "close", "signal", "join", "calls"}

\* A start begins when nobody is inside, and counts the generation once: who
\* has entered before is not older than the start before.
EnteredLately ==
  cw.pc # "idle" =>
    /\ cw.since \in {gen - 1, gen}
    /\ life.pc \in {"create", "activate"} => cw.since = gen

\* What runs for data runs between one start and the stop that waits for it.
DataRuns ==
  cw.pc = "run" /\ cw.item.t # "lost" =>
    /\ ~Starting
    /\ life.by = "owner" => life.pc # "delete"

\* What the worker owns, and what it leaves alone.
WorkerInv == NetHasClient /\ NoClientLeft /\ NoAdmission /\ NoAddress
OwnerInv  ==
  LifeOwner /\ BarriersAreClosed /\ CallsAreInside /\ EnteredLately /\ DataRuns

TransportInv == Shape /\ WorkerIsJoined /\ WorkerInv /\ OwnerInv

LEMMA InitTransport == Init => TransportInv
<1> SUFFICES ASSUME Init
             PROVE  TransportInv
  OBVIOUS
<1>1. life = [by |-> "none", pc |-> "off"] /\ cw = [pc |-> "idle", item |-> NoItem, since |-> 0]
  BY DEF Init, IdleCallback
<1>2. ws = [pc |-> "none", bits |-> {}, client |-> FALSE]
  BY DEF Init, Worker
<1>3. net = [open |-> FALSE, hello |-> FALSE, acked |-> FALSE, part |-> FALSE]
  BY DEF Init, NoNet
<1>4. Shape
  BY <1>1, <1>2, <1>3 DEF Init, Shape, LifePcs
<1>5. WorkerInv
  BY <1>1, <1>2, <1>3 DEF Init, WorkerInv, NetHasClient, NoClientLeft, NoAdmission, NoAddress
<1>6. WorkerIsJoined /\ OwnerInv
  BY <1>1, <1>2 DEF Init, WorkerIsJoined, OwnerInv, LifeOwner, Starting, BarriersAreClosed,
                    Closed, CallsAreInside, EnteredLately, DataRuns
<1> QED
  BY <1>4, <1>5, <1>6 DEF TransportInv

----------------------------------------------------------------------------
(* The worker.  What its steps do to the invariant is in these few facts.  *)

WorkerStep ==
  /\ Running /\ Others
  /\ ws' = [pc |-> ws'.pc, bits |-> ws'.bits, client |-> ws'.client]
  /\ net' = [open |-> net'.open, hello |-> net'.hello, acked |-> net'.acked, part |-> net'.part]
  /\ ws'.pc # "none"
  /\ net'.open => net.open /\ ws'.client
  /\ ws'.client => ws.client \/ "ip" \in flag
  /\ rx' = rx \/ rx' = <<>> \/ rx # <<>>
  /\ ws'.pc = "done" => ~ws'.client /\ rx' = <<>>
  /\ "accepting" \in flag' =>
       \/ "accepting" \in flag /\ ws'.pc \notin {"closed", "done"}
       \/ ws.pc = "ready" /\ "ip" \in flag /\ ws'.pc = "transmit"
       \/ ws.pc = "receive" /\ rx # <<>> /\ ws'.pc = "receive"
  /\ flag' \cap {"ip", "active"} \subseteq flag

LEMMA WorkerStepInv == TransportInv /\ WorkerStep => TransportInv'
<1> SUFFICES ASSUME TransportInv, WorkerStep
             PROVE  TransportInv'
  OBVIOUS
<1>1. Running /\ Others
  BY DEF WorkerStep
<1>2. Shape'
  BY DEF TransportInv, WorkerStep, Shape, Others
<1>3. WorkerIsJoined'
  BY DEF TransportInv, WorkerStep, WorkerIsJoined, Running, Others
<1>4. OwnerInv'
  BY <1>1 DEF TransportInv, OwnerInv, Others, LifeOwner, Starting, BarriersAreClosed,
              Closed, CallsAreInside, EnteredLately, DataRuns
<1>5. NetHasClient'
  BY DEF WorkerStep, NetHasClient
<1>6. Starting => "ip" \notin flag /\ ~ws.client /\ rx = <<>> /\ "accepting" \notin flag
  BY DEF TransportInv, WorkerInv, NoClientLeft, NoAdmission, NoAddress, Starting
<1>7. Starting' = Starting
  BY <1>1 DEF Others, Starting
<1>8. NoClientLeft'
  BY <1>6, <1>7 DEF WorkerStep, NoClientLeft, Running
<1>9. NoAdmission'
  BY <1>6, <1>7 DEF WorkerStep, NoAdmission, Running
<1>10. NoAddress'
  BY <1>1 DEF TransportInv, WorkerInv, WorkerStep, NoAddress, Others
<1> QED
  BY <1>2, <1>3, <1>4, <1>5, <1>8, <1>9, <1>10 DEF TransportInv, WorkerInv

LEMMA TurnsKeepTheClient ==
  ASSUME NEW seen, NEW client, NEW t \in Turn(seen, client)
  PROVE  /\ t = [pc |-> t.pc, bits |-> t.bits, client |-> t.client]
         /\ t.pc \in {"top", "hello", "ready", "transmit"}
         /\ t.client => client \/ "ip" \in flag
  BY DEF Turn, CreateWebSocketClient, Begin, Worker, Is

LEMMA WorkerShape ==
  ASSUME TransportInv
  PROVE  /\ ws = [pc |-> ws.pc, bits |-> ws.bits, client |-> ws.client]
         /\ net = [open |-> net.open, hello |-> net.hello, acked |-> net.acked, part |-> net.part]
         /\ net.open => ws.client
  BY DEF TransportInv, Shape, WorkerInv, NetHasClient

LEMMA WorkerLooksInv == TransportInv /\ WorkerLooks => WorkerStep
<1> SUFFICES ASSUME TransportInv, WorkerLooks
             PROVE  WorkerStep
  OBVIOUS
<1> USE WorkerShape
<1>1. /\ ws.pc = "top" /\ Others
      /\ UNCHANGED <<flag, rx, net>>
  BY DEF WorkerLooks, arriving
<1>2. CASE ws' \in Turn(bits, ws.client)
  <2>1. /\ ws' = [pc |-> ws'.pc, bits |-> ws'.bits, client |-> ws'.client]
        /\ ws'.pc \in {"top", "hello", "ready", "transmit"}
        /\ ws'.client => ws.client \/ "ip" \in flag
    BY <1>2, TurnsKeepTheClient
  <2>2. net' = net /\ (net'.open => ws'.client)
    BY <1>1, <1>2 DEF Turn, CreateWebSocketClient, Begin, Worker
  <2> QED
    BY <1>1, <2>1, <2>2 DEF WorkerStep, Running
<1>3. CASE ws' \notin Turn(bits, ws.client)
  <2>1. \/ ws' = [ws EXCEPT !.pc = "close"]
        \/ ws' = [ws EXCEPT !.pc = "recycle", !.bits = bits \ {"recycle"}]
    BY <1>3 DEF WorkerLooks, Goes
  <2> QED
    BY <1>1, <2>1 DEF WorkerStep, Running
<1> QED
  BY <1>2, <1>3

LEMMA WorkerClosesInv == TransportInv /\ WorkerCloses => WorkerStep
  BY WorkerShape DEF WorkerCloses, WorkerStep, Running, Goes, arriving

LEMMA WorkerDestroysInv == TransportInv /\ WorkerDestroys => WorkerStep
<1> SUFFICES ASSUME TransportInv, WorkerDestroys
             PROVE  WorkerStep
  OBVIOUS
<1> USE WorkerShape
<1>1. /\ ws.pc \in {"recycled", "closed"} /\ Others
      /\ rx' = <<>>
      /\ flag' = (IF ws.client THEN Unusable ELSE flag) \ {"announced"}
      /\ IF ws.client THEN net' = NoNet ELSE net' = net
  BY DEF WorkerDestroys, Cut
<1>2. net' = [open |-> FALSE, hello |-> net'.hello, acked |-> net'.acked, part |-> net'.part]
  BY <1>1 DEF NoNet
<1>3. /\ ws' = [pc |-> ws'.pc, bits |-> ws'.bits, client |-> ws'.client]
      /\ ws'.pc \in {"done", "close", "top", "hello", "ready", "transmit"}
      /\ ws'.client => "ip" \in flag
      /\ ws'.pc = "done" => ws.pc = "closed" /\ ~ws'.client
      /\ ws.pc = "closed" => ws'.pc = "done"
  BY <1>1, TurnsKeepTheClient DEF WorkerDestroys, Worker
<1>4. ws.pc = "closed" => "accepting" \notin flag
  BY DEF TransportInv, WorkerInv, NoAdmission
<1> QED
  BY <1>1, <1>2, <1>3, <1>4 DEF WorkerStep, Running, Unusable

LEMMA WorkerHelloInv == TransportInv /\ WorkerHello => WorkerStep
<1> SUFFICES ASSUME TransportInv, WorkerHello
             PROVE  WorkerStep
  OBVIOUS
<1> USE WorkerShape
<1>1. ws.pc = "hello" /\ Others /\ rx' = rx
  BY DEF WorkerHello, arriving
<1>2. /\ ws' = [pc |-> ws'.pc, bits |-> ws'.bits, client |-> ws.client]
      /\ ws'.pc \in {"hello", "ready", "transmit"}
  BY DEF WorkerHello, Begin
<1>3. net' = [open |-> net.open, hello |-> net'.hello, acked |-> net'.acked, part |-> net'.part]
  BY DEF WorkerHello
<1>4. flag' \subseteq flag
  BY DEF WorkerHello, MarkConnectionUnusable, Unusable
<1> QED
  BY <1>1, <1>2, <1>3, <1>4 DEF WorkerStep, Running

LEMMA WorkerReadyInv == TransportInv /\ WorkerReady => WorkerStep
  BY WorkerShape DEF WorkerReady, WorkerStep, Running, MarkConnectionUnusable, Unusable, arriving

LEMMA WorkerTransmitsInv == TransportInv /\ WorkerTransmits => WorkerStep
  BY WorkerShape DEF WorkerTransmits, WorkerStep, Running, Goes, AfterTransmit, MarkConnectionUnusable,
                     Unusable, arriving

LEMMA WorkerReceivesInv == TransportInv /\ WorkerReceives => WorkerStep
  BY WorkerShape DEF WorkerReceives, WorkerStep, Running, MarkConnectionUnusable, Unusable, arriving

LEMMA WorkerTurnsInv == TransportInv /\ WorkerTurns => WorkerStep
  BY WorkerShape DEF WorkerTurns, WorkerStep, Running, Goes, arriving

----------------------------------------------------------------------------
(* The callback worker, the calls and the events.                          *)

\* A step of the callback worker leaves the rest alone; it begins to run for
\* data only while the callbacks are active.
LEMMA CallbackWorkerInv == TransportInv /\ CallbackWorker => TransportInv'
<1> SUFFICES ASSUME TransportInv, CallbackWorker
             PROVE  TransportInv'
  OBVIOUS
<1>1. Elsewhere
  BY DEF CallbackWorker, CallbackTakes, CallbackChecks, CallbackRuns, CallbackReturns
<1>2. WorkerIsJoined' /\ WorkerInv'
  BY <1>1 DEF TransportInv, Elsewhere, arriving, WorkerIsJoined, WorkerInv, NetHasClient, NoClientLeft,
              NoAdmission, NoAddress, Running, Starting
<1>3. cw = [pc |-> cw.pc, item |-> cw.item, since |-> cw.since]
  BY DEF TransportInv, Shape
<1>4. cw' = [pc |-> cw'.pc, item |-> cw'.item, since |-> cw'.since]
  BY <1>3 DEF CallbackWorker, CallbackTakes, CallbackChecks, CallbackRuns, CallbackReturns, CallbackIdle,
              IdleCallback
<1>5. Shape' /\ LifeOwner' /\ BarriersAreClosed' /\ CallsAreInside'
  BY <1>1, <1>4 DEF TransportInv, Shape, OwnerInv, Elsewhere, LifeOwner, Starting, Closed,
                    BarriersAreClosed, CallsAreInside
<1>6. EnteredLately'
  <2>1. CASE CallbackTakes /\ CallbackEnters
    <3>1. cw'.since = gen
      BY <2>1 DEF CallbackTakes
    <3> QED
      BY <1>1, <3>1 DEF Elsewhere, EnteredLately
  <2>2. CASE ~(CallbackTakes /\ CallbackEnters)
    <3>1. cw'.pc = "idle" \/ (cw'.since = cw.since /\ cw.pc # "idle")
      BY <1>3, <2>2 DEF CallbackWorker, CallbackTakes, CallbackChecks, CallbackRuns, CallbackReturns,
                        CallbackIdle, IdleCallback
    <3> QED
      BY <1>1, <3>1 DEF TransportInv, OwnerInv, Elsewhere, EnteredLately
  <2> QED
    BY <2>1, <2>2
<1>7. DataRuns'
  <2>1. CASE CallbackRuns /\ Deliver(cw.item)
    <3>1. cw'.item = cw.item
      BY <1>3, <2>1 DEF CallbackRuns
    <3>2. cw.item.t # "lost" => life.pc \in {"on", "close", "signal"}
      BY <2>1 DEF Deliver, Is, TransportInv, WorkerInv, NoAddress
    <3> QED
      BY <1>1, <3>1, <3>2 DEF Elsewhere, DataRuns, Starting
  <2>2. CASE ~(CallbackRuns /\ Deliver(cw.item))
    <3>1. cw'.pc # "run"
      BY <1>3, <2>2 DEF CallbackWorker, CallbackTakes, CallbackChecks, CallbackRuns, CallbackReturns,
                        CallbackIdle, IdleCallback
    <3> QED
      BY <3>1 DEF DataRuns
  <2> QED
    BY <2>1, <2>2
<1> QED
  BY <1>2, <1>5, <1>6, <1>7 DEF TransportInv, OwnerInv

\* A call enters only an open barrier, and an admission is open only from a
\* complete start to the stop.
LEMMA CallEntersInv == TransportInv /\ CallEnters => TransportInv'
<1> SUFFICES ASSUME TransportInv, CallEnters
             PROVE  TransportInv'
  OBVIOUS
<1>1. Apart /\ "accepting" \in flag /\ "calls" \notin closed
  BY DEF CallEnters, TryEnter, Is
<1>2. ~Starting /\ ~Closed
  BY <1>1 DEF TransportInv, WorkerInv, NoAdmission, OwnerInv, BarriersAreClosed
<1>3. life.pc \in {"on", "close"}
  BY <1>2 DEF TransportInv, Shape, LifePcs, Starting, Closed
<1>4. Shape' /\ WorkerIsJoined' /\ WorkerInv'
  BY <1>1 DEF TransportInv, Shape, Apart, arriving, WorkerIsJoined, WorkerInv, NetHasClient, NoClientLeft,
              NoAdmission, NoAddress, Running, Starting
<1>5. OwnerInv'
  BY <1>1, <1>3 DEF TransportInv, OwnerInv, Apart, LifeOwner, Starting, Closed, BarriersAreClosed,
                    CallsAreInside, EnteredLately, DataRuns
<1> QED
  BY <1>4, <1>5 DEF TransportInv

LEMMA PublicCallInv == TransportInv /\ PublicCall => TransportInv'
<1> SUFFICES ASSUME TransportInv, PublicCall
             PROVE  TransportInv'
  OBVIOUS
<1>1. Apart /\ inside' = FALSE
  BY DEF PublicCall, CallQueues, CallFails
<1>2. Shape' /\ WorkerIsJoined' /\ WorkerInv'
  BY <1>1 DEF TransportInv, Shape, Apart, arriving, WorkerIsJoined, WorkerInv, NetHasClient, NoClientLeft,
              NoAdmission, NoAddress, Running, Starting
<1>3. OwnerInv'
  BY <1>1 DEF TransportInv, OwnerInv, Apart, LifeOwner, Starting, Closed, BarriersAreClosed,
              CallsAreInside, EnteredLately, DataRuns
<1> QED
  BY <1>2, <1>3 DEF TransportInv

\* What is left of the invariant when the lifecycle, the callbacks and the
\* worker stand still.
LEMMA EventInv ==
  ASSUME TransportInv, UNCHANGED <<closed, gen, ws, cw, inside, life>>,
         net' = [open |-> net'.open, hello |-> net'.hello, acked |-> net'.acked, part |-> net'.part],
         net'.open => ws.client,
         ws.client \/ rx' = rx,
         "accepting" \in flag' => "accepting" \in flag,
         flag' \cap {"ip", "active"} \subseteq flag \/ life.pc = "on"
  PROVE  TransportInv'
<1>1. Shape' /\ WorkerIsJoined'
  BY DEF TransportInv, Shape, WorkerIsJoined
<1>2. OwnerInv'
  BY DEF TransportInv, OwnerInv, LifeOwner, Starting, Closed, BarriersAreClosed, CallsAreInside,
         EnteredLately, DataRuns
<1>3. NetHasClient' /\ NoAdmission' /\ NoAddress'
  BY DEF TransportInv, WorkerInv, NetHasClient, NoAdmission, NoAddress, Running, Starting
<1>4. NoClientLeft'
  BY DEF TransportInv, WorkerInv, NoClientLeft, Running, Starting
<1> QED
  BY <1>1, <1>2, <1>3, <1>4 DEF TransportInv, WorkerInv

LEMMA GotIpInv == TransportInv /\ GotIp => TransportInv'
  BY EventInv, WorkerShape DEF GotIp, At, Around, arriving

LEMMA HelloTimesOutInv == TransportInv /\ HelloTimesOut => TransportInv'
  BY EventInv, WorkerShape DEF HelloTimesOut, Others, arriving, MarkConnectionUnusable, Unusable

LEMMA ConnectedInv == TransportInv /\ Connected => TransportInv'
  BY EventInv DEF Connected, Around, arriving, NoNet

LEMMA LoseInv == TransportInv /\ (\E station \in BOOLEAN : Lose(station)) => TransportInv'
  BY EventInv DEF Lose, Cut, NoNet, Around, arriving, Unusable

LEMMA BridgeSendsInv ==
  TransportInv /\ (\E t \in {"ack", "data"}, fin \in BOOLEAN : BridgeSends(t, fin)) => TransportInv'
<1> SUFFICES ASSUME TransportInv, NEW t \in {"ack", "data"}, NEW fin \in BOOLEAN, BridgeSends(t, fin)
             PROVE  TransportInv'
  OBVIOUS
<1>1. net.open /\ ws.client
  BY WorkerShape DEF BridgeSends
<1>2. net' = [open |-> net'.open, hello |-> net'.hello, acked |-> net'.acked, part |-> net'.part]
  BY WorkerShape DEF BridgeSends
<1>3. UNCHANGED <<closed, gen, ws, cw, inside, life>>
  BY DEF BridgeSends, Around
<1>4. flag' \subseteq flag
  BY DEF BridgeSends, MarkConnectionUnusable, Unusable
<1> QED
  BY <1>1, <1>2, <1>3, <1>4, EventInv

----------------------------------------------------------------------------
(* wifi_start and wifi_stop: one lemma per step of theirs.                 *)

LEMMA LifeShape ==
  ASSUME TransportInv
  PROVE  life \in [by : {"none", "owner", "callback"}, pc : LifePcs]
  BY DEF TransportInv, Shape

LEMMA StartOpensInv == TransportInv /\ StartOpens => TransportInv'
<1> SUFFICES ASSUME TransportInv, StartOpens
             PROVE  TransportInv'
  OBVIOUS
<1>1. /\ life.pc = "off" /\ life' = [by |-> "owner", pc |-> "create"]
      /\ cw.pc = "idle" /\ ~inside
      /\ UNCHANGED <<flag, gen, rx, ws, cw, inside, net>>
  BY DEF StartOpens, At, OpenBarriers, Beside, arriving
<1>2. Shape' /\ WorkerIsJoined'
  BY <1>1 DEF TransportInv, Shape, LifePcs, WorkerIsJoined
<1>3. WorkerInv'
  BY <1>1 DEF TransportInv, WorkerIsJoined, WorkerInv, NetHasClient, NoClientLeft, NoAdmission,
              NoAddress, Running, Starting
<1>4. OwnerInv'
  BY <1>1 DEF OwnerInv, LifeOwner, Starting, Closed, BarriersAreClosed, CallsAreInside,
              EnteredLately, DataRuns
<1> QED
  BY <1>2, <1>3, <1>4 DEF TransportInv

LEMMA StartCreatesInv == TransportInv /\ StartCreates => TransportInv'
<1> SUFFICES ASSUME TransportInv, StartCreates
             PROVE  TransportInv'
  OBVIOUS
<1>1. /\ life.pc = "create" /\ life' = [by |-> "owner", pc |-> "activate"]
      /\ ws' = [pc |-> "top", bits |-> {}, client |-> FALSE]
      /\ flag' \subseteq flag
      /\ UNCHANGED <<closed, gen, rx, cw, inside, net>>
  BY LifeShape DEF StartCreates, At, LifeGoes, Worker, Beside, arriving
<1>2. Shape' /\ WorkerIsJoined'
  BY <1>1 DEF TransportInv, Shape, LifePcs, WorkerIsJoined
<1>3. WorkerInv'
  BY <1>1 DEF TransportInv, WorkerIsJoined, WorkerInv, NetHasClient, NoClientLeft, NoAdmission,
              NoAddress, Running, Starting
<1>4. OwnerInv'
  BY <1>1 DEF TransportInv, OwnerInv, LifeOwner, Starting, Closed, BarriersAreClosed, CallsAreInside,
              EnteredLately, DataRuns
<1> QED
  BY <1>2, <1>3, <1>4 DEF TransportInv

LEMMA StartFailsInv == TransportInv /\ StartFails => TransportInv'
<1> SUFFICES ASSUME TransportInv, StartFails
             PROVE  TransportInv'
  OBVIOUS
<1>1. /\ life.pc = "activate" /\ life' = [by |-> "owner", pc |-> "undo"]
      /\ closed' = {"calls", "callbacks"} /\ flag' = flag \cup {"stopping"}
      /\ UNCHANGED <<gen, rx, ws, cw, inside, net>>
  BY LifeShape DEF StartFails, At, LifeGoes, CloseBarriers, Beside, arriving
<1>2. Shape' /\ WorkerIsJoined'
  BY <1>1 DEF TransportInv, Shape, LifePcs, WorkerIsJoined
<1>3. WorkerInv'
  BY <1>1 DEF TransportInv, WorkerInv, NetHasClient, NoClientLeft, NoAdmission, NoAddress, Running,
              Starting
<1>4. OwnerInv'
  BY <1>1 DEF TransportInv, OwnerInv, LifeOwner, Starting, Closed, BarriersAreClosed, CallsAreInside,
              EnteredLately, DataRuns
<1> QED
  BY <1>2, <1>3, <1>4 DEF TransportInv

\* The generation may change: whoever is inside has entered since the barrier
\* was opened, and nothing runs for data yet.
LEMMA StartCountsInv == TransportInv /\ StartCounts => TransportInv'
<1> SUFFICES ASSUME TransportInv, StartCounts
             PROVE  TransportInv'
  OBVIOUS
<1>1. /\ life.pc = "activate" /\ life' = [by |-> "owner", pc |-> "enable"]
      /\ gen' = gen + 1 /\ gen \in Nat
      /\ UNCHANGED <<flag, closed, rx, ws, cw, inside, net>>
  BY LifeShape DEF StartCounts, At, LifeGoes, Beside, arriving, TransportInv, Shape
<1>2. Shape' /\ WorkerIsJoined'
  BY <1>1 DEF TransportInv, Shape, LifePcs, WorkerIsJoined
<1>3. WorkerInv'
  BY <1>1 DEF TransportInv, WorkerInv, NetHasClient, NoClientLeft, NoAdmission, NoAddress, Running,
              Starting
<1>4. OwnerInv'
  BY <1>1 DEF TransportInv, OwnerInv, LifeOwner, Starting, Closed, BarriersAreClosed, CallsAreInside,
              EnteredLately, DataRuns
<1> QED
  BY <1>2, <1>3, <1>4 DEF TransportInv

LEMMA StartActivatesInv == TransportInv /\ StartActivates => TransportInv'
<1> SUFFICES ASSUME TransportInv, StartActivates
             PROVE  TransportInv'
  OBVIOUS
<1>1. /\ life.pc = "enable" /\ life' = [by |-> "none", pc |-> "on"]
      /\ flag' = flag \cup {"active"}
      /\ UNCHANGED <<closed, gen, rx, ws, cw, inside, net>>
  BY DEF StartActivates, At, Release, Beside, arriving
<1>2. Shape' /\ WorkerIsJoined'
  BY <1>1 DEF TransportInv, Shape, LifePcs, WorkerIsJoined
<1>3. WorkerInv'
  BY <1>1 DEF TransportInv, WorkerInv, NetHasClient, NoClientLeft, NoAdmission, NoAddress, Running,
              Starting
<1>4. OwnerInv'
  BY <1>1 DEF TransportInv, OwnerInv, LifeOwner, Starting, Closed, BarriersAreClosed, CallsAreInside,
              EnteredLately, DataRuns
<1> QED
  BY <1>2, <1>3, <1>4 DEF TransportInv

LEMMA StopBeginsInv ==
  TransportInv /\ (\E by \in {"owner", "callback"} : StopBegins(by)) => TransportInv'
<1> SUFFICES ASSUME TransportInv, NEW by \in {"owner", "callback"}, StopBegins(by)
             PROVE  TransportInv'
  OBVIOUS
<1>1. /\ life.pc = "on" /\ life' = [by |-> by, pc |-> "close"]
      /\ flag' = flag \cup {"stopping"}
      /\ UNCHANGED <<closed, gen, rx, ws, cw, inside, net>>
  BY DEF StopBegins, TryLifecycleLock, At, Beside, arriving
<1>2. Shape' /\ WorkerIsJoined'
  BY <1>1 DEF TransportInv, Shape, LifePcs, WorkerIsJoined
<1>3. WorkerInv'
  BY <1>1 DEF TransportInv, WorkerInv, NetHasClient, NoClientLeft, NoAdmission, NoAddress, Running,
              Starting
<1>4. OwnerInv'
  BY <1>1 DEF TransportInv, OwnerInv, LifeOwner, Starting, Closed, BarriersAreClosed, CallsAreInside,
              EnteredLately, DataRuns
<1> QED
  BY <1>2, <1>3, <1>4 DEF TransportInv

LEMMA StopClosesInv == TransportInv /\ StopCloses => TransportInv'
<1> SUFFICES ASSUME TransportInv, StopCloses
             PROVE  TransportInv'
  OBVIOUS
<1>1. /\ life.pc = "close" /\ life' = [by |-> life.by, pc |-> "signal"]
      /\ closed' = {"calls", "callbacks"}
      /\ UNCHANGED <<flag, gen, rx, ws, cw, inside, net>>
  BY LifeShape DEF StopCloses, LifeGoes, CloseBarriers, Beside, arriving
<1>2. Shape' /\ WorkerIsJoined'
  BY <1>1 DEF TransportInv, Shape, LifePcs, WorkerIsJoined
<1>3. WorkerInv'
  BY <1>1 DEF TransportInv, WorkerInv, NetHasClient, NoClientLeft, NoAdmission, NoAddress, Running,
              Starting
<1>4. OwnerInv'
  BY <1>1 DEF TransportInv, OwnerInv, LifeOwner, Starting, Closed, BarriersAreClosed, CallsAreInside,
              EnteredLately, DataRuns
<1> QED
  BY <1>2, <1>3, <1>4 DEF TransportInv

LEMMA StopSignalsInv == TransportInv /\ StopSignals => TransportInv'
<1> SUFFICES ASSUME TransportInv, StopSignals
             PROVE  TransportInv'
  OBVIOUS
<1>1. /\ life.pc = "signal" /\ life' = [by |-> life.by, pc |-> "join"]
      /\ flag' = flag \ {"active", "accepting", "ip"}
      /\ UNCHANGED <<closed, gen, rx, ws, cw, inside, net>>
  BY LifeShape DEF StopSignals, LifeGoes, Beside, arriving
<1>2. Shape' /\ WorkerIsJoined'
  BY <1>1 DEF TransportInv, Shape, LifePcs, WorkerIsJoined
<1>3. WorkerInv'
  BY <1>1 DEF TransportInv, WorkerInv, NetHasClient, NoClientLeft, NoAdmission, NoAddress, Running,
              Starting
<1>4. OwnerInv'
  BY <1>1 DEF TransportInv, OwnerInv, LifeOwner, Starting, Closed, BarriersAreClosed, CallsAreInside,
              EnteredLately, DataRuns
<1> QED
  BY <1>2, <1>3, <1>4 DEF TransportInv

\* A worker that is done has left nothing: there is none now.
LEMMA StopJoinsInv == TransportInv /\ StopJoins => TransportInv'
<1> SUFFICES ASSUME TransportInv, StopJoins
             PROVE  TransportInv'
  OBVIOUS
<1>1. /\ life.pc \in {"join", "undo"} /\ ws.pc = "done"
      /\ life' = [by |-> life.by, pc |-> IF life.pc = "undo" THEN "delete" ELSE "calls"]
      /\ ws' = [pc |-> "none", bits |-> {}, client |-> FALSE]
      /\ UNCHANGED <<flag, closed, gen, rx, cw, inside, net>>
  BY LifeShape DEF StopJoins, LifeGoes, Worker, Beside, arriving
<1>2. Shape' /\ WorkerIsJoined'
  BY <1>1 DEF TransportInv, Shape, LifePcs, WorkerIsJoined
<1>3. WorkerInv'
  BY <1>1 DEF TransportInv, WorkerInv, NetHasClient, NoClientLeft, NoAdmission, NoAddress, Running,
              Starting
<1>4. OwnerInv'
  BY <1>1 DEF TransportInv, OwnerInv, LifeOwner, Starting, Closed, BarriersAreClosed, CallsAreInside,
              EnteredLately, DataRuns
<1> QED
  BY <1>2, <1>3, <1>4 DEF TransportInv

\* The calls are out, or the callbacks are, before the next step.
LEMMA StopWaitsInv ==
  TransportInv /\ (StopWaitsForCalls \/ StopWaitsForCallbacks) => TransportInv'
<1> SUFFICES ASSUME TransportInv, StopWaitsForCalls \/ StopWaitsForCallbacks
             PROVE  TransportInv'
  OBVIOUS
<1>1. /\ \/ life.pc = "calls" /\ life' = [by |-> life.by, pc |-> "callbacks"] /\ ~inside
         \/ /\ life.pc = "callbacks" /\ life' = [by |-> life.by, pc |-> "delete"]
            /\ life.by = "callback" \/ cw.pc = "idle"
      /\ UNCHANGED <<flag, closed, gen, rx, ws, cw, inside, net>>
  BY LifeShape DEF StopWaitsForCalls, StopWaitsForCallbacks, CallsAreOut, CallbacksAreOut, LifeGoes,
                   Beside, arriving
<1>2. Shape' /\ WorkerIsJoined'
  BY <1>1 DEF TransportInv, Shape, LifePcs, WorkerIsJoined
<1>3. WorkerInv'
  BY <1>1 DEF TransportInv, WorkerInv, NetHasClient, NoClientLeft, NoAdmission, NoAddress, Running,
              Starting
<1>4. OwnerInv'
  BY <1>1 DEF TransportInv, OwnerInv, LifeOwner, Starting, Closed, BarriersAreClosed, CallsAreInside,
              EnteredLately, DataRuns
<1> QED
  BY <1>2, <1>3, <1>4 DEF TransportInv

LEMMA StopDeletesInv == TransportInv /\ StopDeletes => TransportInv'
<1> SUFFICES ASSUME TransportInv, StopDeletes
             PROVE  TransportInv'
  OBVIOUS
<1>1. /\ life.pc = "delete" /\ life' = [by |-> "none", pc |-> "off"]
      /\ UNCHANGED <<flag, closed, gen, rx, ws, cw, inside, net>>
  BY DEF StopDeletes, Release, Beside, arriving
<1>2. Shape' /\ WorkerIsJoined'
  BY <1>1 DEF TransportInv, Shape, LifePcs, WorkerIsJoined
<1>3. WorkerInv'
  BY <1>1 DEF TransportInv, WorkerInv, NetHasClient, NoClientLeft, NoAdmission, NoAddress, Running,
              Starting
<1>4. OwnerInv'
  BY <1>1 DEF TransportInv, OwnerInv, LifeOwner, Starting, Closed, BarriersAreClosed, CallsAreInside,
              EnteredLately, DataRuns
<1> QED
  BY <1>2, <1>3, <1>4 DEF TransportInv

----------------------------------------------------------------------------
LEMMA NextInv == TransportInv /\ [Next]_vars => TransportInv'
<1> SUFFICES ASSUME TransportInv, [Next]_vars
             PROVE  TransportInv'
  OBVIOUS
<1>1. CASE WebSocketWorker
  BY <1>1, WorkerStepInv, WorkerLooksInv, WorkerClosesInv, WorkerDestroysInv, WorkerHelloInv,
     WorkerReadyInv, WorkerTransmitsInv, WorkerReceivesInv, WorkerTurnsInv DEF WebSocketWorker
<1>2. CASE CallbackWorker
  BY <1>2, CallbackWorkerInv
<1>3. CASE CallEnters \/ PublicCall
  BY <1>3, CallEntersInv, PublicCallInv
<1>4. CASE StartOpens \/ StartFails \/ Lifecycle \/ \E by \in {"owner", "callback"} : StopBegins(by)
  BY <1>4, StartOpensInv, StartFailsInv, StartCreatesInv, StartCountsInv, StartActivatesInv,
     StopBeginsInv, StopClosesInv, StopSignalsInv, StopJoinsInv, StopWaitsInv, StopDeletesInv DEF Lifecycle
<1>5. CASE \/ HelloTimesOut \/ GotIp \/ Connected \/ \E station \in BOOLEAN : Lose(station)
           \/ \E t \in {"ack", "data"}, fin \in BOOLEAN : BridgeSends(t, fin)
  BY <1>5, HelloTimesOutInv, GotIpInv, ConnectedInv, LoseInv, BridgeSendsInv
<1>6. CASE UNCHANGED vars
  <2>1. UNCHANGED <<flag, closed, rx, gen, ws, cw, inside, life, net>>
    BY <1>6 DEF vars, arriving
  <2> QED
    BY <2>1, EventInv, WorkerShape
<1> QED
  BY <1>1, <1>2, <1>3, <1>4, <1>5, <1>6 DEF Next

\* The invariant of the transport, of any number of starts and stops.
THEOREM TransportIsOrderly == Spec => []TransportInv
<1>1. Init => TransportInv
  BY InitTransport
<1>2. TransportInv /\ [Next]_vars => TransportInv'
  BY NextInv
<1> QED
  BY <1>1, <1>2, PTL DEF Spec

\* wifi_stop deletes the queues, the lock and the event group only when the
\* worker and the public calls are gone, and wifi_start makes them first.
THEOREM NothingIsUsedAfterDelete == Spec => []NothingUsedAfterDelete
<1>1. TransportInv => NothingUsedAfterDelete
  BY DEF TransportInv, WorkerIsJoined, OwnerInv, CallsAreInside, NothingUsedAfterDelete, Exists
<1> QED
  BY <1>1, TransportIsOrderly, PTL

----------------------------------------------------------------------------
(* What a worker without a client, a worker that is gone and one that is   *)
(* closing have left.                                                      *)

ClientInv ==
  ~ws.client => flag \cap {"connected", "authenticated"} = {} /\ rx = <<>> /\ frag = FALSE

GoneInv == ~Running => tx = <<>> /\ uplink = NoStream /\ "announced" \notin flag

CloseInv == ws.pc \in {"close", "closed"} => "stopping" \in flag

RestInv == ClientInv /\ GoneInv /\ CloseInv

LEMMA InitRest == Init => RestInv
  BY DEF Init, Worker, RestInv, ClientInv, GoneInv, CloseInv, Running

\* A step that leaves the worker where it is, and what that has left.
LEMMA RestFrame ==
  ASSUME TransportInv, RestInv, ws' = ws,
         flag' \cap {"connected", "authenticated"} \subseteq flag \/ ws.client,
         ws.client \/ UNCHANGED <<rx, frag>>,
         UNCHANGED <<tx, uplink>> \/ "accepting" \in flag,
         "announced" \in flag' => "announced" \in flag,
         "stopping" \in flag => "stopping" \in flag'
  PROVE  RestInv'
  BY DEF RestInv, ClientInv, GoneInv, CloseInv, Running, TransportInv, WorkerInv, NoAdmission

LEMMA WorkerRest == TransportInv /\ RestInv /\ WebSocketWorker => RestInv'
<1> SUFFICES ASSUME TransportInv, RestInv, WebSocketWorker
             PROVE  RestInv'
  OBVIOUS
<1> USE WorkerShape
<1>1. CASE WorkerLooks
  <2>1. ws.pc = "top" /\ UNCHANGED <<flag, tx, uplink, rx, frag>>
    BY <1>1 DEF WorkerLooks, queues, arriving
  <2>2. CASE ws' \in Turn(bits, ws.client)
    <3>1. ~ws'.client => ~ws.client
      BY <2>2, TurnsKeepTheClient DEF Turn, CreateWebSocketClient, Worker, Begin
    <3>2. ws'.pc \in {"top", "hello", "ready", "transmit"}
      BY <2>2, TurnsKeepTheClient
    <3> QED
      BY <2>1, <3>1, <3>2 DEF RestInv, ClientInv, GoneInv, CloseInv, Running
  <2>3. CASE ws' \notin Turn(bits, ws.client)
    BY <1>1, <2>1, <2>3 DEF WorkerLooks, Goes, Is, RestInv, ClientInv, GoneInv, CloseInv, Running
  <2> QED
    BY <2>2, <2>3
<1>2. CASE WorkerCloses
  BY <1>2 DEF WorkerCloses, Goes, arriving, RestInv, ClientInv, GoneInv, CloseInv, Running
<1>3. CASE WorkerDestroys
  <2>1. tx' = <<>> /\ uplink' = NoStream /\ rx' = <<>> /\ "announced" \notin flag'
    BY <1>3 DEF WorkerDestroys, DrainTxQueue
  <2>2. flag' \cap {"connected", "authenticated"} = {} /\ frag' = FALSE
    BY <1>3 DEF WorkerDestroys, Unusable, RestInv, ClientInv
  <2>3. "stopping" \in flag <=> "stopping" \in flag'
    BY <1>3 DEF WorkerDestroys, Unusable
  <2>4. ws'.pc \in {"close", "closed"} => "stopping" \in flag
    BY <1>3, TurnsKeepTheClient DEF WorkerDestroys, Worker, WaitRetry, Is
  <2> QED
    BY <2>1, <2>2, <2>3, <2>4 DEF RestInv, ClientInv, GoneInv, CloseInv
<1>4. CASE WorkerHello
  BY <1>4 DEF WorkerHello, MarkConnectionUnusable, Unusable, Begin, queues, arriving, RestInv, ClientInv,
              GoneInv, CloseInv, Running
<1>5. CASE WorkerReady
  BY <1>5 DEF WorkerReady, Unusable, queues, arriving, RestInv, ClientInv, GoneInv, CloseInv, Running
<1>6. CASE WorkerTransmits
  BY <1>6 DEF WorkerTransmits, MarkConnectionUnusable, Unusable, Goes, AfterTransmit, arriving, RestInv,
              ClientInv, GoneInv, CloseInv, Running
<1>7. CASE WorkerReceives
  BY <1>7 DEF WorkerReceives, MarkConnectionUnusable, Unusable, queues, RestInv, ClientInv, GoneInv,
              CloseInv, Running
<1>8. CASE WorkerTurns
  BY <1>8 DEF WorkerTurns, Goes, queues, arriving, RestInv, ClientInv, GoneInv, CloseInv, Running
<1> QED
  BY <1>1, <1>2, <1>3, <1>4, <1>5, <1>6, <1>7, <1>8 DEF WebSocketWorker

LEMMA LifecycleRest ==
  /\ TransportInv /\ RestInv
  /\ StartOpens \/ StartFails \/ Lifecycle \/ \E by \in {"owner", "callback"} : StopBegins(by)
  => RestInv'
<1> SUFFICES ASSUME TransportInv, RestInv,
                    StartOpens \/ StartFails \/ Lifecycle
                      \/ \E by \in {"owner", "callback"} : StopBegins(by)
             PROVE  RestInv'
  OBVIOUS
<1>1. UNCHANGED <<tx, uplink, rx, frag>>
  BY DEF StartOpens, StartFails, Lifecycle, StopBegins, StartCreates, StartCounts, StartActivates,
         StopCloses,
         StopSignals, StopJoins, StopWaitsForCalls, StopWaitsForCallbacks, StopDeletes, Beside, queues,
         arriving
<1>2. flag' \cap {"connected", "authenticated", "announced"} \subseteq flag
  BY DEF StartOpens, StartFails, Lifecycle, StopBegins, StartCreates, StartCounts, StartActivates,
         StopCloses,
         StopSignals, StopJoins, StopWaitsForCalls, StopWaitsForCallbacks, StopDeletes, Beside
<1>3. CASE StartCreates \/ StopJoins
  <2>1. ~Running /\ ~ws.client
    BY <1>3 DEF StartCreates, StopJoins, At, TransportInv, WorkerIsJoined, WorkerInv, NoClientLeft, Running
  <2>2. ws'.client = FALSE /\ ws'.pc \in {"top", "none"}
    BY <1>3 DEF StartCreates, StopJoins, Worker
  <2> QED
    BY <1>1, <1>2, <2>1, <2>2 DEF RestInv, ClientInv, GoneInv, CloseInv
<1>4. CASE ~(StartCreates \/ StopJoins)
  <2>1. ws' = ws /\ ("stopping" \in flag => "stopping" \in flag')
    BY <1>4 DEF StartOpens, StartFails, Lifecycle, StopBegins, StartCounts, StartActivates, StopCloses,
                StopSignals, StopWaitsForCalls, StopWaitsForCallbacks, StopDeletes, Beside
  <2> QED
    BY <1>1, <1>2, <2>1, RestFrame
<1> QED
  BY <1>3, <1>4

LEMMA EventRest ==
  /\ TransportInv /\ RestInv
  /\ \/ HelloTimesOut \/ GotIp \/ Connected \/ \E station \in BOOLEAN : Lose(station)
     \/ \E t \in {"ack", "data"}, fin \in BOOLEAN : BridgeSends(t, fin)
  => RestInv'
<1> SUFFICES ASSUME TransportInv, RestInv,
                    \/ HelloTimesOut \/ GotIp \/ Connected \/ \E station \in BOOLEAN : Lose(station)
                    \/ \E t \in {"ack", "data"}, fin \in BOOLEAN : BridgeSends(t, fin)
             PROVE  RestInv'
  OBVIOUS
<1>1. UNCHANGED <<ws, tx, uplink>>
  BY DEF HelloTimesOut, GotIp, Connected, Lose, BridgeSends, Around, queues
<1>2. ws.client \/ UNCHANGED <<rx, frag>>
  BY WorkerShape DEF HelloTimesOut, GotIp, Connected, Lose, BridgeSends, arriving
<1>3. flag' \cap {"connected", "authenticated"} \subseteq flag \/ ws.client
  BY DEF HelloTimesOut, GotIp, Connected, Lose, BridgeSends, MarkConnectionUnusable, Unusable
<1>4. /\ "announced" \in flag' => "announced" \in flag
      /\ "stopping" \in flag => "stopping" \in flag'
  BY DEF HelloTimesOut, GotIp, Connected, Lose, BridgeSends, MarkConnectionUnusable, Unusable
<1> QED
  BY <1>1, <1>2, <1>3, <1>4, RestFrame

LEMMA NextRest == TransportInv /\ RestInv /\ [Next]_vars => RestInv'
<1> SUFFICES ASSUME TransportInv, RestInv, [Next]_vars
             PROVE  RestInv'
  OBVIOUS
<1>1. CASE CallbackWorker \/ CallEnters \/ PublicCall \/ UNCHANGED vars
  <2>1. UNCHANGED <<ws, flag, rx, frag>>
    BY <1>1 DEF CallbackWorker, CallbackTakes, CallbackChecks, CallbackRuns, CallbackReturns, Elsewhere,
                CallEnters,
                PublicCall, CallQueues, CallFails, Apart, arriving, vars
  <2>2. UNCHANGED <<tx, uplink>> \/ "accepting" \in flag
    BY <1>1 DEF CallbackWorker, CallbackTakes, CallbackChecks, CallbackRuns, CallbackReturns, Elsewhere,
                CallEnters,
                PublicCall, CallQueues, CallFails, CanQueue, queues, vars
  <2> QED
    BY <2>1, <2>2, RestFrame
<1> QED
  BY <1>1, WorkerRest, LifecycleRest, EventRest DEF Next

----------------------------------------------------------------------------
(* The queue of the callbacks: the loss of a connection that the core was  *)
(* told of, or is about to be told of, is behind that in the queue.        *)

Callback == [t : {"ready", "lost", "data"}, gen : Nat]

LostAt(i) == cbq[i].t = "lost" /\ cbq[i].gen = gen

\* No item is of a later start, nor was it when the callback worker entered;
\* and what it has found to be of the present start was so then.
CallbacksAreOld ==
  /\ gen \in Nat /\ cbq \in Seq(Callback)
  /\ \A i \in DOMAIN cbq : cbq[i].gen \in 0 .. gen
  /\ cw.pc # "idle" => cw.item \in Callback /\ cw.item.gen \in 0 .. cw.since
  /\ cw.pc \in {"current", "run"} => cw.item.gen = cw.since

\* The callback worker has an item in hand that it may still tell of.
InHand == cw.pc \in {"check", "current"} /\ cw.item.gen = gen

\* One place is left for a loss.
NoneIsLost == \A i \in DOMAIN cbq : cbq[i].t # "lost"

RoomIsKept ==
  /\ \A i, j \in DOMAIN cbq : cbq[i].t = "lost" /\ cbq[j].t = "lost" => i = j
  /\ Len(cbq) <= CallbackItems
  /\ NoneIsLost => Len(cbq) < CallbackItems

\* A connection begins when the loss of the last one has been taken.
LinkHasNoLoss == flag \cap {"connected", "announced"} # {} => NoneIsLost

\* A link that was announced is still, or its loss is further behind.
ReadyIsFollowed ==
  /\ InHand /\ cw.item.t = "ready" =>
       "announced" \in flag \/ \E i \in DOMAIN cbq : LostAt(i)
  /\ \A k \in DOMAIN cbq : cbq[k].t = "ready" /\ cbq[k].gen = gen =>
       "announced" \in flag \/ \E i \in DOMAIN cbq : i > k /\ LostAt(i)

LossIsComing ==
  level = "up" /\ "callbacks" \notin closed /\ "announced" \notin flag =>
    \/ InHand /\ cw.item.t = "lost"
    \/ \E i \in DOMAIN cbq : LostAt(i)

\* A start finds the core told of nothing.
StartsDown == life.pc \in {"off", "create", "activate", "enable", "undo"} => level = "down"

LossInv ==
  CallbacksAreOld /\ RoomIsKept /\ LinkHasNoLoss /\ ReadyIsFollowed /\ LossIsComing /\ StartsDown

LEMMA InitLoss == Init => LossInv
<1> SUFFICES ASSUME Init
             PROVE  LossInv
  OBVIOUS
<1>1. /\ cbq = <<>> /\ gen = 0 /\ flag = {} /\ level = "down" /\ cw.pc = "idle"
  BY DEF Init, IdleCallback
<1>2. CallbacksAreOld /\ RoomIsKept
  BY <1>1, WifiAssumption DEF CallbacksAreOld, RoomIsKept
<1>3. LinkHasNoLoss /\ ReadyIsFollowed /\ LossIsComing /\ StartsDown
  BY <1>1 DEF InHand, LinkHasNoLoss, NoneIsLost, ReadyIsFollowed, LossIsComing, StartsDown
<1> QED
  BY <1>2, <1>3 DEF LossInv

\* A step that leaves the queue and the callback worker alone.
LEMMA LossFrame ==
  ASSUME LossInv, UNCHANGED <<cbq, cw, gen, level>>,
         "announced" \in flag' <=> "announced" \in flag,
         "connected" \in flag' => "connected" \in flag,
         closed' = closed \/ "callbacks" \in closed' \/ level = "down",
         life'.pc \in {"off", "create", "activate", "enable", "undo"} =>
           life.pc \in {"off", "create", "activate", "enable", "undo"}
  PROVE  LossInv'
<1>1. CallbacksAreOld' /\ RoomIsKept'
  BY DEF LossInv, CallbacksAreOld, RoomIsKept, NoneIsLost
<1>2. LinkHasNoLoss' /\ StartsDown'
  BY DEF LossInv, LinkHasNoLoss, NoneIsLost, StartsDown
<1>3. ReadyIsFollowed'
  BY DEF LossInv, ReadyIsFollowed, InHand, LostAt
<1>4. LossIsComing'
  BY DEF LossInv, LossIsComing, InHand, LostAt
<1> QED
  BY <1>1, <1>2, <1>3, <1>4 DEF LossInv

\* A callback of the present start is put behind the others.
LEMMA QueuedCallback ==
  ASSUME LossInv, NEW t \in {"ready", "lost", "data"}, QueueCallback(t)
  PROVE  /\ cbq' \in Seq(Callback)
         /\ Len(cbq') = Len(cbq) + 1 /\ Len(cbq) \in Nat
         /\ DOMAIN cbq' = DOMAIN cbq \cup {Len(cbq) + 1}
         /\ \A i \in DOMAIN cbq : cbq'[i] = cbq[i] /\ i \in 1 .. Len(cbq)
         /\ cbq'[Len(cbq) + 1].t = t /\ cbq'[Len(cbq) + 1].gen = gen
<1>1. cbq \in Seq(Callback) /\ gen \in Nat
  BY DEF LossInv, CallbacksAreOld
<1>2. [t |-> t, gen |-> gen] \in Callback
  BY <1>1 DEF Callback
<1> QED
  BY <1>1, <1>2 DEF QueueCallback

\* When there is no loss in the queue, every item counts.
LEMMA AllCount ==
  ASSUME LossInv, NoneIsLost
  PROVE  Counted = Len(cbq)
<1>1. cbq \in Seq(Callback)
  BY DEF LossInv, CallbacksAreOld
<1>2. {i \in DOMAIN cbq : cbq[i].t # "lost"} = 1 .. Len(cbq)
  BY <1>1 DEF NoneIsLost
<1>3. Len(cbq) \in Nat
  BY <1>1
<1>4. Cardinality(1 .. Len(cbq)) = Len(cbq)
  BY <1>3, FS_Interval
<1> QED
  BY <1>2, <1>4 DEF Counted

\* The queue takes what there is room for.
LEMMA QueueKeepsRoom ==
  ASSUME LossInv, NEW t \in {"ready", "data"}, RoomFor(t), QueueCallback(t)
  PROVE  RoomIsKept' /\ (NoneIsLost => NoneIsLost')
<1> USE QueuedCallback, WifiAssumption
<1>1. Len(cbq) < CallbackItems /\ Counted < CallbackItems - 1
  BY DEF RoomFor
<1>2. NoneIsLost => NoneIsLost'
  BY DEF NoneIsLost
<1>3. NoneIsLost' => NoneIsLost
  BY DEF NoneIsLost
<1>4. NoneIsLost => Len(cbq) < CallbackItems - 1
  BY <1>1, AllCount
<1>5. Len(cbq') <= CallbackItems /\ (NoneIsLost' => Len(cbq') < CallbackItems)
  BY <1>1, <1>3, <1>4
<1>6. \A i, j \in DOMAIN cbq' : cbq'[i].t = "lost" /\ cbq'[j].t = "lost" => i = j
  BY DEF LossInv, RoomIsKept
<1> QED
  BY <1>2, <1>5, <1>6 DEF RoomIsKept

\* Data is put behind the rest while the link is up.
LEMMA DataLoss ==
  ASSUME LossInv, RoomFor("data"), QueueCallback("data"),
         UNCHANGED <<flag, closed, cw, gen, level, life>>
  PROVE  LossInv'
<1> USE QueuedCallback
<1>1. CallbacksAreOld'
  BY DEF LossInv, CallbacksAreOld
<1>2. RoomIsKept' /\ (NoneIsLost => NoneIsLost')
  BY QueueKeepsRoom
<1>3. LinkHasNoLoss' /\ StartsDown'
  BY <1>2 DEF LossInv, LinkHasNoLoss, StartsDown
<1>4. ReadyIsFollowed'
  BY DEF LossInv, ReadyIsFollowed, InHand, LostAt
<1>5. LossIsComing'
  BY DEF LossInv, LossIsComing, InHand, LostAt
<1> QED
  BY <1>1, <1>2, <1>3, <1>4, <1>5 DEF LossInv

\* The link is announced: what is told then is followed by the announcement's
\* end only.
LEMMA ReadyLoss ==
  ASSUME LossInv, "connected" \in flag, "announced" \in flag',
         "announced" \in flag \/ ~RoomFor("ready") => UNCHANGED cbq,
         ~("announced" \in flag \/ ~RoomFor("ready")) => QueueCallback("ready"),
         UNCHANGED <<closed, cw, gen, level, life>>
  PROVE  LossInv'
<1>1. NoneIsLost
  BY DEF LossInv, LinkHasNoLoss
<1>2. CASE UNCHANGED cbq
  BY <1>1, <1>2 DEF LossInv, CallbacksAreOld, RoomIsKept, LinkHasNoLoss, NoneIsLost, ReadyIsFollowed,
                    LossIsComing, StartsDown, InHand
<1>3. CASE QueueCallback("ready") /\ RoomFor("ready")
  <2> USE QueuedCallback
  <2>1. CallbacksAreOld'
    BY <1>3 DEF LossInv, CallbacksAreOld
  <2>2. RoomIsKept' /\ NoneIsLost'
    BY <1>1, <1>3, QueueKeepsRoom
  <2>3. LinkHasNoLoss' /\ StartsDown' /\ ReadyIsFollowed' /\ LossIsComing'
    BY <2>2 DEF LossInv, LinkHasNoLoss, StartsDown, ReadyIsFollowed, LossIsComing
  <2> QED
    BY <2>1, <2>2, <2>3 DEF LossInv
<1> QED
  BY <1>2, <1>3

\* The loss of an announced link finds its place, and is behind all of it.
LEMMA LostLoss ==
  ASSUME LossInv, "announced" \in flag => RoomFor("lost") /\ QueueCallback("lost"),
         "announced" \notin flag => UNCHANGED cbq,
         "announced" \notin flag', "connected" \notin flag',
         UNCHANGED <<closed, cw, gen, level, life>>
  PROVE  LossInv'
<1>1. CASE "announced" \notin flag
  BY <1>1, LossFrame
<1>2. CASE "announced" \in flag
  <2> USE <1>2, QueuedCallback, WifiAssumption
  <2>1. NoneIsLost
    BY DEF LossInv, LinkHasNoLoss
  <2>2. CallbacksAreOld'
    BY DEF LossInv, CallbacksAreOld
  <2>3. Len(cbq') <= CallbackItems
    BY <2>1 DEF LossInv, RoomIsKept
  <2>4. \A i \in DOMAIN cbq' : cbq'[i].t = "lost" <=> i = Len(cbq) + 1
    BY <2>1 DEF NoneIsLost
  <2>5. RoomIsKept'
    BY <2>3, <2>4 DEF RoomIsKept, NoneIsLost
  <2>6. \E n \in DOMAIN cbq' : n = Len(cbq) + 1 /\ cbq'[n].t = "lost" /\ cbq'[n].gen = gen'
    OBVIOUS
  <2>7. \A k \in DOMAIN cbq' : cbq'[k].t = "ready" => Len(cbq) + 1 > k
    OBVIOUS
  <2>8. ReadyIsFollowed' /\ LossIsComing'
    BY <2>6, <2>7 DEF LostAt, ReadyIsFollowed, LossIsComing
  <2>9. LinkHasNoLoss' /\ StartsDown'
    BY DEF LossInv, LinkHasNoLoss, StartsDown
  <2> QED
    BY <2>2, <2>5, <2>8, <2>9 DEF LossInv
<1> QED
  BY <1>1, <1>2

\* The callback worker takes the first item; what was behind it still is.
LEMMA TakesLoss == LossInv /\ CallbackTakes => LossInv'
<1> SUFFICES ASSUME LossInv, CallbackTakes
             PROVE  LossInv'
  OBVIOUS
<1>1. /\ cbq \in Seq(Callback) /\ cbq # <<>> /\ cbq' = Tail(cbq)
      /\ cw.pc = "idle"
      /\ cw' = IF "callbacks" \notin closed 
                THEN [pc |-> "check", item |-> cbq[1], since |-> gen] ELSE cw
      /\ UNCHANGED <<flag, closed, gen, life, level>>
  BY DEF LossInv, CallbacksAreOld, CallbackTakes, CallbackEnters, TryEnter, Elsewhere
<1>2. /\ cbq' \in Seq(Callback) /\ Len(cbq) \in Nat /\ Len(cbq') = Len(cbq) - 1
      /\ 1 \in DOMAIN cbq
      /\ \A i \in DOMAIN cbq' : i + 1 \in DOMAIN cbq /\ cbq'[i] = cbq[i + 1] /\ i \in Nat
      /\ \A i \in DOMAIN cbq : i # 1 => i - 1 \in DOMAIN cbq' /\ cbq'[i - 1] = cbq[i]
      /\ \A i \in DOMAIN cbq : i \in Nat /\ i >= 1
  BY <1>1
<1>3. CallbacksAreOld'
  BY <1>1, <1>2 DEF LossInv, CallbacksAreOld
<1>4. NoneIsLost => NoneIsLost'
  BY <1>2 DEF NoneIsLost
<1>5. RoomIsKept'
  <2>1. \A i, j \in DOMAIN cbq' : cbq'[i].t = "lost" /\ cbq'[j].t = "lost" => i = j
    <3> SUFFICES ASSUME NEW i \in DOMAIN cbq', NEW j \in DOMAIN cbq',
                        cbq'[i].t = "lost", cbq'[j].t = "lost"
                 PROVE  i = j
      OBVIOUS
    <3>1. i + 1 = j + 1
      BY <1>2 DEF LossInv, RoomIsKept
    <3> QED
      BY <1>2, <3>1
  <2>2. Len(cbq') < CallbackItems
    BY <1>2, WifiAssumption DEF LossInv, RoomIsKept
  <2> QED
    BY <2>1, <2>2, <1>2, WifiAssumption DEF RoomIsKept
<1>6. LinkHasNoLoss' /\ StartsDown'
  BY <1>1, <1>4 DEF LossInv, LinkHasNoLoss, StartsDown
<1>7. \A i \in DOMAIN cbq : i # 1 /\ LostAt(i) => \E j \in DOMAIN cbq' : j = i - 1 /\ LostAt(j)'
  BY <1>1, <1>2 DEF LostAt
<1>8. ReadyIsFollowed'
  <2>1. ASSUME InHand', cw'.item.t = "ready", "announced" \notin flag
        PROVE  \E i \in DOMAIN cbq' : LostAt(i)'
    <3>1. cbq[1].t = "ready" /\ cbq[1].gen = gen
      BY <1>1, <2>1 DEF InHand
    <3>2. \E i \in DOMAIN cbq : i > 1 /\ LostAt(i)
      BY <1>2, <2>1, <3>1 DEF LossInv, ReadyIsFollowed
    <3> QED
      BY <1>2, <1>7, <3>2
  <2>2. ASSUME NEW k \in DOMAIN cbq', cbq'[k].t = "ready", cbq'[k].gen = gen, "announced" \notin flag
        PROVE  \E i \in DOMAIN cbq' : i > k /\ LostAt(i)'
    <3>1. PICK i \in DOMAIN cbq : i > k + 1 /\ LostAt(i)
      BY <1>2, <2>2 DEF LossInv, ReadyIsFollowed
    <3>2. PICK j \in DOMAIN cbq' : j = i - 1 /\ LostAt(j)'
      BY <1>2, <1>7, <3>1
    <3>3. i \in Nat /\ k \in Nat /\ j > k
      BY <1>2, <3>1, <3>2
    <3> QED
      BY <3>2, <3>3
  <2> QED
    BY <1>1, <2>1, <2>2 DEF ReadyIsFollowed, LostAt
<1>9. LossIsComing'
  <2> SUFFICES ASSUME level = "up", "callbacks" \notin closed, "announced" \notin flag
               PROVE  \/ InHand' /\ cw'.item.t = "lost"
                      \/ \E i \in DOMAIN cbq' : LostAt(i)'
    BY <1>1 DEF LossIsComing, LostAt
  <2>1. PICK i \in DOMAIN cbq : LostAt(i)
    BY <1>1 DEF LossInv, LossIsComing, InHand
  <2>2. CASE i = 1
    BY <1>1, <2>1, <2>2 DEF LostAt, InHand
  <2>3. CASE i # 1
    BY <1>7, <2>1, <2>3
  <2> QED
    BY <2>2, <2>3
<1> QED
  BY <1>3, <1>5, <1>6, <1>8, <1>9 DEF LossInv

\* What it keeps is of the present start, and was so when it entered.
LEMMA ChecksLoss == TransportInv /\ LossInv /\ CallbackChecks => LossInv'
<1> SUFFICES ASSUME TransportInv, LossInv, CallbackChecks
             PROVE  LossInv'
  OBVIOUS
<1>1. /\ cw = [pc |-> cw.pc, item |-> cw.item, since |-> cw.since] /\ cw.pc = "check"
      /\ IF cw.item.gen = gen
         THEN cw' = [pc |-> "current", item |-> cw.item, since |-> cw.since]
         ELSE cw'.pc = "idle"
      /\ UNCHANGED <<cbq, flag, closed, gen, life, level>>
  BY DEF TransportInv, Shape, CallbackChecks, CallbackIdle, IdleCallback, Elsewhere
<1>2. RoomIsKept' /\ LinkHasNoLoss' /\ StartsDown'
  BY <1>1 DEF LossInv, RoomIsKept, LinkHasNoLoss, NoneIsLost, StartsDown
<1>3. CallbacksAreOld'
  <2>1. gen \in Nat /\ cw.item.gen \in 0 .. cw.since /\ cw.since \in {gen - 1, gen}
    BY <1>1 DEF TransportInv, OwnerInv, EnteredLately, LossInv, CallbacksAreOld
  <2>2. cw.item.gen = gen => cw.since = gen
    BY <2>1
  <2> QED
    BY <1>1, <2>1, <2>2 DEF LossInv, CallbacksAreOld
<1>4. ReadyIsFollowed' /\ LossIsComing'
  BY <1>1 DEF LossInv, ReadyIsFollowed, LossIsComing, InHand, LostAt
<1> QED
  BY <1>2, <1>3, <1>4 DEF LossInv

\* It tells the core what is so, or leaves the core as it is.
LEMMA RunsLoss == TransportInv /\ LossInv /\ CallbackRuns => LossInv'
<1> SUFFICES ASSUME TransportInv, LossInv, CallbackRuns
             PROVE  LossInv'
  OBVIOUS
<1>1. /\ cw = [pc |-> cw.pc, item |-> cw.item, since |-> cw.since] /\ cw.pc = "current"
      /\ IF Deliver(cw.item)
         THEN cw' = [pc |-> "run", item |-> cw.item, since |-> cw.since]
         ELSE cw'.pc = "idle"
      /\ UNCHANGED <<cbq, flag, closed, gen, life>>
  BY DEF TransportInv, Shape, CallbackRuns, CallbackIdle, IdleCallback, Elsewhere
<1>2. CallbacksAreOld' /\ RoomIsKept' /\ LinkHasNoLoss'
  BY <1>1 DEF LossInv, CallbacksAreOld, RoomIsKept, LinkHasNoLoss, NoneIsLost
<1>3. ReadyIsFollowed'
  BY <1>1 DEF LossInv, ReadyIsFollowed, InHand, LostAt
<1>4. CASE ~Deliver(cw.item)
  <2>1. level' = level /\ cw.item.t # "lost"
    BY <1>4 DEF CallbackRuns, Deliver
  <2>2. LossIsComing' /\ StartsDown'
    BY <1>1, <2>1 DEF LossInv, LossIsComing, StartsDown, InHand, LostAt
  <2> QED
    BY <1>2, <1>3, <2>2 DEF LossInv
<1>5. CASE Deliver(cw.item)
  <2>1. level' = Told(cw.item)
    BY <1>5 DEF CallbackRuns
  <2>2. cw.item.t # "lost" => "active" \in flag
    BY <1>5 DEF Deliver, Is
  <2>3. "active" \in flag => life.pc \in {"on", "close", "signal"}
    BY DEF TransportInv, WorkerInv, NoAddress
  <2>4. StartsDown'
    BY <1>1, <2>1, <2>2, <2>3 DEF LossInv, StartsDown, Told
  <2>5. LossIsComing'
    <3>1. CASE cw.item.t = "ready" /\ cw.item.gen = gen
      BY <1>1, <2>1, <3>1 DEF LossInv, ReadyIsFollowed, LossIsComing, InHand, LostAt
    <3>2. CASE cw.item.t = "lost"
      BY <2>1, <3>2 DEF LossIsComing, Told
    <3>3. CASE cw.item.t # "lost" /\ ~(cw.item.t = "ready" /\ cw.item.gen = gen)
      <4>1. level' = level
        BY <2>1, <3>3 DEF Told
      <4> QED
        BY <1>1, <3>3, <4>1 DEF LossInv, LossIsComing, InHand, LostAt
    <3> QED
      BY <3>1, <3>2, <3>3
  <2> QED
    BY <1>2, <1>3, <2>4, <2>5 DEF LossInv
<1> QED
  BY <1>4, <1>5

LEMMA CallbackWorkerLoss == TransportInv /\ LossInv /\ CallbackWorker => LossInv'
<1>1. ASSUME LossInv, CallbackReturns
      PROVE  LossInv'
  BY <1>1 DEF CallbackReturns, CallbackIdle, IdleCallback, Elsewhere, LossInv, CallbacksAreOld, RoomIsKept,
              LinkHasNoLoss, NoneIsLost, ReadyIsFollowed, LossIsComing, StartsDown, InHand, LostAt
<1> QED
  BY <1>1, TakesLoss, ChecksLoss, RunsLoss DEF CallbackWorker

LEMMA WorkerLoss == TransportInv /\ RestInv /\ LossInv /\ WebSocketWorker => LossInv'
<1> SUFFICES ASSUME TransportInv, RestInv, LossInv, WebSocketWorker
             PROVE  LossInv'
  OBVIOUS
<1>1. CASE WorkerDestroys
  <2>1. "announced" \in flag => RoomFor("lost")
    BY WifiAssumption DEF LossInv, LinkHasNoLoss, RoomIsKept, RoomFor
  <2>2. flag' \cap {"announced", "connected"} = {}
    BY <1>1 DEF WorkerDestroys, Unusable, RestInv, ClientInv
  <2> QED
    BY <1>1, <2>1, <2>2, LostLoss DEF WorkerDestroys, Others, Is
<1>2. CASE WorkerReady /\ {"authenticated", "ip", "connected"} \subseteq flag
  BY <1>2, ReadyLoss DEF WorkerReady, Others, Is
<1>3. CASE WorkerReceives
  <2>1. CASE UNCHANGED cbq
    <3>1. flag' \subseteq flag \cup {"authenticated", "accepting"}
      BY <1>3 DEF WorkerReceives, MarkConnectionUnusable, Unusable
    <3>2. "announced" \in flag' <=> "announced" \in flag
      BY <1>3 DEF WorkerReceives, MarkConnectionUnusable, Unusable
    <3> QED
      BY <1>3, <2>1, <3>1, <3>2, LossFrame DEF WorkerReceives, Others
  <2>2. CASE ~UNCHANGED cbq
    BY <1>3, <2>2, DataLoss DEF WorkerReceives, Others
  <2> QED
    BY <2>1, <2>2
<1>4. CASE \/ WorkerLooks \/ WorkerCloses \/ WorkerHello \/ WorkerTransmits \/ WorkerTurns
           \/ WorkerReady /\ ~({"authenticated", "ip", "connected"} \subseteq flag)
  <2>1. UNCHANGED <<cbq, cw, gen, level, closed, life>>
    BY <1>4 DEF WorkerLooks, WorkerCloses, WorkerHello, WorkerTransmits, WorkerTurns, WorkerReady, Others
  <2>2. flag' \subseteq flag /\ ("announced" \in flag' <=> "announced" \in flag)
    BY <1>4 DEF WorkerLooks, WorkerCloses, WorkerHello, WorkerTransmits, WorkerTurns, WorkerReady,
                MarkConnectionUnusable, Unusable
  <2> QED
    BY <2>1, <2>2, LossFrame
<1> QED
  BY <1>1, <1>2, <1>3, <1>4 DEF WebSocketWorker

LEMMA EventLoss ==
  /\ LossInv
  /\ \/ HelloTimesOut \/ GotIp \/ Connected \/ \E station \in BOOLEAN : Lose(station)
     \/ \E t \in {"ack", "data"}, fin \in BOOLEAN : BridgeSends(t, fin)
  => LossInv'
<1>1. ASSUME LossInv, Connected
      PROVE  LossInv'
  <2>1. NoneIsLost /\ UNCHANGED <<cbq, cw, gen, level, closed, life>>
    BY <1>1 DEF Connected, NoneIsLost, Around
  <2>2. "announced" \in flag' <=> "announced" \in flag
    BY <1>1 DEF Connected
  <2> QED
    BY <1>1, <2>1, <2>2 DEF LossInv, CallbacksAreOld, RoomIsKept, LinkHasNoLoss, NoneIsLost,
                            ReadyIsFollowed, LossIsComing, StartsDown, InHand, LostAt
<1>2. ASSUME LossInv,
             \/ HelloTimesOut \/ GotIp \/ \E station \in BOOLEAN : Lose(station)
             \/ \E t \in {"ack", "data"}, fin \in BOOLEAN : BridgeSends(t, fin)
      PROVE  LossInv'
  <2>1. UNCHANGED <<cbq, cw, gen, level, closed, life>>
    BY <1>2 DEF HelloTimesOut, GotIp, Lose, BridgeSends, Others, Around
  <2>2. /\ "announced" \in flag' <=> "announced" \in flag
        /\ "connected" \in flag' => "connected" \in flag
    BY <1>2 DEF HelloTimesOut, GotIp, Lose, BridgeSends, MarkConnectionUnusable, Unusable
  <2> QED
    BY <1>2, <2>1, <2>2, LossFrame
<1> QED
  BY <1>1, <1>2

LEMMA LifecycleLoss ==
  /\ TransportInv /\ LossInv
  /\ StartOpens \/ StartFails \/ Lifecycle \/ \E by \in {"owner", "callback"} : StopBegins(by)
  => LossInv'
<1> USE LifeShape
<1>1. ASSUME TransportInv, LossInv, StartCounts
      PROVE  LossInv'
  <2>1. /\ gen' = gen + 1 /\ level = "down" /\ UNCHANGED <<cbq, cw, closed, level, flag>>
        /\ life'.pc = "enable"
    BY <1>1 DEF StartCounts, At, LifeGoes, Beside, LossInv, StartsDown
  <2>2. CallbacksAreOld'
    <3>1. gen \in Nat /\ \A g \in 0 .. gen : g \in 0 .. gen + 1
      BY <1>1 DEF LossInv, CallbacksAreOld
    <3> QED
      BY <1>1, <2>1, <3>1 DEF LossInv, CallbacksAreOld
  <2>3. /\ \A i \in DOMAIN cbq : cbq[i].gen # gen'
        /\ cw.pc # "idle" => cw.item.gen # gen'
    <3>1. gen \in Nat
      BY <1>1 DEF LossInv, CallbacksAreOld
    <3>2. \A g \in 0 .. gen : g # gen + 1
      BY <3>1
    <3>3. cw.pc # "idle" => cw.item.gen \in 0 .. gen
      BY <1>1, <3>1 DEF LossInv, CallbacksAreOld, TransportInv, OwnerInv, EnteredLately
    <3> QED
      BY <1>1, <2>1, <3>2, <3>3 DEF LossInv, CallbacksAreOld
  <2>4. ReadyIsFollowed' /\ LossIsComing' /\ StartsDown'
    BY <2>1, <2>3 DEF ReadyIsFollowed, LossIsComing, StartsDown, InHand
  <2>5. RoomIsKept' /\ LinkHasNoLoss'
    BY <1>1, <2>1 DEF LossInv, RoomIsKept, LinkHasNoLoss, NoneIsLost
  <2> QED
    BY <2>2, <2>4, <2>5 DEF LossInv
<1>2. ASSUME LossInv, StopDeletes
      PROVE  LossInv'
  <2>1. level' = "down" /\ UNCHANGED <<cbq, cw, closed, gen, flag>>
    BY <1>2 DEF StopDeletes, Beside
  <2> QED
    BY <1>2, <2>1 DEF LossInv, CallbacksAreOld, RoomIsKept, LinkHasNoLoss, NoneIsLost, ReadyIsFollowed,
                      LossIsComing, StartsDown, InHand, LostAt
<1>3. ASSUME TransportInv, LossInv,
             \/ StartOpens \/ StartFails \/ StartCreates \/ StartActivates \/ StopCloses \/ StopSignals
             \/ StopJoins \/ StopWaitsForCalls \/ StopWaitsForCallbacks
             \/ \E by \in {"owner", "callback"} : StopBegins(by)
      PROVE  LossInv'
  <2>1. UNCHANGED <<cbq, cw, gen, level>>
    BY <1>3 DEF StartOpens, StartFails, StartCreates, StartActivates, StopCloses, StopSignals,
                StopJoins, StopWaitsForCalls, StopWaitsForCallbacks, StopBegins, Beside
  <2>2. /\ "announced" \in flag' <=> "announced" \in flag
        /\ "connected" \in flag' => "connected" \in flag
    BY <1>3 DEF StartOpens, StartFails, StartCreates, StartActivates, StopCloses, StopSignals,
                StopJoins, StopWaitsForCalls, StopWaitsForCallbacks, StopBegins
  <2>3. life'.pc \in {"off", "create", "activate", "enable", "undo"} =>
          life.pc \in {"off", "create", "activate", "enable", "undo"}
    BY <1>3 DEF StartOpens, StartFails, StartCreates, StartActivates, StopCloses, StopSignals,
                StopJoins, StopWaitsForCalls, StopWaitsForCallbacks, StopBegins, At, LifeGoes, Release
  <2>4. closed' = closed \/ "callbacks" \in closed' \/ level = "down"
    BY <1>3 DEF StartOpens, StartFails, StartCreates, StartActivates, StopCloses, StopSignals,
                StopJoins, StopWaitsForCalls, StopWaitsForCallbacks, StopBegins, At, CloseBarriers, OpenBarriers,
                Release, LossInv, StartsDown
  <2> QED
    BY <1>3, <2>1, <2>2, <2>3, <2>4, LossFrame
<1> QED
  BY <1>1, <1>2, <1>3 DEF Lifecycle

LEMMA NextLoss == TransportInv /\ RestInv /\ LossInv /\ [Next]_vars => LossInv'
<1>1. ASSUME LossInv, CallEnters \/ PublicCall \/ UNCHANGED vars
      PROVE  LossInv'
  <2>1. UNCHANGED <<cbq, cw, gen, level, closed, life, flag>>
    BY <1>1 DEF CallEnters, PublicCall, CallQueues, CallFails, Apart, vars
  <2> QED
    BY <1>1, <2>1, LossFrame
<1> QED
  BY <1>1, WorkerLoss, CallbackWorkerLoss, EventLoss, LifecycleLoss DEF Next

LEMMA LossIsInvariant == Spec => [](TransportInv /\ LossInv)
<1>1. Init => RestInv /\ LossInv
  BY InitRest, InitLoss
<1>2. TransportInv /\ RestInv /\ LossInv /\ [Next]_vars => RestInv' /\ LossInv'
  BY NextRest, NextLoss
<1> QED
  BY <1>1, <1>2, TransportIsOrderly, PTL DEF Spec

\* A callback runs for an item that was of the present start when the callback
\* worker entered the barrier, in that start or in the next one: a start waits
\* for whoever has entered before it opens the barrier.  None runs for data
\* while the owner creates or deletes the transport.
THEOREM CallbacksStayCurrent == Spec => []CallbacksAreCurrent
<1>1. TransportInv /\ LossInv => CallbacksAreCurrent
  BY DEF TransportInv, OwnerInv, EnteredLately, DataRuns, Starting, LossInv, CallbacksAreOld,
         CallbacksAreCurrent
<1> QED
  BY <1>1, LossIsInvariant, PTL

\* The core is not left with a connection of this start that was given up: as
\* long as its callbacks run, the loss of a link that was announced is in the
\* queue behind the announcement, where one place is always left for it
\* (QueueCallback).
THEOREM TheLossIsTold == Spec => []LossIsTold
<1>1. ASSUME TransportInv, LossInv
      PROVE  LossIsTold
  <2>1. \A i \in DOMAIN cbq : LostAt(i) => cbq[i] = [t |-> "lost", gen |-> gen]
    <3> SUFFICES ASSUME NEW i \in DOMAIN cbq, LostAt(i)
                 PROVE  cbq[i] = [t |-> "lost", gen |-> gen]
      OBVIOUS
    <3>1. cbq[i] \in Callback
      BY <1>1 DEF LossInv, CallbacksAreOld
    <3> QED
      BY <3>1 DEF Callback, LostAt
  <2>2. InHand /\ cw.item.t = "lost" => cw.item = [t |-> "lost", gen |-> gen]
    BY <1>1 DEF LossInv, CallbacksAreOld, Callback, InHand
  <2> QED
    BY <1>1, <2>1, <2>2 DEF LossInv, LossIsComing, LossIsTold, Is
<1> QED
  BY <1>1, LossIsInvariant, PTL

----------------------------------------------------------------------------
(* The wire: the queued frames take the stream the Bridge has seen to the  *)
(* stream the device is in, one frame after the other.                     *)

FrameSet == [t : Kinds, n : Nat]
Streams  == [active : BOOLEAN, next : Nat]

\* The stream as the Bridge saw it, or as it will be.
AsStream(w) == [active |-> w.open, next |-> w.next]

\* A frame the Bridge takes in a stream, and the stream after it.
Takes(stream, frame) ==
  /\ frame.t = "start" => ~stream.active
  /\ frame.t \in {"chunk", "end", "abort"} => stream.active /\ frame.n = stream.next

After(stream, frame) ==
  CASE frame.t = "ctrl"  -> stream
    [] frame.t = "start" -> [active |-> TRUE, next |-> 0]
    [] frame.t = "chunk" -> [active |-> stream.active, next |-> stream.next + 1]
    [] OTHER             -> NoStream

\* The streams between the frames of a queue.
Leads(path, from, frames, to) ==
  /\ path \in [0 .. Len(frames) -> Streams]
  /\ path[0] = from /\ path[Len(frames)] = to
  /\ \A i \in 1 .. Len(frames) : Takes(path[i - 1], frames[i]) /\ path[i] = After(path[i - 1], frames[i])

Follows == \E path : Leads(path, AsStream(wire), tx, uplink)

Contents ==
  /\ tx \in Seq(FrameSet) /\ uplink \in Streams
  /\ wire \in [open : BOOLEAN, next : Nat, sound : BOOLEAN]
  /\ rx \in Seq({"ack", "data"}) /\ frag \in BOOLEAN
  /\ net \in [open : BOOLEAN, hello : BOOLEAN, acked : BOOLEAN, part : BOOLEAN]

\* The worker is giving the connection up, or will before the next one.
Recycling == ws.pc \in {"recycle", "recycled", "close", "closed"}
Clean     == "recycle" \notin bits /\ "stopping" \notin flag /\ ~Recycling

\* Before a connection nothing is left of the last one.
NothingLeft ==
  /\ tx = <<>> /\ uplink = NoStream /\ frag = FALSE
  /\ "authenticated" \notin flag
  /\ \A i \in DOMAIN rx : rx[i] # "ack"

WireInv ==
  /\ Contents
  /\ WireIsWellFormed
  /\ ~net.open => wire = NothingSeen
  /\ net.open /\ ~Recycling => Follows
  /\ ~net.open /\ Clean => NothingLeft

LEMMA NothingFollows ==
  ASSUME tx = <<>>, uplink = NoStream, wire = NothingSeen
  PROVE  Follows
<1>1. AsStream(wire) = NoStream /\ NoStream \in Streams /\ Len(tx) = 0
  BY DEF AsStream, NothingSeen, NoStream, Streams
<1>2. Leads([i \in 0 .. 0 |-> NoStream], NoStream, tx, NoStream)
  BY <1>1 DEF Leads
<1> QED
  BY <1>1, <1>2 DEF Follows

LEMMA InitWire == Init => WireInv
<1> SUFFICES ASSUME Init
             PROVE  WireInv
  OBVIOUS
<1>1. /\ tx = <<>> /\ rx = <<>> /\ frag = FALSE /\ flag = {}
      /\ uplink = [active |-> FALSE, next |-> 0]
      /\ net = [open |-> FALSE, hello |-> FALSE, acked |-> FALSE, part |-> FALSE]
      /\ wire = [open |-> FALSE, next |-> 0, sound |-> TRUE]
  BY DEF Init, NoStream, NoNet, NothingSeen
<1>2. tx \in Seq(FrameSet) /\ rx \in Seq({"ack", "data"})
  BY <1>1
<1>3. uplink \in Streams /\ frag \in BOOLEAN
  BY <1>1 DEF Streams
<1>4. /\ wire \in [open : BOOLEAN, next : Nat, sound : BOOLEAN]
      /\ net \in [open : BOOLEAN, hello : BOOLEAN, acked : BOOLEAN, part : BOOLEAN]
  BY <1>1
<1> QED
  BY <1>1, <1>2, <1>3, <1>4 DEF Contents, WireInv, WireIsWellFormed, NothingSeen, NothingLeft, NoStream

\* The frame of a call that fits the stream goes behind the others.
LEMMA FollowsAppend ==
  ASSUME Contents, Follows, NEW form \in Kinds, Fits(form),
         tx' = Append(tx, Frame(form)), uplink' = Advanced(form), wire' = wire
  PROVE  Follows'
<1>1. PICK path : Leads(path, AsStream(wire), tx, uplink)
  BY DEF Follows
<1> DEFINE n == Len(tx)
           path2 == [i \in 0 .. n + 1 |-> IF i = n + 1 THEN Advanced(form) ELSE path[i]]
<1>2. n \in Nat /\ uplink = [active |-> uplink.active, next |-> uplink.next] /\ uplink.next \in Nat
  BY DEF Contents, Streams
<1>3. Frame(form) \in FrameSet /\ Advanced(form) \in Streams
  <2>1. Frame(form) \in FrameSet
    BY <1>2 DEF Frame, FrameSet
  <2>2. CASE form = "start"
    <3>1. Advanced(form) = [active |-> TRUE, next |-> 0]
      BY <2>2 DEF Advanced
    <3> QED
      BY <2>1, <3>1 DEF Streams
  <2>3. CASE form = "ctrl"
    <3>1. Advanced(form) = uplink
      BY <2>3 DEF Advanced
    <3> QED
      BY <2>1, <3>1 DEF Contents
  <2>4. CASE form = "chunk"
    <3>1. Advanced(form) = [uplink EXCEPT !.next = @ + 1]
      BY <2>4 DEF Advanced
    <3>2. uplink.next + 1 \in Nat
      BY <1>2
    <3> QED
      BY <2>1, <3>1, <3>2 DEF Contents, Streams
  <2>5. CASE form \in {"end", "abort"}
    <3>1. Advanced(form) = NoStream
      BY <2>5 DEF Advanced
    <3>2. NoStream \in Streams
      BY DEF NoStream, Streams
    <3> QED
      BY <2>1, <3>1, <3>2
  <2> QED
    BY <2>1, <2>2, <2>3, <2>4, <2>5 DEF Kinds
<1>4. /\ Len(tx') = n + 1 /\ tx'[n + 1] = Frame(form)
      /\ \A i \in 1 .. n : tx'[i] = tx[i]
  BY <1>2, <1>3 DEF Contents
<1>5. Takes(uplink, Frame(form))
  BY <1>2 DEF Takes, Frame, Fits, Kinds
<1>6. After(uplink, Frame(form)) = Advanced(form)
  BY <1>2 DEF After, Frame, Advanced, Kinds
<1>7. path2 \in [0 .. n + 1 -> Streams] /\ path2[0] = AsStream(wire) /\ path2[n + 1] = Advanced(form)
  BY <1>1, <1>2, <1>3 DEF Leads
<1>8. ASSUME NEW i \in 1 .. n + 1
      PROVE  Takes(path2[i - 1], tx'[i]) /\ path2[i] = After(path2[i - 1], tx'[i])
  <2>1. CASE i = n + 1
    <3>1. path2[i - 1] = uplink /\ path2[i] = Advanced(form)
      BY <1>1, <1>2, <2>1 DEF Leads
    <3> QED
      BY <1>4, <1>5, <1>6, <2>1, <3>1
  <2>2. CASE i \in 1 .. n
    <3>1. path2[i - 1] = path[i - 1] /\ path2[i] = path[i]
      BY <1>2, <2>2
    <3> QED
      BY <1>1, <1>4, <2>2, <3>1 DEF Leads
  <2> QED
    BY <1>2, <2>1, <2>2
<1>9. Leads(path2, AsStream(wire), tx', uplink')
  BY <1>4, <1>7, <1>8 DEF Leads
<1> HIDE DEF path2
<1> QED
  BY <1>9 DEF Follows, AsStream

\* The first frame reaches the Bridge as the one it waits for.
LEMMA FollowsTail ==
  ASSUME Contents, Follows, wire.sound, tx # <<>>,
         tx' = Tail(tx), wire' = Seen(tx[1]), uplink' = uplink
  PROVE  Follows' /\ wire'.sound /\ wire' \in [open : BOOLEAN, next : Nat, sound : BOOLEAN]
<1>1. PICK path : Leads(path, AsStream(wire), tx, uplink)
  BY DEF Follows
<1> DEFINE n == Len(tx)
           path2 == [i \in 0 .. n - 1 |-> path[i + 1]]
<1>2. /\ n \in Nat /\ n >= 1 /\ tx[1] \in FrameSet
      /\ Len(tx') = n - 1 /\ \A i \in 1 .. n - 1 : tx'[i] = tx[i + 1]
  BY DEF Contents
<1>3. /\ wire = [open |-> wire.open, next |-> wire.next, sound |-> TRUE]
      /\ wire.open \in BOOLEAN /\ wire.next \in Nat
  BY DEF Contents
<1>4. Takes(AsStream(wire), tx[1]) /\ path[1] = After(AsStream(wire), tx[1])
  BY <1>1, <1>2 DEF Leads
<1>5. /\ wire' \in [open : BOOLEAN, next : Nat, sound : BOOLEAN]
      /\ wire'.sound /\ AsStream(wire') = After(AsStream(wire), tx[1])
  <2>1. CASE tx[1].t = "ctrl"
    <3>1. wire' = wire /\ After(AsStream(wire), tx[1]) = AsStream(wire)
      BY <2>1 DEF Seen, After
    <3> QED
      BY <3>1 DEF Contents, AsStream
  <2>2. CASE tx[1].t = "start"
    <3>1. ~wire.open
      BY <1>4, <2>2 DEF Takes, AsStream
    <3>2. wire' = [open |-> TRUE, next |-> 0, sound |-> TRUE]
      BY <2>2, <3>1 DEF Seen
    <3> QED
      BY <2>2, <3>2 DEF After, AsStream
  <2>3. CASE tx[1].t = "chunk"
    <3>1. wire.open /\ tx[1].n = wire.next
      BY <1>4, <2>3 DEF Takes, AsStream
    <3>2. wire' = [wire EXCEPT !.next = @ + 1, !.sound = @ /\ wire.open /\ tx[1].n = wire.next]
      BY <2>3 DEF Seen
    <3>3. wire' = [open |-> wire.open, next |-> wire.next + 1, sound |-> TRUE]
      BY <1>3, <3>1, <3>2
    <3>4. After(AsStream(wire), tx[1]) = [active |-> wire.open, next |-> wire.next + 1]
      BY <2>3 DEF After, AsStream
    <3> QED
      BY <1>3, <3>3, <3>4 DEF AsStream
  <2>4. CASE tx[1].t \in {"end", "abort"}
    <3>1. wire.open /\ tx[1].n = wire.next
      BY <1>4, <2>4 DEF Takes, AsStream
    <3>2. wire' = [open |-> FALSE, next |-> 0, sound |-> TRUE]
      BY <2>4, <3>1 DEF Seen
    <3> QED
      BY <2>4, <3>2 DEF After, AsStream, NoStream
  <2> QED
    BY <1>2, <2>1, <2>2, <2>3, <2>4 DEF FrameSet, Kinds
<1>6. path2 \in [0 .. n - 1 -> Streams] /\ path2[0] = path[1] /\ path2[n - 1] = uplink
  BY <1>1, <1>2 DEF Leads
<1>7. ASSUME NEW i \in 1 .. n - 1
      PROVE  Takes(path2[i - 1], tx'[i]) /\ path2[i] = After(path2[i - 1], tx'[i])
  <2>1. i + 1 \in 1 .. n /\ path2[i - 1] = path[i] /\ path2[i] = path[i + 1] /\ tx'[i] = tx[i + 1]
        /\ (i + 1) - 1 = i
    BY <1>2
  <2>2. /\ Takes(path[(i + 1) - 1], tx[i + 1])
        /\ path[i + 1] = After(path[(i + 1) - 1], tx[i + 1])
    BY <1>1, <2>1 DEF Leads
  <2> QED
    BY <2>1, <2>2
<1>8. Leads(path2, AsStream(wire'), tx', uplink')
  BY <1>2, <1>4, <1>5, <1>6, <1>7 DEF Leads
<1> HIDE DEF path2
<1> QED
  BY <1>5, <1>8 DEF Follows, AsStream

\* A step that neither sends nor queues, and does not call the worker clean.
LEMMA WireFrame ==
  ASSUME WireInv, UNCHANGED <<tx, uplink, frag, wire>>,
         net' \in [open : BOOLEAN, hello : BOOLEAN, acked : BOOLEAN, part : BOOLEAN],
         net'.open = net.open, net'.part = net.part,
         rx' \in Seq({"ack", "data"}),
         (\A i \in DOMAIN rx : rx[i] # "ack") => \A i \in DOMAIN rx' : rx'[i] # "ack",
         "authenticated" \in flag' => "authenticated" \in flag,
         Clean' => Clean,
         ~Recycling' /\ net.open => ~Recycling
  PROVE  WireInv'
<1>1. Contents' /\ WireIsWellFormed' /\ (~net'.open => wire' = NothingSeen)
  BY DEF WireInv, Contents, WireIsWellFormed
<1>2. net'.open /\ ~Recycling' => Follows'
  BY DEF WireInv, Follows, AsStream
<1>3. ~net'.open /\ Clean' => NothingLeft'
  BY DEF WireInv, NothingLeft
<1> QED
  BY <1>1, <1>2, <1>3 DEF WireInv

\* A received message is taken from the queue.
LEMMA RxTail ==
  ASSUME Contents, rx # <<>>, rx' = Tail(rx)
  PROVE  /\ rx' \in Seq({"ack", "data"}) /\ rx[1] = Head(rx) /\ 1 \in DOMAIN rx
         /\ (\A i \in DOMAIN rx : rx[i] # "ack") => \A i \in DOMAIN rx' : rx'[i] # "ack"
<1>1. rx \in Seq({"ack", "data"})
  BY DEF Contents
<1>2. /\ rx' \in Seq({"ack", "data"}) /\ rx[1] = Head(rx) /\ 1 \in DOMAIN rx
      /\ \A i \in DOMAIN rx' : i + 1 \in DOMAIN rx /\ rx'[i] = rx[i + 1]
  BY <1>1
<1> QED
  BY <1>2

LEMMA WorkerDestroysWire == TransportInv /\ RestInv /\ WireInv /\ WorkerDestroys => WireInv'
<1> SUFFICES ASSUME TransportInv, RestInv, WireInv, WorkerDestroys
             PROVE  WireInv'
  OBVIOUS
<1>1. tx' = <<>> /\ uplink' = NoStream /\ rx' = <<>>
  BY DEF WorkerDestroys, DrainTxQueue
<1>2. wire' = NothingSeen /\ net'.open = FALSE /\ frag' = FALSE
  <2>1. CASE ws.client
    BY <2>1 DEF WorkerDestroys, Cut, NoNet
  <2>2. CASE ~ws.client
    <3>1. UNCHANGED <<frag, net, wire>> /\ ~net.open /\ net.open \in BOOLEAN
      BY <2>2, WorkerShape DEF WorkerDestroys, WireInv, Contents
    <3> QED
      BY <2>2, <3>1 DEF WireInv, RestInv, ClientInv
  <2> QED
    BY <2>1, <2>2
<1>3. net' \in [open : BOOLEAN, hello : BOOLEAN, acked : BOOLEAN, part : BOOLEAN]
  <2>1. CASE ws.client
    <3>1. net' = NoNet
      BY <2>1 DEF WorkerDestroys, Cut
    <3>2. NoNet \in [open : BOOLEAN, hello : BOOLEAN, acked : BOOLEAN, part : BOOLEAN]
      BY DEF NoNet
    <3> QED
      BY <3>1, <3>2
  <2>2. CASE ~ws.client
    BY <2>2 DEF WorkerDestroys, WireInv, Contents
  <2> QED
    BY <2>1, <2>2
<1>4. "authenticated" \notin flag'
  BY DEF WorkerDestroys, Unusable, RestInv, ClientInv
<1>5. uplink' \in Streams /\ wire' \in [open : BOOLEAN, next : Nat, sound : BOOLEAN] /\ wire'.sound
  BY <1>1, <1>2 DEF NoStream, NothingSeen, Streams
<1>6. Contents'
  <2>1. tx' \in Seq(FrameSet) /\ rx' \in Seq({"ack", "data"})
    BY <1>1
  <2>2. frag' \in BOOLEAN
    BY <1>2
  <2> QED
    BY <1>3, <1>5, <2>1, <2>2 DEF Contents
<1>7. NothingLeft'
  BY <1>1, <1>2, <1>4 DEF NothingLeft
<1> QED
  BY <1>2, <1>5, <1>6, <1>7 DEF WireInv, WireIsWellFormed

LEMMA WorkerTransmitsWire == TransportInv /\ WireInv /\ WorkerTransmits => WireInv'
<1> SUFFICES ASSUME TransportInv, WireInv, WorkerTransmits
             PROVE  WireInv'
  OBVIOUS
<1>1. /\ ws.pc = "transmit" /\ ~Recycling /\ ~Recycling'
      /\ UNCHANGED <<uplink, frag, rx, net>> /\ Contents
  BY WorkerShape DEF WorkerTransmits, Goes, AfterTransmit, Recycling, arriving, WireInv
<1>2. "stopping" \in flag' <=> "stopping" \in flag
  BY DEF WorkerTransmits, MarkConnectionUnusable, Unusable
<1>3. CASE UNCHANGED tx
  <2>1. UNCHANGED <<tx, wire, bits>> /\ flag' = flag
    <3>1. CASE Is("authenticated") /\ ws.client /\ tx # <<>>
      <4>1. tx' = Tail(tx) /\ tx \in Seq(FrameSet)
        BY <1>1, <3>1 DEF WorkerTransmits, Contents
      <4>2. Len(tx') # Len(tx)
        BY <3>1, <4>1
      <4> QED
        BY <1>3, <4>2
    <3> QED
      BY <3>1 DEF WorkerTransmits
  <2> QED
    BY <1>1, <2>1, WireFrame DEF Clean, Contents
<1>4. CASE ~UNCHANGED tx
  <2>1. /\ tx # <<>> /\ tx' = Tail(tx)
        /\ IF net.open THEN wire' = Seen(Head(tx)) /\ UNCHANGED <<flag, bits, ws>>
           ELSE bits' = bits \cup {"recycle"} /\ UNCHANGED wire
    BY <1>4 DEF WorkerTransmits, MarkConnectionUnusable
  <2>2. tx \in Seq(FrameSet) /\ tx' \in Seq(FrameSet) /\ Head(tx) = tx[1]
    BY <1>1, <2>1 DEF Contents
  <2>3. CASE net.open
    <3>1. Follows' /\ wire'.sound /\ wire' \in [open : BOOLEAN, next : Nat, sound : BOOLEAN]
      BY <1>1, <2>1, <2>2, <2>3, FollowsTail DEF WireInv, WireIsWellFormed
    <3>2. Contents'
      BY <1>1, <2>2, <3>1 DEF Contents
    <3> QED
      BY <1>1, <2>3, <3>1, <3>2 DEF WireInv, WireIsWellFormed
  <2>4. CASE ~net.open
    <3>1. ~Clean' /\ Contents'
      BY <1>1, <2>1, <2>2, <2>4 DEF Clean, Contents
    <3> QED
      BY <1>1, <2>1, <2>4, <3>1 DEF WireInv, WireIsWellFormed
  <2> QED
    BY <2>3, <2>4
<1> QED
  BY <1>3, <1>4

LEMMA WorkerReceivesWire == TransportInv /\ WireInv /\ WorkerReceives => WireInv'
<1> SUFFICES ASSUME TransportInv, WireInv, WorkerReceives
             PROVE  WireInv'
  OBVIOUS
<1>1. /\ rx # <<>> /\ rx' = Tail(rx) /\ Contents
      /\ UNCHANGED <<tx, uplink, ws, frag, net, wire>>
  BY DEF WorkerReceives, queues, WireInv
<1>2. /\ bits \subseteq bits' /\ ("stopping" \in flag => "stopping" \in flag')
      /\ "authenticated" \in flag' => "authenticated" \in flag \/ Head(rx) = "ack"
  BY DEF WorkerReceives, MarkConnectionUnusable, Unusable, Is
<1>3. (Clean' => Clean) /\ (Recycling' <=> Recycling)
  BY <1>1, <1>2 DEF Clean, Recycling
<1>4. CASE net.open
  BY <1>1, <1>4, RxTail DEF WireInv, Contents, WireIsWellFormed, Follows, AsStream, Recycling
<1>5. CASE ~net.open /\ Clean
  <2>1. Head(rx) # "ack"
    BY <1>1, <1>5, RxTail DEF WireInv, NothingLeft
  <2> QED
    BY <1>1, <1>2, <1>3, <2>1, RxTail, WireFrame DEF Contents
<1>6. CASE ~net.open /\ ~Clean
  <2>1. Contents' /\ ~Clean'
    BY <1>1, <1>3, <1>6, RxTail DEF Contents
  <2> QED
    BY <1>1, <1>6, <2>1 DEF WireInv, WireIsWellFormed
<1> QED
  BY <1>4, <1>5, <1>6

LEMMA WorkerWire == TransportInv /\ RestInv /\ WireInv /\ WebSocketWorker => WireInv'
<1> SUFFICES ASSUME TransportInv, RestInv, WireInv, WebSocketWorker
             PROVE  WireInv'
  OBVIOUS
<1>1. Contents
  BY DEF WireInv
<1>2. CASE WorkerLooks
  <2>1. ws.pc = "top" /\ UNCHANGED <<flag, tx, uplink, frag, rx, net, wire>>
    BY <1>2 DEF WorkerLooks, queues, arriving
  <2>2. Clean' => Clean
    <3>1. CASE "stopping" \in flag
      BY <2>1, <3>1 DEF Clean
    <3>2. CASE "stopping" \notin flag /\ "recycle" \in bits
      BY <1>2, <3>2, WorkerShape DEF WorkerLooks, Is, Clean, Recycling
    <3>3. CASE "stopping" \notin flag /\ "recycle" \notin bits
      BY <2>1, <3>3 DEF Clean, Recycling
    <3> QED
      BY <3>1, <3>2, <3>3
  <2> QED
    BY <1>1, <2>1, <2>2, WireFrame DEF Contents, Recycling
<1>3. CASE WorkerCloses
  <2>1. /\ Recycling' /\ uplink' = NoStream /\ UNCHANGED <<tx, frag, rx, net, wire>>
    BY <1>3, WorkerShape DEF WorkerCloses, Goes, Recycling, arriving
  <2>2. Contents'
    BY <1>1, <2>1 DEF Contents, NoStream, Streams
  <2> QED
    BY <2>1, <2>2 DEF WireInv, WireIsWellFormed, Clean
<1>4. CASE WorkerDestroys
  BY <1>4, WorkerDestroysWire
<1>5. CASE WorkerHello \/ WorkerReady \/ WorkerTurns
  <2>1. /\ ~Recycling /\ ~Recycling' /\ UNCHANGED <<tx, uplink, frag, rx, wire>>
        /\ bits \subseteq bits' /\ ("stopping" \in flag => "stopping" \in flag')
        /\ "authenticated" \in flag' => "authenticated" \in flag
    BY <1>5, WorkerShape DEF WorkerHello, WorkerReady, WorkerTurns, Goes, Begin, MarkConnectionUnusable,
                             Unusable, Recycling, queues, arriving
  <2>2. /\ net' \in [open : BOOLEAN, hello : BOOLEAN, acked : BOOLEAN, part : BOOLEAN]
        /\ net'.open = net.open /\ net'.part = net.part
    BY <1>1, <1>5 DEF WorkerHello, WorkerReady, WorkerTurns, Contents
  <2>3. Clean' => Clean
    BY <2>1 DEF Clean
  <2> QED
    BY <1>1, <2>1, <2>2, <2>3, WireFrame DEF Contents
<1>6. CASE WorkerTransmits
  BY <1>6, WorkerTransmitsWire
<1>7. CASE WorkerReceives
  BY <1>7, WorkerReceivesWire
<1> QED
  BY <1>2, <1>3, <1>4, <1>5, <1>6, <1>7 DEF WebSocketWorker

LEMMA CallsWire == WireInv /\ (CallEnters \/ PublicCall) => WireInv'
<1> SUFFICES ASSUME WireInv, CallEnters \/ PublicCall
             PROVE  WireInv'
  OBVIOUS
<1>1. UNCHANGED <<flag, bits, frag, rx, ws, net, wire>> /\ Contents
  BY DEF CallEnters, PublicCall, CallQueues, CallFails, Apart, arriving, WireInv
<1>2. (Clean' <=> Clean) /\ (Recycling' <=> Recycling)
  BY <1>1 DEF Clean, Recycling
<1>3. CASE UNCHANGED <<tx, uplink>>
  BY <1>1, <1>2, <1>3, WireFrame DEF Contents
<1>4. CASE \E form \in Kinds : CallQueues(form)
  <2>1. PICK form \in Kinds : CallQueues(form)
    BY <1>4
  <2>2. /\ "authenticated" \in flag /\ Fits(form)
        /\ tx' = Append(tx, Frame(form)) /\ uplink' = Advanced(form)
    BY <2>1 DEF CallQueues, CanQueue
  <2>3. Frame(form) \in FrameSet
    BY <1>1 DEF Frame, FrameSet, Contents, Streams
  <2>4. uplink' \in Streams
    <3>1. CASE form = "start"
      BY <2>2, <3>1 DEF Advanced, Streams
    <3>2. CASE form = "ctrl"
      BY <1>1, <2>2, <3>2 DEF Advanced, Contents
    <3>3. CASE form = "chunk"
      <4>1. uplink' = [uplink EXCEPT !.next = @ + 1] /\ uplink.next + 1 \in Nat
        BY <1>1, <2>2, <3>3 DEF Advanced, Contents, Streams
      <4> QED
        BY <1>1, <4>1 DEF Contents, Streams
    <3>4. CASE form \in {"end", "abort"}
      <4>1. uplink' = NoStream
        BY <2>2, <3>4 DEF Advanced
      <4> QED
        BY <4>1 DEF NoStream, Streams
    <3> QED
      BY <3>1, <3>2, <3>3, <3>4 DEF Kinds
  <2>5. Contents'
    BY <1>1, <2>2, <2>3, <2>4 DEF Contents
  <2>6. net.open /\ ~Recycling => Follows'
    BY <1>1, <2>2, FollowsAppend DEF WireInv
  <2>7. ~(~net.open /\ Clean)
    BY <2>2 DEF WireInv, NothingLeft
  <2> QED
    BY <1>1, <1>2, <2>5, <2>6, <2>7 DEF WireInv, WireIsWellFormed
<1> QED
  BY <1>3, <1>4 DEF CallEnters, PublicCall, CallFails, queues

LEMMA LifecycleWire ==
  /\ TransportInv /\ RestInv /\ WireInv
  /\ StartOpens \/ StartFails \/ Lifecycle \/ \E by \in {"owner", "callback"} : StopBegins(by)
  => WireInv'
<1> SUFFICES ASSUME TransportInv, RestInv, WireInv,
                    StartOpens \/ StartFails \/ Lifecycle
                      \/ \E by \in {"owner", "callback"} : StopBegins(by)
             PROVE  WireInv'
  OBVIOUS
<1>1. UNCHANGED <<tx, uplink, frag, rx, net, wire>> /\ Contents
  BY DEF StartOpens, StartFails, Lifecycle, StopBegins, StartCreates, StartCounts, StartActivates,
         StopCloses,
         StopSignals, StopJoins, StopWaitsForCalls, StopWaitsForCallbacks, StopDeletes, Beside, queues,
         arriving, WireInv
<1>2. "authenticated" \in flag' => "authenticated" \in flag
  BY DEF StartOpens, StartFails, Lifecycle, StopBegins, StartCreates, StartCounts, StartActivates,
         StopCloses,
         StopSignals, StopJoins, StopWaitsForCalls, StopWaitsForCallbacks, StopDeletes, Beside
<1>3. CASE StartCreates \/ StopJoins \/ StopDeletes
  <2>1. ~Running
    BY <1>3 DEF StartCreates, StopJoins, StopDeletes, At, TransportInv, WorkerIsJoined, Running
  <2>2. ~ws.client /\ ~net.open
    BY <2>1, WorkerShape DEF TransportInv, WorkerInv, NoClientLeft
  <2>3. NothingLeft'
    BY <1>1, <1>2, <2>1, <2>2 DEF RestInv, ClientInv, GoneInv, NothingLeft
  <2> QED
    BY <1>1, <2>2, <2>3 DEF WireInv, Contents, WireIsWellFormed
<1>4. CASE ~(StartCreates \/ StopJoins \/ StopDeletes)
  <2>1. UNCHANGED <<ws, bits>> /\ ("stopping" \in flag => "stopping" \in flag')
    BY <1>4 DEF StartOpens, StartFails, Lifecycle, StopBegins, StartCounts, StartActivates, StopCloses,
                StopSignals, StopWaitsForCalls, StopWaitsForCallbacks, Beside
  <2>2. (Clean' => Clean) /\ (Recycling' <=> Recycling)
    BY <2>1 DEF Clean, Recycling
  <2> QED
    BY <1>1, <1>2, <2>2, WireFrame DEF Contents
<1> QED
  BY <1>3, <1>4

\* A connection finds nothing of the last one.
LEMMA ConnectedWire == TransportInv /\ RestInv /\ WireInv /\ Connected => WireInv'
<1> SUFFICES ASSUME TransportInv, RestInv, WireInv, Connected
             PROVE  WireInv'
  OBVIOUS
<1>1. /\ ~net.open /\ UNCHANGED <<tx, uplink, frag, rx, ws, wire>> /\ Contents
      /\ net' = [open |-> TRUE, hello |-> FALSE, acked |-> FALSE, part |-> FALSE]
  BY DEF Connected, Around, queues, arriving, NoNet, WireInv
<1>2. Clean
  BY DEF Connected, Clean, Is, Recycling, RestInv, CloseInv
<1>3. NothingLeft /\ wire = NothingSeen
  BY <1>1, <1>2 DEF WireInv
<1>4. Follows'
  <2>1. Follows
    BY <1>3, NothingFollows DEF NothingLeft
  <2> QED
    BY <1>1, <2>1 DEF Follows, AsStream
<1>5. Contents' /\ WireIsWellFormed'
  BY <1>1, <1>3 DEF Contents, WireIsWellFormed, NothingLeft, WireInv
<1> QED
  BY <1>1, <1>4, <1>5 DEF WireInv

LEMMA BridgeSendsWire ==
  WireInv /\ (\E t \in {"ack", "data"}, fin \in BOOLEAN : BridgeSends(t, fin)) => WireInv'
<1> SUFFICES ASSUME WireInv, NEW t \in {"ack", "data"}, NEW fin \in BOOLEAN, BridgeSends(t, fin)
             PROVE  WireInv'
  OBVIOUS
<1>1. /\ net.open /\ UNCHANGED <<tx, uplink, ws, wire>> /\ Contents
      /\ net' = [net EXCEPT !.acked = TRUE, !.part = ~fin]
      /\ frag = net.part /\ net.part \in BOOLEAN
  BY DEF BridgeSends, Around, queues, WireInv, WireIsWellFormed, Contents
<1>2. frag' = ~fin
  BY <1>1 DEF BridgeSends, AppendFragment, Rejected
<1>3. rx' \in Seq({"ack", "data"})
  BY <1>1 DEF BridgeSends, Contents
<1>4. net' \in [open : BOOLEAN, hello : BOOLEAN, acked : BOOLEAN, part : BOOLEAN]
      /\ net'.open = net.open /\ net'.part = ~fin
  BY <1>1 DEF Contents
<1>5. Contents' /\ WireIsWellFormed'
  BY <1>1, <1>2, <1>3, <1>4 DEF Contents, WireIsWellFormed, WireInv
<1>6. ~Recycling' => Follows'
  BY <1>1 DEF WireInv, Follows, AsStream, Recycling
<1> QED
  BY <1>1, <1>4, <1>5, <1>6 DEF WireInv

LEMMA EventWire ==
  /\ TransportInv /\ WireInv
  /\ HelloTimesOut \/ GotIp \/ \E station \in BOOLEAN : Lose(station)
  => WireInv'
<1> SUFFICES ASSUME TransportInv, WireInv, HelloTimesOut \/ GotIp \/ \E station \in BOOLEAN : Lose(station)
             PROVE  WireInv'
  OBVIOUS
<1>1. UNCHANGED <<tx, uplink, frag, rx, ws>> /\ Contents
  BY DEF HelloTimesOut, GotIp, Lose, Around, queues, arriving, WireInv
<1>2. CASE HelloTimesOut \/ GotIp
  <2>1. /\ UNCHANGED <<net, wire>> /\ bits \subseteq bits'
        /\ "stopping" \in flag => "stopping" \in flag'
        /\ "authenticated" \in flag' => "authenticated" \in flag
    BY <1>2 DEF HelloTimesOut, GotIp, MarkConnectionUnusable, Unusable
  <2>2. (Clean' => Clean) /\ (Recycling' <=> Recycling)
    BY <1>1, <2>1 DEF Clean, Recycling
  <2> QED
    BY <1>1, <2>1, <2>2, WireFrame DEF Contents
<1>3. CASE \E station \in BOOLEAN : Lose(station)
  <2>1. net' = [open |-> FALSE, hello |-> FALSE, acked |-> FALSE, part |-> FALSE] /\ wire' = NothingSeen
    BY <1>3 DEF Lose, Cut, NoNet
  <2>2. ~Clean'
    BY <1>3 DEF Lose, Unusable, Clean, Is
  <2>3. Contents' /\ wire'.sound
    BY <1>1, <2>1 DEF Contents, NothingSeen
  <2> QED
    BY <2>1, <2>2, <2>3 DEF WireInv, WireIsWellFormed
<1> QED
  BY <1>2, <1>3

LEMMA NextWire == TransportInv /\ RestInv /\ WireInv /\ [Next]_vars => WireInv'
<1>1. ASSUME WireInv, CallbackWorker \/ UNCHANGED vars
      PROVE  WireInv'
  <2>1. UNCHANGED <<flag, bits, tx, uplink, frag, rx, ws, net, wire>> /\ Contents
    BY <1>1 DEF CallbackWorker, CallbackTakes, CallbackChecks, CallbackRuns, CallbackReturns, Elsewhere, vars,
                queues,
                arriving, WireInv
  <2>2. (Clean' <=> Clean) /\ (Recycling' <=> Recycling)
    BY <2>1 DEF Clean, Recycling
  <2> QED
    BY <1>1, <2>1, <2>2, WireFrame DEF Contents
<1> QED
  BY <1>1, WorkerWire, CallsWire, LifecycleWire, ConnectedWire, BridgeSendsWire, EventWire DEF Next

\* The Bridge never sees half of one stream and half of another, whatever is
\* lost, queued and drained: what is queued continues what was sent, and a
\* connection begins with nothing queued, admitted or half received.
THEOREM TheWireIsWellFormed == Spec => []WireIsWellFormed
<1>1. Init => RestInv /\ WireInv
  BY InitRest, InitWire
<1>2. TransportInv /\ RestInv /\ WireInv /\ [Next]_vars => RestInv' /\ WireInv'
  BY NextRest, NextWire
<1>3. WireInv => WireIsWellFormed
  BY DEF WireInv
<1> QED
  BY <1>1, <1>2, <1>3, TransportIsOrderly, PTL DEF Spec

----------------------------------------------------------------------------
(* BLE.                                                                    *)


Piece  == [id : Nat, n : Nat]
Chunks == [1..Pieces -> Piece]

\* What the host task's handler does, step by step.
HostSteps == {"down", "unopen", "truncate", "end", "tell", "advertise"}

\* The records keep their fields,
BleShape ==
  /\ st = [active |-> st.active, endReq |-> st.endReq, truncated |-> st.truncated,
           complete |-> st.complete, id |-> st.id, sent |-> st.sent, q |-> st.q]
  /\ caller = [pc |-> caller.pc, tries |-> caller.tries, complete |-> caller.complete,
               last |-> caller.last]
  /\ worker = [pc |-> worker.pc, end |-> worker.end, chunk |-> worker.chunk]
  /\ spent = [streams |-> spent.streams, links |-> spent.links, chans |-> spent.chans,
              faults |-> spent.faults]

\* and what is counted and queued has its type.
Types ==
  /\ kind \in StreamKinds
  /\ st.id \in Nat /\ st.sent \in Nat /\ st.q \in Seq(Chunks)
  /\ worker.chunk \in Seq(Piece)
  /\ accepted \in Nat /\ carried \in Seq(Piece)
  /\ spent.streams \in Nat
  /\ host \in Seq(HostSteps)
  /\ report = [status |-> report.status, valid |-> report.valid, made |-> report.made,
               crossed |-> report.crossed]

IsRunning == worker.pc # "none"

\* A stream is active as long as its worker is there.
ActiveIsRunning == st.active <=> IsRunning

\* What the worker holds.
ChunkInHand ==
  /\ worker.pc \in {"none", "look", "pop", "close", "stop"} => worker.chunk = <<>>
  /\ worker.pc \in {"slice", "submit", "failed"} => worker.chunk # <<>>

\* No worker runs while a stream is started, and it starts with nothing.
StartIsClean ==
  /\ caller.pc \in {"reset", "clear", "announce", "create"} => ~IsRunning
  /\ caller.pc \in {"clear", "announce", "create"} => st.q = <<>> /\ st.sent = 0
  /\ caller.pc \in {"announce", "create"} => carried = <<>> /\ accepted = 0

\* The host task truncates a recording or an image before it ends it, and a
\* stream that was cleared in between is crossed.
HostTruncatesFirst ==
  Framed => \A i \in DOMAIN host : host[i] = "end" =>
              IF i = 1 THEN st.truncated \/ report.crossed ELSE host[i - 1] = "truncate"

\* A stream that is to end, and was neither cut nor crossed, was ended by the
\* application, which adds nothing to it any more.
EndIsAsked ==
  /\ caller.pc = "end" => ~core
  /\ Framed /\ st.endReq /\ ~st.truncated /\ ~report.crossed =>
       /\ caller.pc \in {"idle", "reset"} /\ ~core
       /\ said = IF st.complete THEN "complete" ELSE "partial"

\* The worker closes a stream that was cut or crossed, or that is to end and is
\* empty.
EndIsSeen ==
  /\ worker.end => IsRunning /\ st.endReq
  /\ worker.pc = "close" =>
       Framed /\ (st.truncated \/ report.crossed \/ (st.endReq /\ st.q = <<>>))

\* Every piece is counted.
PiecesAreCounted ==
  Framed /\ IsRunning =>
    /\ st.sent = Len(carried)
    /\ ~st.truncated => Len(carried) + Len(worker.chunk) + Pieces * Len(st.q) = accepted

\* A report is the last that a worker does, and one of a complete stream finds
\* nobody who would add to it.
ReportIsLast ==
  report.made =>
    /\ Framed
    /\ worker.pc \in {"stop", "none"} /\ caller.pc \notin {"announce", "create"}
    /\ report.status = 0 /\ ~report.crossed => ~core /\ caller.pc \in {"idle", "reset", "clear"}

StreamInv ==
  /\ BleShape /\ Types
  /\ ActiveIsRunning /\ ChunkInHand /\ StartIsClean
  /\ HostTruncatesFirst /\ EndIsAsked /\ EndIsSeen
  /\ PiecesAreCounted /\ ReportIsLast /\ UncrossedEndIsHonest

----------------------------------------------------------------------------
LEMMA ChunksAreSequences == Chunks \subseteq Seq(Piece)
  BY BleAssumption DEF Chunks

\* A chunk is cut into Pieces pieces, which is not none.
LEMMA ChunkLength ==
  ASSUME NEW c \in Chunks
  PROVE  c \in Seq(Piece) /\ Len(c) = Pieces /\ c # <<>>
  BY BleAssumption DEF Chunks

LEMMA Times ==
  ASSUME NEW a \in Nat, NEW b \in Nat
  PROVE  a * (b + 1) = a * b + a /\ a * b \in Nat
  OBVIOUS

LEMMA MoveOne ==
  ASSUME NEW a \in Nat, NEW b \in Nat, NEW c \in Nat
  PROVE  a + (b + 1) + c = (a + 1) + b + c
  OBVIOUS

LEMMA PiecesInNat == Pieces \in Nat /\ Pieces # 0
  BY BleAssumption

\* Nothing has been started: where the device begins, and begins again.
LEMMA NothingStarted ==
  ASSUME kind \in StreamKinds, host = <<>>, st = IdleStream, ~core, caller = IdleCaller, worker = NoWorker,
         accepted = 0, carried = <<>>, said = "none", report = NoReport,
         spent = [streams |-> spent.streams, links |-> spent.links, chans |-> spent.chans,
                  faults |-> spent.faults],
         spent.streams \in Nat
  PROVE  StreamInv
<1>1. BleShape /\ Types
  BY DEF BleShape, Types, IdleStream, IdleCaller, NoWorker, NoReport
<1>2. ActiveIsRunning /\ ChunkInHand /\ StartIsClean /\ PiecesAreCounted
  BY DEF ActiveIsRunning, IsRunning, ChunkInHand, StartIsClean, PiecesAreCounted, IdleStream, IdleCaller,
         NoWorker
<1>3. HostTruncatesFirst /\ EndIsAsked /\ EndIsSeen
  BY DEF HostTruncatesFirst, EndIsAsked, EndIsSeen, IdleStream, IdleCaller, NoWorker
<1>4. ReportIsLast /\ UncrossedEndIsHonest
  BY DEF ReportIsLast, UncrossedEndIsHonest, StatusIsTrue, NoReport
<1> QED
  BY <1>1, <1>2, <1>3, <1>4 DEF StreamInv

LEMMA InitStream == BleInit => StreamInv
  BY NothingStarted DEF BleInit

----------------------------------------------------------------------------
(* The host task.                                                          *)

\* What happens to the link does not touch a stream.
LEMMA LinkInv ==
  ASSUME StreamInv, UNCHANGED <<kind, core, caller, streamVars, history>>,
         spent' = [streams |-> spent.streams, links |-> spent'.links, chans |-> spent'.chans,
                   faults |-> spent'.faults],
         host' \in Seq(HostSteps), HostTruncatesFirst'
  PROVE  StreamInv'
<1>1. BleShape' /\ Types'
  BY DEF StreamInv, BleShape, Types, streamVars, history
<1>2. ActiveIsRunning' /\ ChunkInHand' /\ StartIsClean' /\ PiecesAreCounted'
  BY DEF StreamInv, ActiveIsRunning, IsRunning, ChunkInHand, StartIsClean, PiecesAreCounted, Framed,
         streamVars, history
<1>3. EndIsAsked' /\ EndIsSeen' /\ ReportIsLast' /\ UncrossedEndIsHonest'
  BY DEF StreamInv, EndIsAsked, EndIsSeen, ReportIsLast, UncrossedEndIsHonest, StatusIsTrue, IsRunning, Framed, streamVars,
         history
<1> QED
  BY <1>1, <1>2, <1>3 DEF StreamInv

LEMMA LinkOpensInv == StreamInv /\ (Connect \/ OpenChannel \/ Unstall) => StreamInv'
<1> SUFFICES ASSUME StreamInv, Connect \/ OpenChannel \/ Unstall
             PROVE  StreamInv'
  OBVIOUS
<1>1. /\ UNCHANGED <<kind, host, core, caller, streamVars, history>>
      /\ spent' = [streams |-> spent.streams, links |-> spent'.links, chans |-> spent'.chans,
                   faults |-> spent'.faults]
  BY DEF Connect, OpenChannel, Unstall, StreamInv, BleShape
<1>2. HostTruncatesFirst' /\ host' \in Seq(HostSteps)
  BY <1>1 DEF StreamInv, HostTruncatesFirst, Framed, Types, streamVars, history
<1> QED
  BY <1>1, <1>2, LinkInv

\* What the handlers do when a channel or the link is closed.
LEMMA ClosingLists ==
  ASSUME StreamInv
  PROVE  \A h \in {ChannelClosed, LinkClosed} :
           /\ h \in Seq(HostSteps)
           /\ Framed => \A i \in DOMAIN h : h[i] = "end" => i # 1 /\ h[i - 1] = "truncate"
<1>1. /\ ChannelClosed \in Seq(HostSteps)
      /\ \A i \in DOMAIN ChannelClosed :
           ChannelClosed[i] = "end" => i # 1 /\ ChannelClosed[i - 1] = "truncate"
  BY DEF ChannelClosed, HostSteps
<1>2. kind \in {"recording", "image", "voice"}
  BY BleAssumption DEF StreamInv, Types
<1>3. LinkClosed \in Seq(HostSteps)
  <2>1. <<"down", "unopen", "truncate", "end", "tell", "advertise">> \in Seq(HostSteps)
    BY DEF HostSteps
  <2>2. <<"down", "end", "tell", "advertise">> \in Seq(HostSteps)
    BY DEF HostSteps
  <2>3. <<"down", "tell", "advertise">> \in Seq(HostSteps)
    BY DEF HostSteps
  <2> QED
    BY <1>2, <2>1, <2>2, <2>3 DEF LinkClosed
<1>4. ASSUME Framed, NEW i \in DOMAIN LinkClosed, LinkClosed[i] = "end"
      PROVE  i # 1 /\ LinkClosed[i - 1] = "truncate"
  <2>1. CASE kind = "recording"
    <3>1. LinkClosed = <<"down", "unopen", "truncate", "end", "tell", "advertise">>
      BY <2>1 DEF LinkClosed
    <3> QED
      BY <1>4, <3>1
  <2>2. CASE kind = "image"
    <3>1. LinkClosed = <<"down", "tell", "advertise">>
      BY <2>2 DEF LinkClosed
    <3> QED
      BY <1>4, <3>1
  <2> QED
    BY <1>2, <1>4, <2>1, <2>2 DEF Framed
<1> QED
  BY <1>1, <1>3, <1>4

LEMMA ClosedAndLost ==
  ASSUME StreamInv
  PROVE  LET h == ChannelClosed \o LinkClosed
         IN /\ h \in Seq(HostSteps)
            /\ Framed => \A i \in DOMAIN h : h[i] = "end" => i # 1 /\ h[i - 1] = "truncate"
<1> DEFINE a == ChannelClosed
           b == LinkClosed
           h == a \o b
<1>1. /\ a \in Seq(HostSteps) /\ b \in Seq(HostSteps) /\ Len(a) = 3 /\ Len(b) \in Nat
      /\ Framed => \A i \in DOMAIN a : a[i] = "end" => i # 1 /\ a[i - 1] = "truncate"
      /\ Framed => \A i \in DOMAIN b : b[i] = "end" => i # 1 /\ b[i - 1] = "truncate"
  <2>1. Len(a) = 3
    BY DEF ChannelClosed
  <2> QED
    BY <2>1, ClosingLists
<1> HIDE DEF a, b
<1>2. /\ h \in Seq(HostSteps) /\ DOMAIN h = 1..(Len(a) + Len(b))
      /\ \A i \in 1..(Len(a) + Len(b)) : h[i] = IF i <= Len(a) THEN a[i] ELSE b[i - Len(a)]
  <2>1. /\ a \o b \in Seq(HostSteps) /\ Len(a \o b) = Len(a) + Len(b)
        /\ \A i \in 1..(Len(a) + Len(b)) : (a \o b)[i] = IF i <= Len(a) THEN a[i] ELSE b[i - Len(a)]
    BY <1>1, ConcatProperties, Zenon
  <2>2. DOMAIN (a \o b) = 1..Len(a \o b)
    BY <2>1
  <2> QED
    BY <2>1, <2>2
<1>3. ASSUME Framed, NEW i \in DOMAIN h, h[i] = "end"
      PROVE  i # 1 /\ h[i - 1] = "truncate"
  <2>1. CASE i <= Len(a)
    BY <1>1, <1>2, <1>3, <2>1
  <2>2. CASE i > Len(a)
    <3>1. i - Len(a) \in DOMAIN b /\ b[i - Len(a)] = "end"
      BY <1>1, <1>2, <1>3, <2>2
    <3>2. i - Len(a) # 1 /\ b[(i - Len(a)) - 1] = "truncate"
      BY <1>1, <1>3, <3>1
    <3> QED
      BY <1>1, <1>2, <1>3, <2>2, <3>1, <3>2
  <2> QED
    BY <1>1, <1>2, <2>1, <2>2
<1> QED
  BY <1>2, <1>3 DEF a, b

LEMMA LinkClosesInv == StreamInv /\ (CloseChannel \/ LoseLink) => StreamInv'
<1> SUFFICES ASSUME StreamInv, CloseChannel \/ LoseLink
             PROVE  StreamInv'
  OBVIOUS
<1>1. UNCHANGED <<kind, core, caller, streamVars, history, spent>>
  BY DEF CloseChannel, LoseLink
<1>2. host' \in {ChannelClosed, LinkClosed, ChannelClosed \o LinkClosed}
  <2>1. <<>> \o LinkClosed = LinkClosed
    BY DEF LinkClosed
  <2> QED
    BY <2>1 DEF CloseChannel, LoseLink
<1>3. /\ host' \in Seq(HostSteps)
      /\ Framed => \A i \in DOMAIN host' : host'[i] = "end" => i # 1 /\ host'[i - 1] = "truncate"
  BY <1>2, ClosingLists, ClosedAndLost
<1>4. HostTruncatesFirst'
  BY <1>1, <1>3 DEF HostTruncatesFirst, Framed
<1>5. spent' = [streams |-> spent.streams, links |-> spent'.links, chans |-> spent'.chans,
                faults |-> spent'.faults]
  BY <1>1 DEF StreamInv, BleShape
<1> QED
  BY <1>1, <1>3, <1>4, <1>5, LinkInv

\* The next step of the host's handler, of a list that still truncates first.
LEMMA HostTail ==
  ASSUME StreamInv, NEW step, Does(step)
  PROVE  /\ host' \in Seq(HostSteps)
         /\ Framed => \A i \in DOMAIN host' : host'[i] = "end" =>
              IF i = 1 THEN step = "truncate" ELSE host'[i - 1] = "truncate"
         /\ Framed /\ step = "end" => st.truncated \/ report.crossed
<1>1. host \in Seq(HostSteps) /\ host # <<>> /\ Head(host) = step /\ host' = Tail(host)
  BY DEF Does, StreamInv, Types
<1>2. /\ host' \in Seq(HostSteps)
      /\ host[1] = step
      /\ \A i \in DOMAIN host' : i \in Nat \ {0} /\ i + 1 \in DOMAIN host /\ host'[i] = host[i + 1]
      /\ \A i \in DOMAIN host' : i # 1 => host'[i - 1] = host[i]
      /\ 1 \in DOMAIN host
  BY <1>1
<1>3. Framed => \A i \in DOMAIN host : host[i] = "end" =>
              IF i = 1 THEN st.truncated \/ report.crossed ELSE host[i - 1] = "truncate"
  BY DEF StreamInv, HostTruncatesFirst
<1>4. ASSUME Framed, NEW i \in DOMAIN host', host'[i] = "end"
      PROVE  IF i = 1 THEN step = "truncate" ELSE host'[i - 1] = "truncate"
  <2>1. i + 1 \in DOMAIN host /\ host[i + 1] = "end" /\ i + 1 # 1 /\ (i + 1) - 1 = i
    BY <1>2, <1>4
  <2>2. host[i] = "truncate"
    BY <1>3, <1>4, <2>1
  <2> QED
    BY <1>2, <1>4, <2>2
<1> QED
  BY <1>2, <1>3, <1>4

LEMMA StoreLinkInv == StreamInv /\ (StoreLink \/ Advertise) => StreamInv'
<1> SUFFICES ASSUME StreamInv, StoreLink \/ Advertise
             PROVE  StreamInv'
  OBVIOUS
<1>1. /\ UNCHANGED <<kind, core, caller, streamVars, history, spent>>
      /\ \E step \in {"down", "unopen", "advertise"} : Does(step)
  BY DEF StoreLink, Advertise
<1>2. /\ host' \in Seq(HostSteps)
      /\ Framed => \A i \in DOMAIN host' : host'[i] = "end" => i # 1 /\ host'[i - 1] = "truncate"
  BY <1>1, HostTail
<1>3. HostTruncatesFirst'
  BY <1>1, <1>2 DEF HostTruncatesFirst, Framed
<1>4. spent' = [streams |-> spent.streams, links |-> spent'.links, chans |-> spent'.chans,
                faults |-> spent'.faults]
  BY <1>1 DEF StreamInv, BleShape
<1> QED
  BY <1>1, <1>2, <1>3, <1>4, LinkInv

\* The host task marks a stream as cut, or ends one that is.
LEMMA StoreFlagsInv == StreamInv /\ StoreFlags => StreamInv'
<1> SUFFICES ASSUME StreamInv, StoreFlags
             PROVE  StreamInv'
  OBVIOUS
<1>1. UNCHANGED <<kind, core, caller, worker, history, spent>>
  BY DEF StoreFlags
<1>2. PICK step \in {"truncate", "end"} :
        /\ Does(step)
        /\ st' = [active |-> st.active, endReq |-> IF step = "end" THEN TRUE ELSE st.endReq,
                  truncated |-> IF step = "truncate" THEN TRUE ELSE st.truncated,
                  complete |-> st.complete, id |-> st.id, sent |-> st.sent, q |-> st.q]
  <2>1. CASE Does("truncate") /\ st' = [st EXCEPT !.truncated = TRUE]
    BY <2>1 DEF StreamInv, BleShape
  <2>2. CASE Does("end") /\ st' = [st EXCEPT !.endReq = TRUE]
    BY <2>2 DEF StreamInv, BleShape
  <2> QED
    BY <2>1, <2>2 DEF StoreFlags
<1>3. /\ host' \in Seq(HostSteps)
      /\ Framed => \A i \in DOMAIN host' : host'[i] = "end" =>
           IF i = 1 THEN step = "truncate" ELSE host'[i - 1] = "truncate"
      /\ Framed /\ step = "end" => st.truncated \/ report.crossed
  BY <1>2, HostTail
<1>4. BleShape' /\ Types'
  BY <1>1, <1>2, <1>3 DEF StreamInv, BleShape, Types, history
<1>5. ActiveIsRunning' /\ ChunkInHand' /\ StartIsClean' /\ PiecesAreCounted'
  BY <1>1, <1>2, <1>3 DEF StreamInv, ActiveIsRunning, IsRunning, ChunkInHand, StartIsClean,
                          PiecesAreCounted, Framed, history
<1>6. HostTruncatesFirst' /\ EndIsAsked' /\ EndIsSeen'
  BY <1>1, <1>2, <1>3 DEF StreamInv, HostTruncatesFirst, EndIsAsked, EndIsSeen, IsRunning, Framed, history
<1>7. ReportIsLast' /\ UncrossedEndIsHonest'
  BY <1>1, <1>2 DEF StreamInv, ReportIsLast, UncrossedEndIsHonest, StatusIsTrue, Framed, history
<1> QED
  BY <1>4, <1>5, <1>6, <1>7 DEF StreamInv

LEMMA TellCoreInv == StreamInv /\ TellCore => StreamInv'
<1> SUFFICES ASSUME StreamInv, TellCore
             PROVE  StreamInv'
  OBVIOUS
<1>1. /\ UNCHANGED <<kind, caller, streamVars, history, spent>>
      /\ Does("tell") /\ (core' => core)
  BY DEF TellCore
<1>2. /\ host' \in Seq(HostSteps)
      /\ Framed => \A i \in DOMAIN host' : host'[i] = "end" => i # 1 /\ host'[i - 1] = "truncate"
  BY <1>1, HostTail
<1>3. BleShape' /\ Types'
  BY <1>1, <1>2 DEF StreamInv, BleShape, Types, streamVars, history
<1>4. ActiveIsRunning' /\ ChunkInHand' /\ StartIsClean' /\ PiecesAreCounted'
  BY <1>1, <1>2 DEF StreamInv, ActiveIsRunning, IsRunning, ChunkInHand, StartIsClean, PiecesAreCounted,
                    Framed, streamVars, history
<1>5. HostTruncatesFirst' /\ EndIsAsked' /\ EndIsSeen'
  BY <1>1, <1>2 DEF StreamInv, HostTruncatesFirst, EndIsAsked, EndIsSeen, IsRunning, Framed, streamVars,
                    history
<1>6. ReportIsLast' /\ UncrossedEndIsHonest'
  BY <1>1 DEF StreamInv, ReportIsLast, UncrossedEndIsHonest, StatusIsTrue, Framed, streamVars, history
<1> QED
  BY <1>3, <1>4, <1>5, <1>6 DEF StreamInv

LEMMA HostEventInv == StreamInv /\ HostEvent => StreamInv'
  BY LinkOpensInv, LinkClosesInv, StoreLinkInv, StoreFlagsInv, TellCoreInv DEF HostEvent, HostStep

----------------------------------------------------------------------------
(* The application.                                                        *)

\* A step of the application that does not touch the stream.
LEMMA CallerInv ==
  ASSUME StreamInv, UNCHANGED <<kind, host, streamVars, history>>,
         caller' = [pc |-> caller'.pc, tries |-> caller'.tries, complete |-> caller'.complete,
                    last |-> caller'.last],
         spent' = [streams |-> spent'.streams, links |-> spent.links, chans |-> spent.chans,
                   faults |-> spent'.faults],
         spent'.streams \in Nat,
         StartIsClean', EndIsAsked', ReportIsLast'
  PROVE  StreamInv'
<1>1. BleShape' /\ Types'
  BY DEF StreamInv, BleShape, Types, streamVars, history
<1>2. ActiveIsRunning' /\ ChunkInHand' /\ HostTruncatesFirst' /\ EndIsSeen' /\ PiecesAreCounted'
  BY DEF StreamInv, ActiveIsRunning, IsRunning, ChunkInHand, HostTruncatesFirst, EndIsSeen,
         PiecesAreCounted, Framed, streamVars, history
<1>3. UncrossedEndIsHonest'
  BY DEF StreamInv, UncrossedEndIsHonest, StatusIsTrue, streamVars, history
<1> QED
  BY <1>1, <1>2, <1>3 DEF StreamInv

LEMMA StartStreamInv == StreamInv /\ StartStream => StreamInv'
<1> SUFFICES ASSUME StreamInv, StartStream
             PROVE  StreamInv'
  OBVIOUS
<1>1. /\ UNCHANGED <<kind, host, core, streamVars, history>>
      /\ caller.pc = "idle" /\ ~st.active
      /\ caller' = [pc |-> "reset", tries |-> caller.tries, complete |-> caller.complete,
                    last |-> caller.last]
      /\ spent' = [streams |-> spent.streams + 1, links |-> spent.links, chans |-> spent.chans,
                   faults |-> spent.faults]
  BY DEF StartStream, CallerAt, CallerGoes, StreamInv, BleShape
<1>2. spent'.streams \in Nat
  BY <1>1 DEF StreamInv, Types
<1>3. StartIsClean' /\ EndIsAsked' /\ ReportIsLast'
  BY <1>1 DEF StreamInv, ActiveIsRunning, IsRunning, StartIsClean, EndIsAsked, ReportIsLast, Framed,
              streamVars, history
<1> QED
  BY <1>1, <1>2, <1>3, CallerInv

LEMMA AnnounceInv == StreamInv /\ (Announce \/ AnnounceFails \/ CreateFails) => StreamInv'
<1> SUFFICES ASSUME StreamInv, Announce \/ AnnounceFails \/ CreateFails
             PROVE  StreamInv'
  OBVIOUS
<1>1. /\ UNCHANGED <<kind, host, core, streamVars, history>>
      /\ caller.pc \in {"announce", "create"}
      /\ caller' = [pc |-> caller'.pc, tries |-> caller'.tries, complete |-> caller'.complete,
                    last |-> caller'.last]
      /\ caller'.pc \in {"announce", "create", "idle"}
  <2>1. CASE Announce
    BY <2>1 DEF Announce, CallerAt, StreamInv, BleShape
  <2>2. CASE AnnounceFails
    BY <2>2 DEF AnnounceFails, CallerAt, IdleCaller, StreamInv, BleShape
  <2>3. CASE CreateFails
    BY <2>3 DEF CreateFails, CallerAt, IdleCaller
  <2> QED
    BY <2>1, <2>2, <2>3
<1>2. spent' = [streams |-> spent.streams, links |-> spent.links, chans |-> spent.chans,
                faults |-> spent'.faults]
  BY DEF Announce, AnnounceFails, CreateFails, NotifyFails, Fault, StreamInv, BleShape
<1>3. spent'.streams \in Nat
  BY <1>2 DEF StreamInv, Types
<1>4. StartIsClean' /\ EndIsAsked' /\ ReportIsLast'
  BY <1>1 DEF StreamInv, IsRunning, StartIsClean, EndIsAsked, ReportIsLast, Framed, streamVars, history
<1> QED
  BY <1>1, <1>2, <1>3, <1>4, CallerInv

\* The core opens a stream which nobody has ended.
LEMMA CoreInv ==
  StreamInv /\ (JoinVoice \/ CoreOpens \/ StopTransport \/ CheckPush \/ RefusePush) => StreamInv'
<1> SUFFICES ASSUME StreamInv, JoinVoice \/ CoreOpens \/ StopTransport \/ CheckPush \/ RefusePush
             PROVE  StreamInv'
  OBVIOUS
<1>1. /\ UNCHANGED <<kind, host, streamVars, history, spent>>
      /\ caller' = [pc |-> caller'.pc, tries |-> caller'.tries, complete |-> caller'.complete,
                    last |-> caller'.last]
      /\ \/ caller'.pc = "idle" /\ ~Framed
         \/ caller'.pc = "idle" /\ caller.pc = "opened"
         \/ caller'.pc = "idle" /\ ~core'
         \/ caller'.pc \in {"idle", "push"} /\ core
  BY DEF JoinVoice, CoreOpens, StopTransport, CheckPush, RefusePush, MayPush, Pushed, CallerAt, CallerGoes,
         IdleCaller, Framed, StreamInv, BleShape
<1>2. /\ spent' = [streams |-> spent.streams, links |-> spent.links, chans |-> spent.chans,
                   faults |-> spent'.faults]
      /\ spent'.streams \in Nat
  BY <1>1 DEF StreamInv, BleShape, Types
<1>3. StartIsClean'
  BY <1>1 DEF StartIsClean
<1>4. EndIsAsked' /\ ReportIsLast'
  BY <1>1 DEF StreamInv, EndIsAsked, ReportIsLast, Framed, streamVars, history
<1> QED
  BY <1>1, <1>2, <1>3, <1>4, CallerInv

LEMMA EndStreamInv == StreamInv /\ (\E complete \in BOOLEAN : EndStream(complete)) => StreamInv'
<1> SUFFICES ASSUME StreamInv, NEW complete \in BOOLEAN, EndStream(complete)
             PROVE  StreamInv'
  OBVIOUS
<1>1. /\ UNCHANGED <<kind, host, streamVars, history, spent>>
      /\ caller' = [pc |-> caller'.pc, tries |-> caller'.tries, complete |-> caller'.complete,
                    last |-> caller'.last]
      /\ caller'.pc \in {"idle", "end"} /\ core /\ ~core'
  BY DEF EndStream, EndCall, IdleCaller
<1>2. /\ spent' = [streams |-> spent.streams, links |-> spent.links, chans |-> spent.chans,
                   faults |-> spent'.faults]
      /\ spent'.streams \in Nat
  BY <1>1 DEF StreamInv, BleShape, Types
<1>3. StartIsClean' /\ EndIsAsked' /\ ReportIsLast'
  BY <1>1 DEF StreamInv, StartIsClean, EndIsAsked, ReportIsLast, Framed, streamVars, history
<1> QED
  BY <1>1, <1>2, <1>3, CallerInv

LEMMA ResetStreamInv == StreamInv /\ ResetStream => StreamInv'
<1> SUFFICES ASSUME StreamInv, ResetStream
             PROVE  StreamInv'
  OBVIOUS
<1>1. /\ UNCHANGED <<kind, core, worker, history, spent, host>>
      /\ caller.pc = "reset"
      /\ caller' = [pc |-> "clear", tries |-> caller.tries, complete |-> caller.complete,
                    last |-> caller.last]
      /\ st' = [active |-> st.active, endReq |-> FALSE, truncated |-> st.truncated,
                complete |-> st.complete, id |-> st.id, sent |-> 0, q |-> <<>>]
  BY DEF ResetStream, CallerAt, CallerGoes, Reset, StreamInv, BleShape
<1>2. BleShape' /\ Types'
  BY <1>1 DEF StreamInv, BleShape, Types, history
<1>3. ActiveIsRunning' /\ ChunkInHand' /\ StartIsClean' /\ PiecesAreCounted'
  BY <1>1 DEF StreamInv, ActiveIsRunning, IsRunning, ChunkInHand, StartIsClean, PiecesAreCounted
<1>4. HostTruncatesFirst' /\ EndIsAsked' /\ EndIsSeen'
  BY <1>1 DEF StreamInv, HostTruncatesFirst, EndIsAsked, EndIsSeen, IsRunning, StartIsClean, Framed, history
<1>5. ReportIsLast' /\ UncrossedEndIsHonest'
  BY <1>1 DEF StreamInv, ReportIsLast, UncrossedEndIsHonest, StatusIsTrue, Framed, history
<1> QED
  BY <1>2, <1>3, <1>4, <1>5 DEF StreamInv

LEMMA ClearFlagsInv == StreamInv /\ ClearFlags => StreamInv'
<1> SUFFICES ASSUME StreamInv, ClearFlags
             PROVE  StreamInv'
  OBVIOUS
<1>1. /\ UNCHANGED <<kind, core, worker, spent, host>>
      /\ caller.pc = "clear"
      /\ caller' = [pc |-> caller'.pc, tries |-> caller.tries, complete |-> caller.complete,
                    last |-> "none"]
      /\ caller'.pc \in {"announce", "create"}
      /\ st' = [active |-> st.active, endReq |-> st.endReq, truncated |-> FALSE,
                complete |-> TRUE, id |-> spent.streams, sent |-> st.sent, q |-> st.q]
      /\ accepted' = 0 /\ carried' = <<>> /\ said' = "none"
      /\ report' = [status |-> 1, valid |-> 0, made |-> FALSE, crossed |-> Crossed]
  BY DEF ClearFlags, NoReport, CallerAt, StreamInv, BleShape
<1>2. ~IsRunning /\ st.q = <<>> /\ st.sent = 0
  BY <1>1 DEF StreamInv, StartIsClean
<1>3. BleShape' /\ Types'
  BY <1>1 DEF StreamInv, BleShape, Types
<1>4. ActiveIsRunning' /\ ChunkInHand' /\ StartIsClean' /\ PiecesAreCounted'
  BY <1>1, <1>2 DEF StreamInv, ActiveIsRunning, IsRunning, ChunkInHand, StartIsClean, PiecesAreCounted
<1>5. HostTruncatesFirst'
  <2> SUFFICES ASSUME Framed, NEW i \in DOMAIN host, host[i] = "end"
               PROVE  IF i = 1 THEN st'.truncated \/ report'.crossed ELSE host[i - 1] = "truncate"
    BY <1>1 DEF HostTruncatesFirst, Framed
  <2>1. host \in Seq(HostSteps)
    BY DEF StreamInv, Types
  <2>2. CASE i = 1
    <3>1. host # <<>> /\ Head(host) = "end"
      BY <2>1, <2>2
    <3>2. Crossed
      BY <3>1 DEF Crossed
    <3> QED
      BY <1>1, <2>2, <3>2
  <2>3. CASE i # 1
    BY <2>3 DEF StreamInv, HostTruncatesFirst
  <2> QED
    BY <2>2, <2>3
<1>6. EndIsAsked' /\ EndIsSeen'
  BY <1>1, <1>2 DEF StreamInv, EndIsAsked, EndIsSeen, IsRunning, Crossed, Framed
<1>7. ReportIsLast' /\ UncrossedEndIsHonest'
  BY <1>1 DEF ReportIsLast, UncrossedEndIsHonest, StatusIsTrue
<1> QED
  BY <1>3, <1>4, <1>5, <1>6, <1>7 DEF StreamInv

LEMMA CreateWorkerInv == StreamInv /\ CreateWorker => StreamInv'
<1> SUFFICES ASSUME StreamInv, CreateWorker
             PROVE  StreamInv'
  OBVIOUS
<1>1. /\ UNCHANGED <<kind, core, spent, host, history>>
      /\ caller.pc = "create"
      /\ caller' = [pc |-> "opened", tries |-> caller.tries, complete |-> caller.complete,
                    last |-> caller.last]
      /\ st' = [active |-> TRUE, endReq |-> st.endReq, truncated |-> st.truncated,
                complete |-> st.complete, id |-> st.id, sent |-> st.sent, q |-> st.q]
      /\ worker' = [pc |-> "look", end |-> FALSE, chunk |-> <<>>]
  BY DEF CreateWorker, CallerAt, CallerGoes, NoWorker, StreamInv, BleShape
<1>2. st.q = <<>> /\ st.sent = 0 /\ carried = <<>> /\ accepted = 0
  BY <1>1 DEF StreamInv, StartIsClean
<1>3. ~report.made /\ ~(Framed /\ st.endReq /\ ~st.truncated /\ ~report.crossed)
  BY <1>1 DEF StreamInv, ReportIsLast, EndIsAsked
<1>4. BleShape' /\ Types'
  BY <1>1 DEF StreamInv, BleShape, Types, history
<1>5. PiecesAreCounted'
  BY <1>1, <1>2, BleAssumption DEF PiecesAreCounted, history
<1>6. ActiveIsRunning' /\ ChunkInHand' /\ StartIsClean'
  BY <1>1 DEF ActiveIsRunning, IsRunning, ChunkInHand, StartIsClean
<1>7. HostTruncatesFirst' /\ EndIsAsked' /\ EndIsSeen'
  BY <1>1, <1>3 DEF StreamInv, HostTruncatesFirst, EndIsAsked, EndIsSeen, IsRunning, Framed, history
<1>8. ReportIsLast' /\ UncrossedEndIsHonest'
  BY <1>1, <1>3 DEF ReportIsLast, UncrossedEndIsHonest, StatusIsTrue, history
<1> QED
  BY <1>4, <1>5, <1>6, <1>7, <1>8 DEF StreamInv

\* What is added is added to a stream that the application has not ended.
LEMMA PushInv == StreamInv /\ Push => StreamInv'
<1> SUFFICES ASSUME StreamInv, Push
             PROVE  StreamInv'
  OBVIOUS
<1>1. /\ UNCHANGED <<kind, core, spent, host, worker, carried, said, report>>
      /\ caller.pc = "push"
      /\ caller' = [pc |-> "idle", tries |-> caller'.tries, complete |-> caller'.complete,
                    last |-> caller'.last]
      /\ st' = [active |-> st.active, endReq |-> st.endReq, truncated |-> st.truncated,
                complete |-> st.complete, id |-> st.id, sent |-> st.sent, q |-> Append(st.q, Chunk)]
      /\ accepted' = accepted + Pieces
  BY DEF Push, Pushed, IdleCaller, CallerAt, StreamInv, BleShape
<1>2. /\ ~(Framed /\ st.endReq /\ ~st.truncated /\ ~report.crossed)
      /\ ~(report.made /\ report.status = 0 /\ ~report.crossed)
  BY <1>1 DEF StreamInv, ReportIsLast, EndIsAsked
<1>3. Chunk \in Chunks
  BY BleAssumption DEF Chunk, Chunks, Piece, StreamInv, Types
<1>4. st.q \in Seq(Chunks) /\ Append(st.q, Chunk) \in Seq(Chunks) /\ Len(Append(st.q, Chunk)) = Len(st.q) + 1
  BY <1>3 DEF StreamInv, Types
<1>5. Pieces * (Len(st.q) + 1) = Pieces * Len(st.q) + Pieces /\ Pieces * Len(st.q) \in Nat
  <2>1. Len(st.q) \in Nat
    BY <1>4
  <2> QED
    BY <2>1, PiecesInNat, Times
<1>6. BleShape' /\ Types'
  BY <1>1, <1>4, BleAssumption DEF StreamInv, BleShape, Types
<1>7. PiecesAreCounted'
  <2> SUFFICES ASSUME Framed', IsRunning'
               PROVE  st'.sent = Len(carried') /\ (~st'.truncated =>
                        Len(carried') + Len(worker'.chunk) + Pieces * Len(st'.q) = accepted')
    BY DEF PiecesAreCounted
  <2>1. /\ st.sent = Len(carried)
        /\ ~st.truncated => Len(carried) + Len(worker.chunk) + Pieces * Len(st.q) = accepted
    BY <1>1 DEF StreamInv, PiecesAreCounted, IsRunning, Framed
  <2>2. Len(carried) \in Nat /\ Len(worker.chunk) \in Nat
    BY DEF StreamInv, Types
  <2>3. Pieces * Len(st'.q) = Pieces * Len(st.q) + Pieces
    BY <1>1, <1>4, <1>5
  <2> QED
    BY <1>1, <1>5, <2>1, <2>2, <2>3, PiecesInNat
<1>8. ActiveIsRunning' /\ ChunkInHand' /\ StartIsClean'
  BY <1>1 DEF StreamInv, ActiveIsRunning, IsRunning, ChunkInHand, StartIsClean
<1>9. HostTruncatesFirst' /\ EndIsAsked' /\ EndIsSeen'
  BY <1>1, <1>2 DEF StreamInv, HostTruncatesFirst, EndIsAsked, EndIsSeen, IsRunning, Framed
<1>10. ReportIsLast' /\ UncrossedEndIsHonest'
  BY <1>1, <1>2 DEF StreamInv, ReportIsLast, UncrossedEndIsHonest, StatusIsTrue, Framed
<1> QED
  BY <1>6, <1>7, <1>8, <1>9, <1>10 DEF StreamInv

LEMMA PushOverflowsInv == StreamInv /\ PushOverflows => StreamInv'
<1> SUFFICES ASSUME StreamInv, PushOverflows
             PROVE  StreamInv'
  OBVIOUS
<1>1. /\ UNCHANGED <<kind, core, spent, host, worker, history>>
      /\ caller.pc = "push"
      /\ caller' = [pc |-> "idle", tries |-> caller'.tries, complete |-> caller'.complete,
                    last |-> caller'.last]
      /\ st' = [active |-> st.active, endReq |-> st'.endReq, truncated |-> st'.truncated,
                complete |-> st.complete, id |-> st.id, sent |-> st.sent, q |-> st.q]
      /\ st.endReq => st'.endReq
      /\ Framed => st'.truncated
  BY DEF PushOverflows, Overflowed, Pushed, IdleCaller, CallerAt, StreamInv, BleShape
<1>2. ~(report.made /\ report.status = 0 /\ ~report.crossed)
  BY <1>1 DEF StreamInv, ReportIsLast
<1>3. BleShape' /\ Types'
  BY <1>1 DEF StreamInv, BleShape, Types, history
<1>4. ActiveIsRunning' /\ ChunkInHand' /\ StartIsClean' /\ PiecesAreCounted'
  BY <1>1 DEF StreamInv, ActiveIsRunning, IsRunning, ChunkInHand, StartIsClean, PiecesAreCounted, Framed,
              history
<1>5. HostTruncatesFirst' /\ EndIsAsked' /\ EndIsSeen'
  BY <1>1 DEF StreamInv, HostTruncatesFirst, EndIsAsked, EndIsSeen, IsRunning, Framed
<1>6. ReportIsLast' /\ UncrossedEndIsHonest'
  BY <1>1, <1>2 DEF StreamInv, ReportIsLast, UncrossedEndIsHonest, StatusIsTrue, Framed, history
<1> QED
  BY <1>3, <1>4, <1>5, <1>6 DEF StreamInv

\* The application ends a stream: it says what it asks for.
LEMMA RequestEndInv == StreamInv /\ RequestEnd => StreamInv'
<1> SUFFICES ASSUME StreamInv, RequestEnd
             PROVE  StreamInv'
  OBVIOUS
<1>1. /\ UNCHANGED <<kind, core, spent, host, worker, accepted, carried, report>>
      /\ caller.pc = "end" /\ ~core
      /\ caller' = [pc |-> "idle", tries |-> caller'.tries, complete |-> caller'.complete,
                    last |-> caller'.last]
      /\ st' = [active |-> st.active, endReq |-> TRUE, truncated |-> st.truncated,
                complete |-> caller.complete, id |-> st.id, sent |-> st.sent, q |-> st.q]
      /\ said' = IF caller.complete THEN "complete" ELSE "partial"
  BY DEF RequestEnd, Ended, IdleCaller, CallerAt, StreamInv, BleShape, EndIsAsked
<1>2. ~(report.made /\ report.status = 0 /\ ~report.crossed)
  BY <1>1 DEF StreamInv, ReportIsLast
<1>3. BleShape' /\ Types'
  BY <1>1 DEF StreamInv, BleShape, Types
<1>4. ActiveIsRunning' /\ ChunkInHand' /\ StartIsClean' /\ PiecesAreCounted'
  BY <1>1 DEF StreamInv, ActiveIsRunning, IsRunning, ChunkInHand, StartIsClean, PiecesAreCounted, Framed
<1>5. HostTruncatesFirst' /\ EndIsAsked' /\ EndIsSeen'
  BY <1>1 DEF StreamInv, HostTruncatesFirst, EndIsAsked, EndIsSeen, IsRunning, Framed
<1>6. ReportIsLast' /\ UncrossedEndIsHonest'
  BY <1>1, <1>2 DEF StreamInv, ReportIsLast, UncrossedEndIsHonest, StatusIsTrue, Framed
<1> QED
  BY <1>3, <1>4, <1>5, <1>6 DEF StreamInv

LEMMA ApplicationInv == StreamInv /\ (Call \/ CallGoesOn) => StreamInv'
  BY StartStreamInv, AnnounceInv, CoreInv, EndStreamInv, ResetStreamInv, ClearFlagsInv,
     CreateWorkerInv, PushInv, PushOverflowsInv, RequestEndInv DEF Call, CallGoesOn

----------------------------------------------------------------------------
(* The worker.                                                             *)

\* What a step of the worker has to show: the rest it leaves alone.
LEMMA StreamWorkerInv ==
  ASSUME StreamInv, IsRunning, WorkerOnly,
         st' = [active |-> st'.active, endReq |-> st'.endReq, truncated |-> st'.truncated,
                complete |-> st.complete, id |-> st.id, sent |-> st'.sent, q |-> st'.q],
         worker' = [pc |-> worker'.pc, end |-> worker'.end, chunk |-> worker'.chunk],
         spent' = [streams |-> spent.streams, links |-> spent.links, chans |-> spent.chans,
                   faults |-> spent'.faults],
         st'.sent \in Nat, st'.q \in Seq(Chunks), worker'.chunk \in Seq(Piece), carried' \in Seq(Piece),
         st'.active <=> worker'.pc # "none",
         Framed => (st'.endReq <=> st.endReq) /\ (st.truncated => st'.truncated),
         report' = [status |-> report'.status, valid |-> report'.valid, made |-> report'.made,
                    crossed |-> report.crossed],
         ChunkInHand', EndIsSeen', PiecesAreCounted', ReportIsLast', UncrossedEndIsHonest'
  PROVE  StreamInv'
<1>1. BleShape' /\ Types'
  BY DEF StreamInv, BleShape, Types, WorkerOnly
<1>2. ActiveIsRunning' /\ StartIsClean'
  BY DEF StreamInv, ActiveIsRunning, IsRunning, StartIsClean, WorkerOnly
<1>3. HostTruncatesFirst' /\ EndIsAsked'
  BY DEF StreamInv, HostTruncatesFirst, EndIsAsked, Framed, WorkerOnly
<1> QED
  BY <1>1, <1>2, <1>3 DEF StreamInv

\* Before its report nothing has been reported.
LEMMA NotReported ==
  ASSUME StreamInv, worker.pc \notin {"stop", "none"}, UNCHANGED report
  PROVE  ReportIsLast' /\ UncrossedEndIsHonest'
  BY DEF StreamInv, ReportIsLast, UncrossedEndIsHonest, StatusIsTrue

\* What a step knows of the records it starts from.
LEMMA WorkerFacts ==
  ASSUME StreamInv
  PROVE  /\ st = [active |-> st.active, endReq |-> st.endReq, truncated |-> st.truncated,
                  complete |-> st.complete, id |-> st.id, sent |-> st.sent, q |-> st.q]
         /\ worker = [pc |-> worker.pc, end |-> worker.end, chunk |-> worker.chunk]
         /\ spent = [streams |-> spent.streams, links |-> spent.links, chans |-> spent.chans,
                     faults |-> spent.faults]
         /\ report = [status |-> report.status, valid |-> report.valid, made |-> report.made,
                      crossed |-> report.crossed]
         /\ st.sent \in Nat /\ st.q \in Seq(Chunks)
         /\ worker.chunk \in Seq(Piece) /\ carried \in Seq(Piece)
         /\ st.active <=> worker.pc # "none"
         /\ <<>> \in Seq(Piece)
  BY DEF StreamInv, BleShape, Types, ActiveIsRunning, IsRunning

\* It looks for work, finds none, or goes on to the call.
LEMMA WorkerGoesOnInv ==
  StreamInv /\ (Look \/ FindEmpty \/ CheckChannel \/ NoBuffer \/ RetrySend \/ MarkStalled) => StreamInv'
<1> SUFFICES ASSUME StreamInv, Look \/ FindEmpty \/ CheckChannel \/ NoBuffer \/ RetrySend \/ MarkStalled
             PROVE  StreamInv'
  OBVIOUS
<1> USE WorkerFacts
<1>1. /\ WorkerOnly /\ UNCHANGED <<st, carried, report>>
      /\ worker.pc \in {"look", "pop", "slice", "submit", "failed", "mark"}
      /\ worker' = [pc |-> worker'.pc, end |-> worker'.end, chunk |-> worker.chunk]
      /\ \/ worker'.pc = "pop" /\ worker.pc = "look" /\ worker'.end = st.endReq
         \/ worker'.pc = "look" /\ worker.pc = "pop" /\ worker'.end = FALSE
         \/ /\ worker'.pc = (IF Framed THEN "close" ELSE "stop") /\ worker.pc = "pop"
            /\ worker.end /\ st.q = <<>> /\ worker'.end = FALSE
         \/ worker.pc \in {"slice", "submit", "failed"} /\ worker'.end = worker.end
              /\ worker'.pc \in {"slice", "submit", "failed"}
         \/ worker.pc = "mark" /\ worker'.end = worker.end
              /\ worker'.pc = IF worker.chunk = <<>> THEN "look" ELSE "slice"
  <2>1. worker.pc = "pop" => worker.chunk = <<>>
    BY DEF StreamInv, ChunkInHand
  <2>2. CASE Look
    BY <2>2 DEF Look, On
  <2>3. CASE FindEmpty
    BY <2>1, <2>3 DEF FindEmpty, On, AfterEmpty, Leaves, NoWorker
  <2>4. CASE CheckChannel
    BY <2>4 DEF CheckChannel, InSlice, On, Turns
  <2>5. CASE NoBuffer \/ RetrySend
    BY <2>5 DEF NoBuffer, RetrySend, On, Turns
  <2>6. CASE MarkStalled
    BY <2>6 DEF MarkStalled, On, Turns
  <2> QED
    BY <2>2, <2>3, <2>4, <2>5, <2>6
<1>2. spent' = [streams |-> spent.streams, links |-> spent.links, chans |-> spent.chans,
                faults |-> spent'.faults]
  BY DEF Look, FindEmpty, CheckChannel, NoBuffer, RetrySend, MarkStalled, Fault
<1>3. ChunkInHand' /\ EndIsSeen'
  BY <1>1 DEF StreamInv, ChunkInHand, EndIsSeen, IsRunning, Framed, WorkerOnly
<1>4. PiecesAreCounted'
  <2>1. IsRunning /\ worker'.chunk = worker.chunk /\ UNCHANGED <<kind, accepted, st, carried>>
    BY <1>1 DEF IsRunning, WorkerOnly
  <2> QED
    BY <2>1 DEF StreamInv, PiecesAreCounted, Framed
<1>5. ReportIsLast' /\ UncrossedEndIsHonest'
  BY <1>1, NotReported
<1>6. IsRunning /\ worker'.pc # "none"
  BY <1>1 DEF IsRunning
<1> QED
  BY <1>1, <1>2, <1>3, <1>4, <1>5, <1>6, StreamWorkerInv

\* It gives the stream up: a recording or an image is cut.
LEMMA WorkerAbortsInv == StreamInv /\ (SeeLinkDown \/ GiveUp \/ AbortSend) => StreamInv'
<1> SUFFICES ASSUME StreamInv, SeeLinkDown \/ GiveUp \/ AbortSend
             PROVE  StreamInv'
  OBVIOUS
<1> USE WorkerFacts
<1>1. /\ WorkerOnly /\ UNCHANGED <<carried, report, spent>>
      /\ worker.pc \in {"look", "slice", "failed"}
      /\ worker' = [pc |-> IF Framed THEN "close" ELSE "stop", end |-> FALSE, chunk |-> <<>>]
      /\ st' = [active |-> st.active, endReq |-> st.endReq, truncated |-> st.truncated \/ Framed,
                complete |-> st.complete, id |-> st.id, sent |-> st.sent, q |-> st.q]
  BY DEF SeeLinkDown, GiveUp, AbortSend, WaitEnds, InSlice, On, Abort, Leaves, NoWorker
<1>2. ChunkInHand' /\ EndIsSeen' /\ PiecesAreCounted'
  BY <1>1 DEF StreamInv, ChunkInHand, EndIsSeen, PiecesAreCounted, IsRunning, Framed, WorkerOnly
<1>3. ReportIsLast' /\ UncrossedEndIsHonest'
  BY <1>1, NotReported
<1>4. IsRunning /\ worker'.pc # "none"
  BY <1>1 DEF IsRunning
<1> QED
  BY <1>1, <1>2, <1>3, <1>4, StreamWorkerInv

\* It takes a chunk in hand.
LEMMA PopInv == StreamInv /\ Pop => StreamInv'
<1> SUFFICES ASSUME StreamInv, Pop
             PROVE  StreamInv'
  OBVIOUS
<1> USE WorkerFacts
<1>1. /\ WorkerOnly /\ UNCHANGED <<carried, report, spent>>
      /\ worker.pc = "pop" /\ st.q # <<>>
      /\ worker' = [pc |-> "slice", end |-> FALSE, chunk |-> Head(st.q)]
      /\ st' = [active |-> st.active, endReq |-> st.endReq, truncated |-> st.truncated,
                complete |-> st.complete, id |-> st.id, sent |-> st.sent, q |-> Tail(st.q)]
  BY DEF Pop, Popped, On, NoWorker
<1>2. Head(st.q) \in Chunks /\ Tail(st.q) \in Seq(Chunks) /\ Len(Tail(st.q)) \in Nat
        /\ Len(st.q) = Len(Tail(st.q)) + 1
  BY <1>1
<1>3. Head(st.q) \in Seq(Piece) /\ Len(Head(st.q)) = Pieces /\ Head(st.q) # <<>>
  BY <1>2, ChunkLength
<1>4. Pieces * Len(st.q) = Pieces * Len(Tail(st.q)) + Pieces /\ Pieces * Len(Tail(st.q)) \in Nat
  BY <1>2, PiecesInNat, Times
<1>5. worker.chunk = <<>> /\ Len(carried) \in Nat
  BY <1>1 DEF StreamInv, ChunkInHand
<1>6. ChunkInHand' /\ EndIsSeen'
  BY <1>1, <1>3 DEF ChunkInHand, EndIsSeen, IsRunning
<1>7. PiecesAreCounted'
  <2> SUFFICES ASSUME Framed', IsRunning'
               PROVE  st'.sent = Len(carried') /\ (~st'.truncated =>
                        Len(carried') + Len(worker'.chunk) + Pieces * Len(st'.q) = accepted')
    BY DEF PiecesAreCounted
  <2>1. /\ st.sent = Len(carried)
        /\ ~st.truncated => Len(carried) + 0 + Pieces * Len(st.q) = accepted
    BY <1>1, <1>5 DEF StreamInv, PiecesAreCounted, IsRunning, Framed, WorkerOnly
  <2>2. /\ accepted' = accepted /\ carried' = carried /\ st'.q = Tail(st.q) /\ Len(worker'.chunk) = Pieces
        /\ st'.sent = st.sent /\ st'.truncated = st.truncated
    BY <1>1, <1>3 DEF WorkerOnly
  <2>3. Len(carried) + 0 + (Pieces * Len(Tail(st.q)) + Pieces) =
          Len(carried) + Pieces + Pieces * Len(Tail(st.q))
    BY <1>4, <1>5, PiecesInNat
  <2> QED
    BY <1>4, <2>1, <2>2, <2>3, Zenon
<1>8. ReportIsLast' /\ UncrossedEndIsHonest'
  BY <1>1, NotReported
<1>9. IsRunning /\ worker'.pc # "none"
  BY <1>1 DEF IsRunning
<1> QED
  BY <1>1, <1>2, <1>3, <1>6, <1>7, <1>8, <1>9, StreamWorkerInv

\* NimBLE takes a piece: it is counted.
LEMMA SubmitInv == StreamInv /\ (Submit \/ SendVoice) => StreamInv'
<1> SUFFICES ASSUME StreamInv, Submit \/ SendVoice
             PROVE  StreamInv'
  OBVIOUS
<1> USE WorkerFacts
<1>1. /\ WorkerOnly /\ UNCHANGED <<report, spent>>
      /\ worker.pc \in {"slice", "submit"}
      /\ carried' = Append(carried, Head(worker.chunk))
      /\ worker' = [pc |-> worker'.pc, end |-> worker.end, chunk |-> Tail(worker.chunk)]
      /\ \/ worker'.pc = "mark"
         \/ worker'.pc = "look" /\ Tail(worker.chunk) = <<>>
         \/ worker'.pc = "slice" /\ Tail(worker.chunk) # <<>>
      /\ st' = [active |-> st.active, endReq |-> st.endReq, truncated |-> st.truncated,
                complete |-> st.complete, id |-> st.id, sent |-> st'.sent, q |-> st.q]
      /\ \/ st'.sent = st.sent + 1
         \/ st'.sent = st.sent /\ ~Framed
  <2>1. CASE Submit
    BY <2>1 DEF Submit, On, TakePiece, AfterPiece
  <2>2. CASE SendVoice
    BY <2>2 DEF SendVoice, On, TakePiece, AfterPiece
  <2> QED
    BY <2>1, <2>2
<1>2. worker.chunk # <<>>
  BY <1>1 DEF StreamInv, ChunkInHand
<1>3. /\ Tail(worker.chunk) \in Seq(Piece) /\ Append(carried, Head(worker.chunk)) \in Seq(Piece)
      /\ Len(Tail(worker.chunk)) \in Nat /\ Len(worker.chunk) = Len(Tail(worker.chunk)) + 1
      /\ Len(carried) \in Nat /\ Len(Append(carried, Head(worker.chunk))) = Len(carried) + 1
  BY <1>2
<1>4. ChunkInHand' /\ EndIsSeen'
  <2> DEFINE rest == Tail(worker.chunk)
  <2>0. /\ worker' = [pc |-> worker'.pc, end |-> worker.end, chunk |-> rest]
        /\ \/ worker'.pc = "mark"
           \/ worker'.pc = "look" /\ rest = <<>>
           \/ worker'.pc = "slice" /\ rest # <<>>
        /\ st'.endReq = st.endReq
    BY <1>1
  <2> HIDE DEF rest
  <2>1. /\ worker'.pc \in {"mark", "look", "slice"} /\ worker'.end = worker.end
        /\ st'.endReq = st.endReq
        /\ worker'.pc = "look" => worker'.chunk = <<>>
        /\ worker'.pc = "slice" => worker'.chunk # <<>>
    BY <2>0
  <2>2. worker.end => st.endReq
    BY DEF StreamInv, EndIsSeen
  <2> QED
    BY <2>1, <2>2 DEF ChunkInHand, EndIsSeen, IsRunning
<1>5. PiecesAreCounted'
  <2> SUFFICES ASSUME Framed', IsRunning'
               PROVE  st'.sent = Len(carried') /\ (~st'.truncated =>
                        Len(carried') + Len(worker'.chunk) + Pieces * Len(st'.q) = accepted')
    BY DEF PiecesAreCounted
  <2>1. /\ st.sent = Len(carried)
        /\ ~st.truncated => Len(carried) + Len(worker.chunk) + Pieces * Len(st.q) = accepted
    BY <1>1 DEF StreamInv, PiecesAreCounted, IsRunning, Framed, WorkerOnly
  <2>2. /\ accepted' = accepted /\ st'.q = st.q /\ Framed
        /\ Len(carried') = Len(carried) + 1 /\ Len(worker.chunk) = Len(worker'.chunk) + 1
        /\ Len(worker'.chunk) \in Nat
    BY <1>1, <1>3 DEF Framed, WorkerOnly
  <2>3. Pieces * Len(st.q) \in Nat
    <3>1. Len(st.q) \in Nat
      OBVIOUS
    <3> QED
      BY <3>1, PiecesInNat, Times
  <2>4. st'.sent = Len(carried')
    BY <1>1, <2>1, <2>2
  <2>5. Pieces * Len(st'.q) = Pieces * Len(st.q) /\ st'.truncated = st.truncated
    BY <1>1, <2>2
  <2>6. ASSUME ~st'.truncated
        PROVE  Len(carried') + Len(worker'.chunk) + Pieces * Len(st'.q) = accepted'
    <3>1. Len(carried) + (Len(worker'.chunk) + 1) + Pieces * Len(st.q) = accepted
      BY <2>1, <2>2, <2>5, <2>6
    <3>2. (Len(carried) + 1) + Len(worker'.chunk) + Pieces * Len(st.q) = accepted
      <4>1. Len(carried) \in Nat /\ Len(worker'.chunk) \in Nat
        BY <1>3, <2>2
      <4> QED
        BY <2>3, <3>1, <4>1, MoveOne
    <3> QED
      BY <2>2, <2>5, <3>2
  <2> QED
    BY <2>4, <2>6
<1>6. ReportIsLast' /\ UncrossedEndIsHonest'
  BY <1>1, NotReported
<1>7. /\ st'.active = st.active /\ st'.endReq = st.endReq /\ st'.truncated = st.truncated
      /\ st'.q = st.q /\ st'.sent \in Nat
  <2>1. st'.sent \in {st.sent, st.sent + 1}
    BY <1>1
  <2>2. st'.sent \in Nat
    BY <2>1
  <2> QED
    BY <1>1, <2>2
<1>8. /\ spent' = [streams |-> spent.streams, links |-> spent.links, chans |-> spent.chans,
                   faults |-> spent'.faults]
      /\ st' = [active |-> st'.active, endReq |-> st'.endReq, truncated |-> st'.truncated,
                complete |-> st.complete, id |-> st.id, sent |-> st'.sent, q |-> st'.q]
      /\ worker' = [pc |-> worker'.pc, end |-> worker'.end, chunk |-> worker'.chunk]
  BY <1>1
<1>9. worker'.chunk \in Seq(Piece) /\ carried' \in Seq(Piece)
  <2>1. worker'.chunk = Tail(worker.chunk) /\ carried' = Append(carried, Head(worker.chunk))
    BY <1>1
  <2> QED
    BY <1>3, <2>1, Zenon
<1>10. IsRunning /\ worker'.pc # "none"
  BY <1>1 DEF IsRunning
<1> QED
  BY <1>1, <1>4, <1>5, <1>6, <1>7, <1>8, <1>9, <1>10, StreamWorkerInv

LEMMA VoiceFailsInv == StreamInv /\ VoiceFails => StreamInv'
<1> SUFFICES ASSUME StreamInv, VoiceFails
             PROVE  StreamInv'
  OBVIOUS
<1> USE WorkerFacts
<1>1. /\ WorkerOnly /\ UNCHANGED <<carried, report>>
      /\ worker.pc = "slice" /\ ~Framed
      /\ worker' = [pc |-> "look", end |-> worker.end, chunk |-> <<>>]
      /\ st' = [active |-> st.active, endReq |-> TRUE, truncated |-> st.truncated,
                complete |-> st.complete, id |-> st.id, sent |-> st.sent, q |-> st.q]
  BY DEF VoiceFails, On
<1>2. spent' = [streams |-> spent.streams, links |-> spent.links, chans |-> spent.chans,
                faults |-> spent'.faults]
  BY DEF VoiceFails, NotifyFails, Fault
<1>3. ChunkInHand' /\ EndIsSeen' /\ PiecesAreCounted'
  BY <1>1 DEF ChunkInHand, EndIsSeen, PiecesAreCounted, IsRunning, Framed, WorkerOnly
<1>4. ReportIsLast' /\ UncrossedEndIsHonest'
  BY <1>1, NotReported
<1>5. IsRunning /\ worker'.pc # "none"
  BY <1>1 DEF IsRunning
<1> QED
  BY <1>1, <1>2, <1>3, <1>4, <1>5, StreamWorkerInv

\* The report: what was sent is what was accepted, if it says so.
LEMMA ReportInv == StreamInv /\ (Report \/ ReportFails) => StreamInv'
<1> SUFFICES ASSUME StreamInv, Report \/ ReportFails
             PROVE  StreamInv'
  OBVIOUS
<1> USE WorkerFacts
<1>1. /\ WorkerOnly /\ UNCHANGED <<st, carried>>
      /\ worker.pc = "close"
      /\ worker' = [pc |-> "stop", end |-> worker.end, chunk |-> worker.chunk]
      /\ \/ report' = [status |-> Status, valid |-> st.sent, made |-> TRUE,
                       crossed |-> report.crossed]
         \/ UNCHANGED report
  BY DEF Report, ReportFails, On, Turns
<1>2. spent' = [streams |-> spent.streams, links |-> spent.links, chans |-> spent.chans,
                faults |-> spent'.faults]
  BY DEF Report, ReportFails, NotifyFails, Fault
<1>3. /\ Framed /\ worker.chunk = <<>> /\ ~report.made
      /\ caller.pc \notin {"announce", "create"}
  BY <1>1 DEF StreamInv, EndIsSeen, ChunkInHand, ReportIsLast, StartIsClean, IsRunning
<1>4. ChunkInHand' /\ EndIsSeen' /\ PiecesAreCounted'
  BY <1>1, <1>3 DEF StreamInv, ChunkInHand, EndIsSeen, PiecesAreCounted, IsRunning, Framed, WorkerOnly
<1>5. CASE Status = 0 /\ ~report.crossed
  <2>1. ~st.truncated /\ st.complete /\ st.endReq /\ st.q = <<>>
    BY <1>1, <1>5 DEF Status, StreamInv, EndIsSeen
  <2>2. caller.pc \in {"idle", "reset"} /\ ~core /\ said = "complete"
    BY <1>3, <1>5, <2>1 DEF StreamInv, EndIsAsked
  <2>3. Len(carried) + 0 + Pieces * 0 = accepted /\ st.sent = Len(carried)
    BY <1>1, <1>3, <2>1 DEF StreamInv, PiecesAreCounted, IsRunning
  <2>4. Len(carried) = accepted
    BY <2>3, PiecesInNat
  <2>5. ReportIsLast'
    BY <1>1, <1>3, <2>2 DEF ReportIsLast, Framed, WorkerOnly
  <2>6. UncrossedEndIsHonest'
    BY <1>1, <1>3, <2>2, <2>3, <2>4 DEF UncrossedEndIsHonest, StatusIsTrue, WorkerOnly
  <2> QED
    BY <1>1, <1>2, <1>4, <2>5, <2>6, StreamWorkerInv DEF IsRunning
<1>6. CASE Status # 0 \/ report.crossed
  <2>1. st.sent = Len(carried)
    BY <1>1, <1>3 DEF StreamInv, PiecesAreCounted, IsRunning
  <2>2. ReportIsLast'
    BY <1>1, <1>3, <1>6 DEF ReportIsLast, Framed, WorkerOnly
  <2>3. UncrossedEndIsHonest'
    BY <1>1, <1>3, <1>6, <2>1 DEF UncrossedEndIsHonest, StatusIsTrue, WorkerOnly
  <2> QED
    BY <1>1, <1>2, <1>4, <2>2, <2>3, StreamWorkerInv DEF IsRunning
<1> QED
  BY <1>5, <1>6

LEMMA StopWorkerInv == StreamInv /\ StopWorker => StreamInv'
<1> SUFFICES ASSUME StreamInv, StopWorker
             PROVE  StreamInv'
  OBVIOUS
<1> USE WorkerFacts
<1>1. /\ WorkerOnly /\ UNCHANGED <<carried, report, spent>>
      /\ worker.pc = "stop"
      /\ worker' = [pc |-> "none", end |-> FALSE, chunk |-> <<>>]
      /\ st' = [active |-> FALSE, endReq |-> st.endReq, truncated |-> st.truncated,
                complete |-> st.complete, id |-> st.id, sent |-> st.sent, q |-> st.q]
  BY DEF StopWorker, On, NoWorker
<1>2. ChunkInHand' /\ EndIsSeen' /\ PiecesAreCounted'
  BY <1>1 DEF ChunkInHand, EndIsSeen, PiecesAreCounted, IsRunning
<1>3. ReportIsLast' /\ UncrossedEndIsHonest'
  BY <1>1 DEF StreamInv, ReportIsLast, UncrossedEndIsHonest, StatusIsTrue, Framed, WorkerOnly
<1> QED
  BY <1>1, <1>2, <1>3, StreamWorkerInv DEF IsRunning

LEMMA SubmitNothingInv == StreamInv /\ SubmitNothing => StreamInv'
<1> SUFFICES ASSUME StreamInv, SubmitNothing
             PROVE  StreamInv'
  OBVIOUS
<1>1. /\ kind' \in StreamKinds /\ spent'.streams \in Nat
      /\ spent' = [streams |-> spent'.streams, links |-> spent'.links, chans |-> spent'.chans,
                   faults |-> spent'.faults]
  BY DEF SubmitNothing, StreamInv, BleShape, Types
<1>2. /\ host' = <<>> /\ st' = IdleStream /\ ~core' /\ caller' = IdleCaller /\ worker' = NoWorker
      /\ accepted' = 0 /\ carried' = <<>> /\ said' = "none" /\ report' = NoReport
  BY DEF SubmitNothing
<1>3. BleShape' /\ Types'
  BY <1>1, <1>2 DEF BleShape, Types, IdleStream, IdleCaller, NoWorker, NoReport
<1>4. ActiveIsRunning' /\ ChunkInHand' /\ StartIsClean' /\ PiecesAreCounted'
  BY <1>2 DEF ActiveIsRunning, IsRunning, ChunkInHand, StartIsClean, PiecesAreCounted, IdleStream,
              IdleCaller, NoWorker
<1>5. HostTruncatesFirst' /\ EndIsAsked' /\ EndIsSeen'
  BY <1>2 DEF HostTruncatesFirst, EndIsAsked, EndIsSeen, IdleStream, IdleCaller, NoWorker
<1>6. ReportIsLast' /\ UncrossedEndIsHonest'
  BY <1>2 DEF ReportIsLast, UncrossedEndIsHonest, StatusIsTrue, NoReport
<1> QED
  BY <1>3, <1>4, <1>5, <1>6 DEF StreamInv

LEMMA StreamWorkerStepInv == StreamInv /\ StreamWorker => StreamInv'
  BY WorkerGoesOnInv, WorkerAbortsInv, PopInv, SubmitInv, VoiceFailsInv, ReportInv, StopWorkerInv,
     SubmitNothingInv DEF StreamWorker

----------------------------------------------------------------------------
LEMMA BleNextInv == StreamInv /\ [BleNext]_bleVars => StreamInv'
<1> SUFFICES ASSUME StreamInv, [BleNext]_bleVars
             PROVE  StreamInv'
  OBVIOUS
<1>1. CASE BleNext
  BY <1>1, HostEventInv, ApplicationInv, StreamWorkerStepInv DEF BleNext
<1>2. CASE UNCHANGED bleVars
  <2>1. /\ UNCHANGED <<kind, host, core, caller, streamVars, history, spent>>
    BY <1>2 DEF bleVars, streamVars, history
  <2>2. /\ host' \in Seq(HostSteps) /\ HostTruncatesFirst'
        /\ spent' = [streams |-> spent.streams, links |-> spent'.links, chans |-> spent'.chans,
                     faults |-> spent'.faults]
    BY <2>1 DEF StreamInv, Types, BleShape, HostTruncatesFirst, Framed, streamVars, history
  <2> QED
    BY <2>1, <2>2, LinkInv
<1> QED
  BY <1>1, <1>2

\* The invariant of the uplink streams.
THEOREM StreamsAreConsistent == BleSpec => []StreamInv
<1>1. BleInit => StreamInv
  BY InitStream
<1>2. StreamInv /\ [BleNext]_bleVars => StreamInv'
  BY BleNextInv
<1> QED
  BY <1>1, <1>2, PTL DEF BleSpec

\* What 0x53 or 0x55 says of a recording or an image is so: its byte count is
\* what was sent, and status 0 means that nothing of it is missing, unless a
\* channel was closing while the flags of that stream were cleared.
THEOREM EndsAreHonest == BleSpec => []UncrossedEndIsHonest
<1>1. StreamInv => UncrossedEndIsHonest
  BY DEF StreamInv
<1> QED
  BY <1>1, StreamsAreConsistent, PTL

----------------------------------------------------------------------------
(* The order of the pieces, whatever is lost and whenever.  What the       *)
(* worker holds and what is queued are the last pieces that were accepted, *)
(* so each piece has its place counted from the end.                       *)

\* What is still to be sent of what was accepted.
LeftBehind == Len(worker.chunk) + Pieces * Len(st.q)

QueueInOrder ==
  \A k \in DOMAIN st.q : \A j \in 1..Pieces :
    /\ st.q[k][j].id = st.id
    /\ st.q[k][j].n + Pieces * (Len(st.q) - k + 1) = accepted + j

HandInOrder ==
  \A j \in DOMAIN worker.chunk :
    /\ worker.chunk[j].id = st.id
    /\ worker.chunk[j].n + LeftBehind = accepted + j

SentBefore == \A i \in DOMAIN carried : carried[i].n + LeftBehind <= accepted

\* The worker has not given up.
Sending == worker.pc \in {"look", "pop", "slice", "submit", "failed", "mark"}

\* Voice drops what NimBLE does not take; a recording or an image does not.
NothingMissing == Framed /\ Sending => Len(carried) + LeftBehind = accepted

\* No worker runs while a stream is started, which has nothing yet.
StartIsEmpty ==
  /\ caller.pc \in {"reset", "clear", "announce", "create"} => ~IsRunning
  /\ caller.pc \in {"clear", "announce", "create"} => st.q = <<>>
  /\ caller.pc \in {"announce", "create"} => carried = <<>> /\ accepted = 0

IsCounted ==
  /\ st.id \in Nat /\ st.q \in Seq(Chunks)
  /\ worker.chunk \in Seq(Piece)
  /\ accepted \in Nat /\ carried \in Seq(Piece)
  /\ spent.streams \in Nat

Order == QueueInOrder /\ HandInOrder /\ SentBefore /\ NothingMissing

OrderInv ==
  /\ BleShape /\ IsCounted /\ ActiveIsRunning /\ ChunkInHand /\ StartIsEmpty
  /\ Order /\ OwnDataInOrder

\* Nothing has been started: where the device begins, and begins again.
EmptyStart ==
  /\ st = IdleStream /\ caller = IdleCaller /\ worker = NoWorker
  /\ accepted = 0 /\ carried = <<>>
  /\ spent = [streams |-> spent.streams, links |-> spent.links, chans |-> spent.chans,
              faults |-> spent.faults]
  /\ spent.streams \in Nat

LEMMA EmptyIsOrdered == EmptyStart => OrderInv
<1> SUFFICES ASSUME EmptyStart
             PROVE  OrderInv
  OBVIOUS
<1> USE DEF EmptyStart
<1>1. BleShape /\ IsCounted
  BY DEF BleShape, IsCounted, IdleStream, IdleCaller, NoWorker
<1>2. ActiveIsRunning /\ ChunkInHand /\ StartIsEmpty
  BY DEF ActiveIsRunning, IsRunning, ChunkInHand, StartIsEmpty, IdleStream, IdleCaller, NoWorker
<1>3. st.q = <<>> /\ worker.chunk = <<>> /\ worker.pc = "none"
  BY DEF IdleStream, NoWorker
<1>4. Order /\ OwnDataInOrder
  BY <1>3 DEF Order, QueueInOrder, HandInOrder, SentBefore, NothingMissing, Sending, OwnDataInOrder
<1> QED
  BY <1>1, <1>2, <1>4 DEF OrderInv

\* What is left behind is a number.
LEMMA LeftIsNat ==
  ASSUME IsCounted
  PROVE  /\ Len(worker.chunk) \in Nat /\ Len(st.q) \in Nat /\ Len(carried) \in Nat
         /\ Pieces * Len(st.q) \in Nat /\ LeftBehind \in Nat
<1>1. Len(worker.chunk) \in Nat /\ Len(st.q) \in Nat /\ Len(carried) \in Nat
  BY DEF IsCounted
<1>2. Pieces * Len(st.q) \in Nat
  BY <1>1, PiecesInNat, Times
<1> QED
  BY <1>1, <1>2 DEF LeftBehind

LEMMA PiecesSent ==
  ASSUME IsCounted
  PROVE  \A i \in DOMAIN carried : i \in 1..Len(carried) /\ carried[i].n \in Nat /\ carried[i].id \in Nat
<1>1. carried \in Seq(Piece)
  BY DEF IsCounted
<1>2. \A i \in DOMAIN carried : i \in 1..Len(carried) /\ carried[i] \in Piece
  BY <1>1
<1> QED
  BY <1>2 DEF Piece

\* A step that neither queues nor sends; the worker may drop what it holds.
LEMMA OrderKept ==
  ASSUME OrderInv, kind' = kind,
         st'.q = st.q, st'.id = st.id, carried' = carried, accepted' = accepted,
         worker'.chunk = worker.chunk \/ (worker'.chunk = <<>> /\ (Framed => ~Sending')),
         Sending' => Sending \/ ~Framed,
         BleShape', spent'.streams \in Nat, ActiveIsRunning', ChunkInHand', StartIsEmpty'
  PROVE  OrderInv'
<1>1. IsCounted'
  <2>1. worker'.chunk \in Seq(Piece)
    <3>1. worker.chunk \in Seq(Piece) /\ <<>> \in Seq(Piece)
      BY DEF OrderInv, IsCounted
    <3> QED
      BY <3>1
  <2>2. st'.id \in Nat /\ st'.q \in Seq(Chunks)
    BY DEF OrderInv, IsCounted
  <2>3. accepted' \in Nat /\ carried' \in Seq(Piece)
    BY DEF OrderInv, IsCounted
  <2> QED
    BY <2>1, <2>2, <2>3 DEF IsCounted
<1>2. QueueInOrder' /\ OwnDataInOrder'
  <2>1. QueueInOrder'
    BY DEF OrderInv, Order, QueueInOrder
  <2>2. OwnDataInOrder'
    BY DEF OrderInv, OwnDataInOrder, Framed
  <2> QED
    BY <2>1, <2>2
<1>3. CASE worker'.chunk = worker.chunk
  <2>1. LeftBehind' = LeftBehind
    BY <1>3 DEF LeftBehind
  <2>2. HandInOrder' /\ SentBefore'
    BY <1>3, <2>1 DEF OrderInv, Order, HandInOrder, SentBefore
  <2>3. NothingMissing'
    BY <2>1 DEF OrderInv, Order, NothingMissing, Framed
  <2> QED
    BY <1>1, <1>2, <2>2, <2>3 DEF OrderInv, Order
<1>4. CASE worker'.chunk = <<>> /\ (Framed => ~Sending')
  <2>1. HandInOrder' /\ NothingMissing'
    BY <1>4 DEF HandInOrder, NothingMissing, Framed
  <2>2. SentBefore'
    <3>1. LeftBehind' <= LeftBehind /\ LeftBehind' \in Nat /\ LeftBehind \in Nat
      <4>1. LeftBehind' = Pieces * Len(st.q)
        <5>1. Len(worker'.chunk) = 0 /\ Pieces * Len(st.q) \in Nat
          BY <1>4, LeftIsNat DEF OrderInv
        <5> QED
          BY <5>1 DEF LeftBehind
      <4> QED
        BY <4>1, LeftIsNat DEF OrderInv, LeftBehind
    <3>2. \A i \in DOMAIN carried : carried[i].n \in Nat /\ carried[i].n + LeftBehind <= accepted
      BY PiecesSent DEF OrderInv, Order, SentBefore
    <3>3. accepted \in Nat
      BY DEF OrderInv, IsCounted
    <3> QED
      BY <3>1, <3>2, <3>3 DEF SentBefore
  <2> QED
    BY <1>1, <1>2, <2>1, <2>2 DEF OrderInv, Order
<1> QED
  BY <1>3, <1>4

LEMMA HostOrder == OrderInv /\ HostEvent => OrderInv'
<1> SUFFICES ASSUME OrderInv, HostEvent
             PROVE  OrderInv'
  OBVIOUS
<1>1. UNCHANGED <<kind, caller, worker, history>>
  BY DEF HostEvent, Connect, OpenChannel, Unstall, CloseChannel, LoseLink, HostStep, StoreLink,
         StoreFlags, TellCore, Advertise, streamVars
<1>2. /\ st' = [active |-> st.active, endReq |-> st'.endReq, truncated |-> st'.truncated,
                complete |-> st.complete, id |-> st.id, sent |-> st.sent, q |-> st.q]
      /\ spent' = [streams |-> spent.streams, links |-> spent'.links, chans |-> spent'.chans,
                   faults |-> spent.faults]
  BY DEF OrderInv, BleShape, HostEvent, Connect, OpenChannel, Unstall, CloseChannel, LoseLink, HostStep,
         StoreLink, StoreFlags, TellCore, Advertise, streamVars
<1>3. BleShape' /\ spent'.streams \in Nat
  BY <1>1, <1>2 DEF OrderInv, BleShape, IsCounted
<1>4. ActiveIsRunning' /\ ChunkInHand' /\ StartIsEmpty'
  BY <1>1, <1>2 DEF OrderInv, ActiveIsRunning, ChunkInHand, StartIsEmpty, IsRunning, history
<1> QED
  BY <1>1, <1>2, <1>3, <1>4, OrderKept DEF Sending, history

\* The steps of the application that do not queue.
LEMMA CallerOrder ==
  /\ OrderInv
  /\ \/ StartStream \/ JoinVoice \/ CheckPush \/ RefusePush \/ StopTransport
     \/ \E complete \in BOOLEAN : EndStream(complete)
     \/ Announce \/ AnnounceFails \/ CreateFails \/ CoreOpens \/ PushOverflows \/ RequestEnd
  => OrderInv'
<1> SUFFICES ASSUME OrderInv,
                    \/ StartStream \/ JoinVoice \/ CheckPush \/ RefusePush \/ StopTransport
                    \/ \E complete \in BOOLEAN : EndStream(complete)
                    \/ Announce \/ AnnounceFails \/ CreateFails \/ CoreOpens \/ PushOverflows
                    \/ RequestEnd
             PROVE  OrderInv'
  OBVIOUS
<1>1. UNCHANGED <<kind, worker, accepted, carried>>
  BY DEF StartStream, JoinVoice, CheckPush, RefusePush, StopTransport, EndStream, Announce, AnnounceFails,
         CreateFails, CoreOpens, PushOverflows, RequestEnd, streamVars, history
<1>2. st' = [active |-> st.active, endReq |-> st'.endReq, truncated |-> st'.truncated,
             complete |-> st'.complete, id |-> st.id, sent |-> st.sent, q |-> st.q]
  BY DEF OrderInv, BleShape, StartStream, JoinVoice, CheckPush, RefusePush, StopTransport, EndStream, Announce,
         AnnounceFails, CreateFails, CoreOpens, PushOverflows, Overflowed, RequestEnd, Ended, streamVars
<1>3. /\ spent' = [streams |-> spent'.streams, links |-> spent.links, chans |-> spent.chans,
                   faults |-> spent'.faults]
      /\ spent'.streams \in Nat
  <2>1. CASE StartStream
    <3>1. spent' = [streams |-> spent.streams + 1, links |-> spent.links, chans |-> spent.chans,
                    faults |-> spent.faults]
      BY <2>1 DEF OrderInv, BleShape, StartStream
    <3> QED
      BY <3>1 DEF OrderInv, IsCounted
  <2>2. CASE ~StartStream
    BY <2>2 DEF OrderInv, BleShape, IsCounted, JoinVoice, CheckPush, RefusePush, StopTransport, EndStream,
                Announce, AnnounceFails, NotifyFails, CreateFails, Fault, CoreOpens, PushOverflows,
                RequestEnd
  <2> QED
    BY <2>1, <2>2
<1>4. /\ caller' = [pc |-> caller'.pc, tries |-> caller'.tries, complete |-> caller'.complete,
                    last |-> caller'.last]
      /\ caller'.pc \in {"reset", "announce", "create"} =>
           \/ caller'.pc = "reset" /\ ~st.active
           \/ caller'.pc \in {"announce", "create"} /\ caller.pc \in {"announce", "create"}
      /\ caller'.pc # "clear"
  <2>1. CASE StartStream \/ JoinVoice \/ CheckPush \/ RefusePush \/ StopTransport
    BY <2>1 DEF OrderInv, BleShape, StartStream, JoinVoice, CheckPush, RefusePush, MayPush, StopTransport,
                Pushed, CallerGoes, CallerAt, IdleCaller
  <2>2. CASE \E complete \in BOOLEAN : EndStream(complete)
    <3>1. PICK complete \in BOOLEAN : EndStream(complete)
      BY <2>2
    <3> QED
      BY <3>1 DEF EndStream, EndCall, IdleCaller
  <2>3. CASE Announce
    BY <2>3 DEF Announce, CallerAt, OrderInv, BleShape
  <2>4. CASE AnnounceFails
    BY <2>4 DEF AnnounceFails, CallerAt, IdleCaller, OrderInv, BleShape
  <2>5. CASE CreateFails
    BY <2>5 DEF CreateFails, CallerAt, IdleCaller
  <2>6. CASE CoreOpens \/ PushOverflows \/ RequestEnd
    BY <2>6 DEF OrderInv, BleShape, CoreOpens, PushOverflows, RequestEnd, Pushed, CallerGoes, CallerAt, IdleCaller
  <2> QED
    BY <2>1, <2>2, <2>3, <2>4, <2>5, <2>6
<1>5. BleShape'
  BY <1>1, <1>2, <1>3, <1>4 DEF OrderInv, BleShape
<1>6. ActiveIsRunning' /\ ChunkInHand' /\ StartIsEmpty'
  BY <1>1, <1>2, <1>4 DEF OrderInv, ActiveIsRunning, ChunkInHand, StartIsEmpty, IsRunning
<1> QED
  BY <1>1, <1>2, <1>3, <1>5, <1>6, OrderKept DEF Sending

LEMMA ResetOrder == OrderInv /\ ResetStream => OrderInv'
<1> SUFFICES ASSUME OrderInv, ResetStream
             PROVE  OrderInv'
  OBVIOUS
<1>1. /\ UNCHANGED <<kind, worker, accepted, carried, spent>>
      /\ caller.pc = "reset"
      /\ caller' = [pc |-> "clear", tries |-> caller.tries, complete |-> caller.complete,
                    last |-> caller.last]
      /\ st' = [active |-> st.active, endReq |-> FALSE, truncated |-> st.truncated,
                complete |-> st.complete, id |-> st.id, sent |-> 0, q |-> <<>>]
  BY DEF ResetStream, Reset, CallerAt, CallerGoes, OrderInv, BleShape, history
<1>2. worker.pc = "none" /\ worker.chunk = <<>> /\ ~IsRunning
  BY <1>1 DEF OrderInv, StartIsEmpty, ChunkInHand, IsRunning
<1>3. BleShape' /\ IsCounted'
  BY <1>1 DEF OrderInv, BleShape, IsCounted
<1>4. ActiveIsRunning' /\ ChunkInHand' /\ StartIsEmpty'
  BY <1>1, <1>2 DEF OrderInv, ActiveIsRunning, ChunkInHand, StartIsEmpty, IsRunning
<1>5. QueueInOrder' /\ HandInOrder' /\ NothingMissing'
  BY <1>1, <1>2 DEF QueueInOrder, HandInOrder, NothingMissing, Sending
<1>6. SentBefore'
  <2>1. LeftBehind' = 0
    <3>1. Len(worker'.chunk) = 0 /\ Len(st'.q) = 0
      BY <1>1, <1>2
    <3> QED
      BY <3>1, PiecesInNat DEF LeftBehind
  <2>2. LeftBehind \in Nat /\ accepted \in Nat
    BY LeftIsNat DEF OrderInv, IsCounted
  <2>3. \A i \in DOMAIN carried : carried[i].n \in Nat /\ carried[i].n + LeftBehind <= accepted
    BY PiecesSent DEF OrderInv, Order, SentBefore
  <2> QED
    BY <1>1, <2>1, <2>2, <2>3 DEF SentBefore
<1>7. OwnDataInOrder'
  BY <1>1 DEF OrderInv, OwnDataInOrder, Framed
<1> QED
  BY <1>3, <1>4, <1>5, <1>6, <1>7 DEF OrderInv, Order

LEMMA ClearOrder == OrderInv /\ ClearFlags => OrderInv'
<1> SUFFICES ASSUME OrderInv, ClearFlags
             PROVE  OrderInv'
  OBVIOUS
<1>1. /\ UNCHANGED <<kind, worker, spent>> /\ accepted' = 0 /\ carried' = <<>>
      /\ caller.pc = "clear"
      /\ caller' = [pc |-> IF Framed THEN "announce" ELSE "create", tries |-> caller.tries,
                    complete |-> caller.complete, last |-> "none"]
      /\ st' = [active |-> st.active, endReq |-> st.endReq, truncated |-> FALSE,
                complete |-> TRUE, id |-> spent.streams, sent |-> st.sent, q |-> st.q]
  BY DEF ClearFlags, CallerAt, OrderInv, BleShape
<1>2. worker.pc = "none" /\ worker.chunk = <<>> /\ st.q = <<>> /\ ~IsRunning
  BY <1>1 DEF OrderInv, StartIsEmpty, ChunkInHand, IsRunning
<1>3. BleShape' /\ IsCounted'
  BY <1>1 DEF OrderInv, BleShape, IsCounted
<1>4. ActiveIsRunning' /\ ChunkInHand' /\ StartIsEmpty'
  BY <1>1, <1>2 DEF OrderInv, ActiveIsRunning, ChunkInHand, StartIsEmpty, IsRunning
<1>5. Order' /\ OwnDataInOrder'
  BY <1>1, <1>2 DEF Order, QueueInOrder, HandInOrder, SentBefore, NothingMissing, Sending, OwnDataInOrder
<1> QED
  BY <1>3, <1>4, <1>5 DEF OrderInv

LEMMA CreateOrder == OrderInv /\ CreateWorker => OrderInv'
<1> SUFFICES ASSUME OrderInv, CreateWorker
             PROVE  OrderInv'
  OBVIOUS
<1>1. /\ UNCHANGED <<kind, spent, accepted, carried>>
      /\ caller.pc = "create"
      /\ caller' = [pc |-> "opened", tries |-> caller.tries, complete |-> caller.complete,
                    last |-> caller.last]
      /\ st' = [active |-> TRUE, endReq |-> st.endReq, truncated |-> st.truncated,
                complete |-> st.complete, id |-> st.id, sent |-> st.sent, q |-> st.q]
      /\ worker' = [pc |-> "look", end |-> FALSE, chunk |-> <<>>]
  BY DEF CreateWorker, CallerAt, CallerGoes, NoWorker, OrderInv, BleShape, history
<1>2. st.q = <<>> /\ carried = <<>> /\ accepted = 0
  BY <1>1 DEF OrderInv, StartIsEmpty
<1>3. BleShape' /\ IsCounted'
  BY <1>1 DEF OrderInv, BleShape, IsCounted
<1>4. ActiveIsRunning' /\ ChunkInHand' /\ StartIsEmpty'
  BY <1>1 DEF ActiveIsRunning, ChunkInHand, StartIsEmpty, IsRunning
<1>5. QueueInOrder' /\ HandInOrder' /\ SentBefore' /\ OwnDataInOrder'
  BY <1>1, <1>2 DEF QueueInOrder, HandInOrder, SentBefore, OwnDataInOrder
<1>6. NothingMissing'
  <2>1. Len(worker'.chunk) = 0 /\ Len(st'.q) = 0 /\ Len(carried') = 0 /\ accepted' = 0
    BY <1>1, <1>2
  <2>2. LeftBehind' = 0
    BY <2>1, PiecesInNat DEF LeftBehind
  <2> QED
    BY <2>1, <2>2 DEF NothingMissing
<1> QED
  BY <1>3, <1>4, <1>5, <1>6 DEF OrderInv, Order

\* Every place counted from the end moves by what is queued.
LEMMA PushOrder == OrderInv /\ Push => OrderInv'
<1> SUFFICES ASSUME OrderInv, Push
             PROVE  OrderInv'
  OBVIOUS
<1> DEFINE q == st.q
           l == Len(q)
<1>1. /\ UNCHANGED <<kind, spent, worker, carried>>
      /\ caller.pc = "push"
      /\ caller' = [pc |-> "idle", tries |-> caller'.tries, complete |-> caller'.complete,
                    last |-> caller'.last]
      /\ st' = [active |-> st.active, endReq |-> st.endReq, truncated |-> st.truncated,
                complete |-> st.complete, id |-> st.id, sent |-> st.sent, q |-> Append(q, Chunk)]
      /\ accepted' = accepted + Pieces
  BY DEF Push, Pushed, IdleCaller, CallerAt, OrderInv, BleShape
<1>2. accepted \in Nat /\ q \in Seq(Chunks) /\ l \in Nat /\ st.id \in Nat
  BY DEF OrderInv, IsCounted
<1>3. Chunk \in Chunks
  BY <1>2, PiecesInNat DEF Chunk, Chunks, Piece
<1>4. /\ Append(q, Chunk) \in Seq(Chunks) /\ Len(Append(q, Chunk)) = l + 1
      /\ DOMAIN Append(q, Chunk) = 1..(l + 1)
      /\ Append(q, Chunk)[l + 1] = Chunk
      /\ \A k \in 1..l : Append(q, Chunk)[k] = q[k]
      /\ DOMAIN q = 1..l
  BY <1>2, <1>3
<1>5. BleShape' /\ IsCounted'
  BY <1>1, <1>2, <1>4, PiecesInNat DEF OrderInv, BleShape, IsCounted
<1>6. ActiveIsRunning' /\ ChunkInHand' /\ StartIsEmpty'
  BY <1>1 DEF OrderInv, ActiveIsRunning, ChunkInHand, StartIsEmpty, IsRunning
<1>7. LeftBehind' = LeftBehind + Pieces /\ LeftBehind \in Nat
  <2>1. Pieces * (l + 1) = Pieces * l + Pieces /\ Pieces * l \in Nat
    BY <1>2, PiecesInNat, Times
  <2>2. Len(worker.chunk) \in Nat /\ LeftBehind \in Nat
    BY LeftIsNat DEF OrderInv
  <2>3. LeftBehind = Len(worker.chunk) + Pieces * l
    BY DEF LeftBehind
  <2>4. LeftBehind' = Len(worker.chunk) + Pieces * (l + 1)
    BY <1>1, <1>4 DEF LeftBehind
  <2> DEFINE before == Pieces * l
             after == Pieces * (l + 1)
             held == Len(worker.chunk)
  <2>5. /\ held \in Nat /\ before \in Nat /\ after = before + Pieces
        /\ LeftBehind = held + before /\ LeftBehind' = held + after
    BY <2>1, <2>2, <2>3, <2>4
  <2> HIDE DEF before, after, held
  <2>6. held + (before + Pieces) = (held + before) + Pieces
    BY <2>5, PiecesInNat
  <2> QED
    BY <2>2, <2>5, <2>6
<1>8. QueueInOrder'
  <2> SUFFICES ASSUME NEW k \in 1..(l + 1), NEW j \in 1..Pieces
               PROVE  /\ Append(q, Chunk)[k][j].id = st.id
                      /\ Append(q, Chunk)[k][j].n + Pieces * ((l + 1) - k + 1) = accepted + Pieces + j
    BY <1>1, <1>4 DEF QueueInOrder
  <2>1. CASE k = l + 1
    <3>1. Append(q, Chunk)[k][j] = [id |-> st.id, n |-> accepted + j]
      BY <1>4, <2>1 DEF Chunk
    <3>2. (l + 1) - k + 1 = 1 /\ Pieces * 1 = Pieces
      BY <1>2, <2>1, PiecesInNat
    <3> DEFINE piece == Append(q, Chunk)[k][j]
    <3>3. piece.id = st.id /\ piece.n = accepted + j
      BY <3>1
    <3> HIDE DEF piece, q, l
    <3>4. piece.n + Pieces * ((l + 1) - k + 1) = accepted + Pieces + j
      BY <1>2, <3>2, <3>3, PiecesInNat
    <3> QED
      BY <3>3, <3>4 DEF piece
  <2>2. CASE k \in 1..l
    <3>1. q[k] \in Chunks
      BY <1>2, <1>4, <2>2
    <3>2. q[k][j] \in Piece
      BY <3>1 DEF Chunks
    <3>3. q[k][j].n \in Nat /\ q[k][j].id = st.id /\ q[k][j].n + Pieces * (l - k + 1) = accepted + j
      BY <1>4, <2>2, <3>2 DEF OrderInv, Order, QueueInOrder, Piece
    <3>4. (l + 1) - k + 1 = (l - k + 1) + 1 /\ l - k + 1 \in Nat
      BY <1>2, <2>2
    <3>5. /\ Pieces * ((l - k + 1) + 1) = Pieces * (l - k + 1) + Pieces
          /\ Pieces * (l - k + 1) \in Nat
      BY <3>4, PiecesInNat, Times
    <3>6. Append(q, Chunk)[k] = q[k]
      BY <1>4, <2>2
    <3> HIDE DEF q, l
    <3> QED
      BY <1>2, <3>3, <3>4, <3>5, <3>6, PiecesInNat
  <2> QED
    BY <1>2, <2>1, <2>2
<1>9. HandInOrder'
  <2> SUFFICES ASSUME NEW j \in DOMAIN worker.chunk
               PROVE  /\ worker.chunk[j].id = st.id
                      /\ worker.chunk[j].n + (LeftBehind + Pieces) = accepted + Pieces + j
    BY <1>1, <1>7 DEF HandInOrder
  <2>1. j \in Nat /\ worker.chunk[j] \in Piece
    BY DEF OrderInv, IsCounted
  <2>2. worker.chunk[j].n \in Nat /\ worker.chunk[j].id = st.id
        /\ worker.chunk[j].n + LeftBehind = accepted + j
    BY <2>1 DEF OrderInv, Order, HandInOrder, Piece
  <2> QED
    BY <1>2, <1>7, <2>1, <2>2, PiecesInNat
<1>10. SentBefore'
  <2>1. \A i \in DOMAIN carried : carried[i].n \in Nat /\ carried[i].n + LeftBehind <= accepted
    BY PiecesSent DEF OrderInv, Order, SentBefore
  <2> QED
    BY <1>1, <1>2, <1>7, <2>1, PiecesInNat DEF SentBefore
<1>11. NothingMissing'
  <2>1. Framed /\ Sending => Len(carried) + LeftBehind = accepted
    BY DEF OrderInv, Order, NothingMissing
  <2>2. Len(carried) \in Nat
    BY LeftIsNat DEF OrderInv
  <2> QED
    BY <1>1, <1>2, <1>7, <2>1, <2>2, PiecesInNat DEF NothingMissing, Framed, Sending
<1>12. OwnDataInOrder'
  BY <1>1 DEF OrderInv, OwnDataInOrder, Framed
<1> QED
  BY <1>5, <1>6, <1>8, <1>9, <1>10, <1>11, <1>12 DEF OrderInv, Order

----------------------------------------------------------------------------
(* The worker.                                                             *)

\* What a step of the worker knows of the records it starts from.
LEMMA OrderFacts ==
  ASSUME OrderInv
  PROVE  /\ st = [active |-> st.active, endReq |-> st.endReq, truncated |-> st.truncated,
                  complete |-> st.complete, id |-> st.id, sent |-> st.sent, q |-> st.q]
         /\ worker = [pc |-> worker.pc, end |-> worker.end, chunk |-> worker.chunk]
         /\ spent = [streams |-> spent.streams, links |-> spent.links, chans |-> spent.chans,
                     faults |-> spent.faults]
         /\ spent.streams \in Nat
  BY DEF OrderInv, BleShape, IsCounted

\* What the application has done is not touched by a worker that goes on.
LEMMA WorkerKeeps ==
  ASSUME OrderInv, WorkerOnly, IsRunning, worker'.pc # "none",
         st' = [active |-> st.active, endReq |-> st'.endReq, truncated |-> st'.truncated,
                complete |-> st.complete, id |-> st.id, sent |-> st'.sent, q |-> st'.q],
         worker' = [pc |-> worker'.pc, end |-> worker'.end, chunk |-> worker'.chunk],
         spent' = [streams |-> spent.streams, links |-> spent.links, chans |-> spent.chans,
                   faults |-> spent'.faults]
  PROVE  BleShape' /\ ActiveIsRunning' /\ StartIsEmpty' /\ spent'.streams \in Nat
<1>1. BleShape' /\ spent'.streams \in Nat
  BY DEF OrderInv, BleShape, IsCounted, WorkerOnly
<1>2. ActiveIsRunning' /\ StartIsEmpty'
  BY DEF OrderInv, ActiveIsRunning, StartIsEmpty, IsRunning, WorkerOnly
<1> QED
  BY <1>1, <1>2

\* It looks for work, finds none, waits, reports or gives up: nothing moves.
LEMMA WorkerWaitsOrder ==
  /\ OrderInv
  /\ \/ Look \/ FindEmpty \/ CheckChannel \/ NoBuffer \/ RetrySend \/ MarkStalled
     \/ SeeLinkDown \/ GiveUp \/ AbortSend \/ VoiceFails \/ Report \/ ReportFails
  => OrderInv'
<1> SUFFICES ASSUME OrderInv,
                    \/ Look \/ FindEmpty \/ CheckChannel \/ NoBuffer \/ RetrySend \/ MarkStalled
                    \/ SeeLinkDown \/ GiveUp \/ AbortSend \/ VoiceFails \/ Report \/ ReportFails
             PROVE  OrderInv'
  OBVIOUS
<1> USE OrderFacts
<1>0. /\ worker.pc \in {"look", "pop", "close", "stop"} => worker.chunk = <<>>
      /\ worker.pc \in {"slice", "submit", "failed"} => worker.chunk # <<>>
  BY DEF OrderInv, ChunkInHand
<1>1. /\ WorkerOnly /\ carried' = carried
      /\ worker.pc \in {"look", "pop", "slice", "submit", "failed", "mark", "close"}
      /\ st' = [active |-> st.active, endReq |-> st'.endReq, truncated |-> st'.truncated,
                complete |-> st.complete, id |-> st.id, sent |-> st.sent, q |-> st.q]
      /\ worker' = [pc |-> worker'.pc, end |-> worker'.end, chunk |-> worker'.chunk]
      /\ \/ worker'.chunk = worker.chunk /\ worker'.pc \in {"pop", "look"} /\ worker.chunk = <<>>
              /\ worker.pc \in {"look", "pop", "mark"}
         \/ worker'.chunk = worker.chunk /\ worker'.pc \in {"slice", "submit", "failed"}
              /\ worker.chunk # <<>> /\ worker.pc \in {"slice", "submit", "failed", "mark"}
         \/ worker'.chunk = <<>> /\ worker'.pc \in {"close", "stop"}
         \/ worker'.chunk = <<>> /\ worker'.pc = "look" /\ ~Framed
  <2>1. CASE Look
    BY <1>0, <2>1 DEF Look, On
  <2>2. CASE FindEmpty
    BY <1>0, <2>2 DEF FindEmpty, On, AfterEmpty, Leaves, NoWorker
  <2>3. CASE CheckChannel
    BY <1>0, <2>3 DEF CheckChannel, InSlice, On, Turns
  <2>4. CASE NoBuffer \/ RetrySend
    BY <1>0, <2>4 DEF NoBuffer, RetrySend, On, Turns
  <2>5. CASE MarkStalled
    BY <2>5 DEF MarkStalled, On, Turns
  <2>6. CASE SeeLinkDown \/ GiveUp \/ AbortSend
    BY <2>6 DEF SeeLinkDown, GiveUp, AbortSend, WaitEnds, InSlice, On, Abort, Leaves, NoWorker
  <2>7. CASE VoiceFails
    BY <2>7 DEF VoiceFails, On
  <2>8. CASE Report \/ ReportFails
    BY <1>0, <2>8 DEF Report, ReportFails, On, Turns
  <2> QED
    BY <2>1, <2>2, <2>3, <2>4, <2>5, <2>6, <2>7, <2>8
<1>2. spent' = [streams |-> spent.streams, links |-> spent.links, chans |-> spent.chans,
                faults |-> spent'.faults]
  BY DEF Look, FindEmpty, CheckChannel, NoBuffer, RetrySend, MarkStalled, SeeLinkDown, GiveUp, AbortSend,
         VoiceFails, NotifyFails, Report, ReportFails, Fault
<1>3. IsRunning /\ worker'.pc # "none"
  BY <1>1 DEF IsRunning
<1>4. BleShape' /\ ActiveIsRunning' /\ StartIsEmpty' /\ spent'.streams \in Nat
  BY <1>1, <1>2, <1>3, WorkerKeeps
<1>5. ChunkInHand'
  BY <1>1 DEF ChunkInHand
<1>6. /\ worker'.chunk = worker.chunk \/ (worker'.chunk = <<>> /\ (Framed => ~Sending'))
      /\ Sending' => Sending \/ ~Framed
  BY <1>1 DEF Sending
<1>7. kind' = kind /\ accepted' = accepted /\ st'.q = st.q /\ st'.id = st.id
  BY <1>1 DEF WorkerOnly
<1> QED
  BY <1>1, <1>4, <1>5, <1>6, <1>7, OrderKept

LEMMA StopWorkerOrder == OrderInv /\ StopWorker => OrderInv'
<1> SUFFICES ASSUME OrderInv, StopWorker
             PROVE  OrderInv'
  OBVIOUS
<1> USE OrderFacts
<1>1. /\ WorkerOnly /\ carried' = carried /\ spent' = spent
      /\ worker' = [pc |-> "none", end |-> FALSE, chunk |-> <<>>]
      /\ st' = [active |-> FALSE, endReq |-> st.endReq, truncated |-> st.truncated,
                complete |-> st.complete, id |-> st.id, sent |-> st.sent, q |-> st.q]
  BY DEF StopWorker, On, NoWorker
<1>2. BleShape' /\ spent'.streams \in Nat
  BY <1>1 DEF OrderInv, BleShape, WorkerOnly
<1>3. ActiveIsRunning' /\ ChunkInHand' /\ StartIsEmpty'
  BY <1>1 DEF OrderInv, ActiveIsRunning, ChunkInHand, StartIsEmpty, IsRunning, WorkerOnly
<1>4. kind' = kind /\ accepted' = accepted /\ st'.q = st.q /\ st'.id = st.id /\ ~Sending'
  BY <1>1 DEF WorkerOnly, Sending
<1> QED
  BY <1>1, <1>2, <1>3, <1>4, OrderKept

\* The chunk that was first in the queue is the one in hand.
LEMMA PopOrder == OrderInv /\ Pop => OrderInv'
<1> SUFFICES ASSUME OrderInv, Pop
             PROVE  OrderInv'
  OBVIOUS
<1> USE OrderFacts
<1> DEFINE q == st.q
           l == Len(q)
<1>1. /\ WorkerOnly /\ carried' = carried /\ spent' = spent
      /\ worker.pc = "pop" /\ q # <<>>
      /\ worker' = [pc |-> "slice", end |-> FALSE, chunk |-> Head(q)]
      /\ st' = [active |-> st.active, endReq |-> st.endReq, truncated |-> st.truncated,
                complete |-> st.complete, id |-> st.id, sent |-> st.sent, q |-> Tail(q)]
  BY DEF Pop, Popped, On, NoWorker
<1>2. accepted \in Nat /\ q \in Seq(Chunks) /\ st.id \in Nat /\ carried \in Seq(Piece)
  BY DEF OrderInv, IsCounted
<1>3. /\ Head(q) = q[1] /\ Head(q) \in Chunks /\ l \in Nat /\ l >= 1
      /\ Tail(q) \in Seq(Chunks) /\ Len(Tail(q)) = l - 1 /\ DOMAIN q = 1..l
      /\ DOMAIN Tail(q) = 1..(l - 1)
      /\ \A k \in 1..(l - 1) : Tail(q)[k] = q[k + 1]
  BY <1>1, <1>2
<1>4. /\ Head(q) \in Seq(Piece) /\ Len(Head(q)) = Pieces /\ Head(q) # <<>>
      /\ DOMAIN Head(q) = 1..Pieces
  BY <1>3, ChunkLength DEF Chunks
<1>5. worker.chunk = <<>>
  BY <1>1 DEF OrderInv, ChunkInHand
<1>6. IsRunning /\ worker'.pc # "none"
  BY <1>1 DEF IsRunning
<1>7. BleShape' /\ ActiveIsRunning' /\ StartIsEmpty' /\ spent'.streams \in Nat
  <2>1. /\ st' = [active |-> st.active, endReq |-> st'.endReq, truncated |-> st'.truncated,
                  complete |-> st.complete, id |-> st.id, sent |-> st'.sent, q |-> st'.q]
        /\ worker' = [pc |-> worker'.pc, end |-> worker'.end, chunk |-> worker'.chunk]
        /\ spent' = [streams |-> spent.streams, links |-> spent.links, chans |-> spent.chans,
                     faults |-> spent'.faults]
    BY <1>1
  <2> QED
    BY <1>1, <1>6, <2>1, WorkerKeeps
<1>8. ChunkInHand'
  BY <1>1, <1>4 DEF ChunkInHand
<1>9. IsCounted'
  BY <1>1, <1>2, <1>3, <1>4 DEF IsCounted, WorkerOnly
<1>10. LeftBehind' = LeftBehind /\ LeftBehind = Pieces * l /\ LeftBehind \in Nat
  <2>1. Pieces * ((l - 1) + 1) = Pieces * (l - 1) + Pieces /\ Pieces * (l - 1) \in Nat
    <3>1. l - 1 \in Nat
      BY <1>3
    <3> QED
      BY <3>1, PiecesInNat, Times
  <2>2. (l - 1) + 1 = l
    BY <1>3
  <2>3. Len(worker.chunk) = 0
    BY <1>5
  <2>4. LeftBehind' = Pieces + Pieces * (l - 1)
    BY <1>1, <1>3, <1>4 DEF LeftBehind
  <2>5. LeftBehind = 0 + Pieces * l
    BY <2>3 DEF LeftBehind
  <2> HIDE DEF l
  <2> QED
    BY <2>1, <2>2, <2>4, <2>5, PiecesInNat
<1>11. QueueInOrder'
  <2> SUFFICES ASSUME NEW k \in 1..(l - 1), NEW j \in 1..Pieces
               PROVE  /\ Tail(q)[k][j].id = st.id
                      /\ Tail(q)[k][j].n + Pieces * ((l - 1) - k + 1) = accepted + j
    BY <1>1, <1>3 DEF QueueInOrder, WorkerOnly
  <2>1. k + 1 \in 1..l /\ Tail(q)[k] = q[k + 1] /\ l - (k + 1) + 1 = (l - 1) - k + 1
    BY <1>3
  <2>2. q[k + 1][j].id = st.id /\ q[k + 1][j].n + Pieces * (l - (k + 1) + 1) = accepted + j
    BY <1>3, <2>1 DEF OrderInv, Order, QueueInOrder
  <2> HIDE DEF q, l
  <2> QED
    BY <2>1, <2>2
<1>12. HandInOrder'
  <2> SUFFICES ASSUME NEW j \in 1..Pieces
               PROVE  q[1][j].id = st.id /\ q[1][j].n + LeftBehind = accepted + j
    BY <1>1, <1>3, <1>4, <1>10 DEF HandInOrder, WorkerOnly
  <2>1. 1 \in 1..l /\ l - 1 + 1 = l
    BY <1>3
  <2>2. q[1][j].id = st.id /\ q[1][j].n + Pieces * (l - 1 + 1) = accepted + j
    BY <1>3, <2>1 DEF OrderInv, Order, QueueInOrder
  <2> HIDE DEF q, l
  <2> QED
    BY <1>10, <2>1, <2>2
<1>13. SentBefore'
  BY <1>1, <1>10 DEF OrderInv, Order, SentBefore, WorkerOnly
<1>14. NothingMissing'
  BY <1>1, <1>10 DEF OrderInv, Order, NothingMissing, Framed, Sending, WorkerOnly
<1>15. OwnDataInOrder'
  BY <1>1 DEF OrderInv, OwnDataInOrder, Framed, WorkerOnly
<1> QED
  BY <1>7, <1>8, <1>9, <1>11, <1>12, <1>13, <1>14, <1>15 DEF OrderInv, Order

\* NimBLE takes the first piece of what is left: it is the next one.
LEMMA SendOrder == OrderInv /\ (Submit \/ SendVoice) => OrderInv'
<1> SUFFICES ASSUME OrderInv, Submit \/ SendVoice
             PROVE  OrderInv'
  OBVIOUS
<1> USE OrderFacts
<1> DEFINE c == worker.chunk
           n == Len(c)
           w == Len(carried)
           p == Head(c)
<1>1. /\ WorkerOnly /\ spent' = spent
      /\ worker.pc \in {"slice", "submit"}
      /\ carried' = Append(carried, p)
      /\ worker' = [pc |-> worker'.pc, end |-> worker.end, chunk |-> Tail(c)]
      /\ \/ worker'.pc = "mark"
         \/ worker'.pc = "look" /\ Tail(c) = <<>>
         \/ worker'.pc = "slice" /\ Tail(c) # <<>>
      /\ st' = [active |-> st.active, endReq |-> st.endReq, truncated |-> st.truncated,
                complete |-> st.complete, id |-> st.id, sent |-> st'.sent, q |-> st.q]
  <2>1. CASE Submit
    BY <2>1 DEF Submit, On, TakePiece, AfterPiece
  <2>2. CASE SendVoice
    BY <2>2 DEF SendVoice, On, TakePiece, AfterPiece
  <2> QED
    BY <2>1, <2>2
<1>2. c # <<>>
  BY <1>1 DEF OrderInv, ChunkInHand
<1>3. accepted \in Nat /\ c \in Seq(Piece) /\ st.id \in Nat /\ carried \in Seq(Piece) /\ st.q \in Seq(Chunks)
  BY DEF OrderInv, IsCounted
<1>4. /\ p = c[1] /\ p \in Piece /\ n \in Nat /\ n >= 1 /\ DOMAIN c = 1..n
      /\ Tail(c) \in Seq(Piece) /\ Len(Tail(c)) = n - 1 /\ DOMAIN Tail(c) = 1..(n - 1)
      /\ \A j \in 1..(n - 1) : Tail(c)[j] = c[j + 1]
  BY <1>2, <1>3
<1>5. /\ Append(carried, p) \in Seq(Piece) /\ w \in Nat /\ Len(Append(carried, p)) = w + 1
      /\ DOMAIN carried = 1..w /\ DOMAIN Append(carried, p) = 1..(w + 1)
      /\ Append(carried, p)[w + 1] = p
      /\ \A i \in 1..w : Append(carried, p)[i] = carried[i]
  BY <1>3, <1>4
<1>6. IsRunning /\ worker'.pc # "none"
  BY <1>1 DEF IsRunning
<1>7. BleShape' /\ ActiveIsRunning' /\ StartIsEmpty' /\ spent'.streams \in Nat
  <2>1. /\ st' = [active |-> st.active, endReq |-> st'.endReq, truncated |-> st'.truncated,
                  complete |-> st.complete, id |-> st.id, sent |-> st'.sent, q |-> st'.q]
        /\ worker' = [pc |-> worker'.pc, end |-> worker'.end, chunk |-> worker'.chunk]
        /\ spent' = [streams |-> spent.streams, links |-> spent.links, chans |-> spent.chans,
                     faults |-> spent'.faults]
    BY <1>1
  <2> QED
    BY <1>1, <1>6, <2>1, WorkerKeeps
<1>8. ChunkInHand'
  <2>1. /\ worker'.chunk = Tail(c)
        /\ \/ worker'.pc = "mark"
           \/ worker'.pc = "look" /\ Tail(c) = <<>>
           \/ worker'.pc = "slice" /\ Tail(c) # <<>>
    BY <1>1
  <2> HIDE DEF c
  <2> QED
    BY <2>1, Zenon DEF ChunkInHand
<1>9. IsCounted'
  <2>1. st'.id = st.id /\ st'.q = st.q /\ accepted' = accepted /\ worker'.chunk = Tail(c)
    BY <1>1 DEF WorkerOnly
  <2>2. carried' = Append(carried, p) /\ spent'.streams \in Nat
    BY <1>1
  <2> HIDE DEF c, p
  <2> QED
    BY <1>3, <1>4, <1>5, <2>1, <2>2, Zenon DEF IsCounted
<1>10. LeftBehind = LeftBehind' + 1 /\ LeftBehind' \in Nat
  <2>1. Pieces * Len(st.q) \in Nat
    BY LeftIsNat DEF OrderInv
  <2>2. LeftBehind = n + Pieces * Len(st.q)
    BY DEF LeftBehind
  <2>3. LeftBehind' = (n - 1) + Pieces * Len(st.q)
    BY <1>1, <1>4 DEF LeftBehind
  <2> HIDE DEF n, c
  <2> QED
    BY <1>4, <2>1, <2>2, <2>3
<1>11. QueueInOrder'
  BY <1>1 DEF OrderInv, Order, QueueInOrder, WorkerOnly
<1>12. HandInOrder'
  <2> SUFFICES ASSUME NEW j \in 1..(n - 1)
               PROVE  /\ Tail(c)[j].id = st.id
                      /\ Tail(c)[j].n + LeftBehind' = accepted + j
    BY <1>1, <1>4 DEF HandInOrder, WorkerOnly
  <2>1. j + 1 \in DOMAIN c /\ Tail(c)[j] = c[j + 1] /\ c[j + 1] \in Piece
    BY <1>3, <1>4
  <2>2. c[j + 1].n \in Nat /\ c[j + 1].id = st.id /\ c[j + 1].n + LeftBehind = accepted + (j + 1)
    BY <2>1 DEF OrderInv, Order, HandInOrder, Piece
  <2> DEFINE piece == c[j + 1]
  <2>3. piece.n \in Nat /\ piece.n + LeftBehind = accepted + (j + 1) /\ j \in Nat
    BY <2>2
  <2> HIDE DEF piece
  <2>4. piece.n + LeftBehind' = accepted + j
    BY <1>3, <1>10, <2>3
  <2> QED
    BY <2>1, <2>2, <2>4 DEF piece
<1>13. p.n \in Nat /\ p.id = st.id /\ p.n + LeftBehind' = accepted
  <2>1. 1 \in DOMAIN c
    BY <1>4
  <2>2. p.id = st.id /\ p.n + LeftBehind = accepted + 1
    BY <1>4, <2>1 DEF OrderInv, Order, HandInOrder
  <2>3. p.n \in Nat
    BY <1>4 DEF Piece
  <2> HIDE DEF p
  <2> QED
    BY <1>3, <1>10, <2>2, <2>3
<1>14. \A i \in 1..w : carried[i].n \in Nat /\ carried[i].n + LeftBehind <= accepted
  BY <1>5, PiecesSent DEF OrderInv, Order, SentBefore
<1>15. SentBefore'
  <2> SUFFICES ASSUME NEW i \in 1..(w + 1)
               PROVE  Append(carried, p)[i].n + LeftBehind' <= accepted
    BY <1>1, <1>5 DEF SentBefore, WorkerOnly
  <2>1. CASE i = w + 1
    BY <1>3, <1>5, <1>10, <1>13, <2>1
  <2>2. CASE i \in 1..w
    <3>1. Append(carried, p)[i] = carried[i]
      BY <1>5, <2>2
    <3>2. carried[i].n \in Nat /\ carried[i].n + LeftBehind <= accepted
      BY <1>14, <2>2
    <3> QED
      BY <1>3, <1>10, <3>1, <3>2
  <2> QED
    BY <1>5, <2>1, <2>2
<1>16. Framed => w + LeftBehind = accepted
  BY <1>1 DEF OrderInv, Order, NothingMissing, Sending
<1>17. NothingMissing'
  <2>1. Framed' => Framed
    BY <1>1 DEF Framed, WorkerOnly
  <2>2. accepted' = accepted /\ Len(carried') = w + 1
    BY <1>1, <1>5 DEF WorkerOnly
  <2> QED
    BY <1>3, <1>5, <1>10, <1>16, <2>1, <2>2 DEF NothingMissing
<1>18. OwnDataInOrder'
  <2> SUFFICES ASSUME NEW i \in 1..(w + 1)
               PROVE  LET v == Append(carried, p)
                      IN /\ v[i].id = st.id
                         /\ Framed => v[i].n = i
                         /\ i > 1 => v[i].n > v[i - 1].n
    BY <1>1, <1>5 DEF OwnDataInOrder, Framed, WorkerOnly
  <2>1. CASE i = w + 1
    <3>1. Append(carried, p)[i] = p
      BY <1>5, <2>1
    <3>2. Framed => p.n = i
      BY <1>3, <1>5, <1>10, <1>13, <1>16, <2>1
    <3>3. ASSUME i > 1
          PROVE  p.n > Append(carried, p)[i - 1].n
      <4>1. i - 1 = w /\ w \in 1..w
        BY <1>5, <2>1, <3>3
      <4>2. Append(carried, p)[i - 1] = carried[w]
        BY <1>5, <4>1
      <4>3. carried[w].n \in Nat /\ carried[w].n + LeftBehind <= accepted
        BY <1>14, <4>1
      <4> DEFINE last == carried[w].n
      <4> HIDE DEF p, last
      <4>4. p.n > last
        BY <1>3, <1>10, <1>13, <4>3 DEF last
      <4> QED
        BY <4>2, <4>4 DEF last
    <3> QED
      BY <1>13, <3>1, <3>2, <3>3
  <2>2. CASE i \in 1..w
    <3>1. /\ carried[i].id = st.id
          /\ Framed => carried[i].n = i
          /\ i > 1 => carried[i].n > carried[i - 1].n
      BY <1>5, <2>2 DEF OrderInv, OwnDataInOrder
    <3>2. /\ Append(carried, p)[i] = carried[i]
          /\ i > 1 => Append(carried, p)[i - 1] = carried[i - 1]
      BY <1>5, <2>2
    <3> QED
      BY <3>1, <3>2
  <2> QED
    BY <1>5, <2>1, <2>2
<1> QED
  BY <1>7, <1>8, <1>9, <1>11, <1>12, <1>15, <1>17, <1>18 DEF OrderInv, Order

LEMMA SubmitNothingOrder == OrderInv /\ SubmitNothing => OrderInv'
<1>1. OrderInv /\ SubmitNothing => EmptyStart'
  BY OrderFacts DEF SubmitNothing, EmptyStart
<1>2. EmptyStart => OrderInv
  BY EmptyIsOrdered
<1> QED
  BY <1>1, <1>2, PTL

LEMMA NextOrder == OrderInv /\ [BleNext]_bleVars => OrderInv'
<1> SUFFICES ASSUME OrderInv, [BleNext]_bleVars
             PROVE  OrderInv'
  OBVIOUS
<1>1. CASE HostEvent
  BY <1>1, HostOrder
<1>2. CASE Call \/ CallGoesOn
  BY <1>2, CallerOrder, ResetOrder, ClearOrder, CreateOrder, PushOrder DEF Call, CallGoesOn
<1>3. CASE StreamWorker
  BY <1>3, WorkerWaitsOrder, StopWorkerOrder, PopOrder, SendOrder, SubmitNothingOrder DEF StreamWorker
<1>4. CASE UNCHANGED bleVars
  <2>1. UNCHANGED <<kind, st, caller, worker, accepted, carried, spent>>
    BY <1>4 DEF bleVars, history
  <2>2. BleShape' /\ spent'.streams \in Nat
    BY <2>1 DEF OrderInv, BleShape, IsCounted
  <2>3. ActiveIsRunning' /\ ChunkInHand' /\ StartIsEmpty'
    BY <2>1 DEF OrderInv, ActiveIsRunning, ChunkInHand, StartIsEmpty, IsRunning
  <2> QED
    BY <2>1, <2>2, <2>3, OrderKept DEF Sending
<1> QED
  BY <1>1, <1>2, <1>3, <1>4 DEF BleNext

\* A stream of any kind carries its own data in the order in which it was
\* accepted, whatever fails and whenever the link or the channel goes.
THEOREM DataIsInOrder == BleSpec => []OwnDataInOrder
<1>1. BleInit => OrderInv
  BY EmptyIsOrdered DEF BleInit, EmptyStart
<1>2. OrderInv /\ [BleNext]_bleVars => OrderInv'
  BY NextOrder
<1>3. OrderInv => OwnDataInOrder
  BY DEF OrderInv
<1> QED
  BY <1>1, <1>2, <1>3, PTL DEF BleSpec
=============================================================================
