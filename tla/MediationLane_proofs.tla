------------------------ MODULE MediationLane_proofs ------------------------
(***************************************************************************)
(* What MediationLane promises, for every set of connections, cases and    *)
(* requests and for every value of the bounds.                             *)
(*                                                                         *)
(* The argument has three layers.  The shapes say, for each variable, what *)
(* a step may do to it and because of what: a transaction starts, ends or  *)
(* is dropped, a lane is started, goes on or ends.  LaneInv ties the       *)
(* queue, the lanes and the connections to each other for any device.      *)
(* SnapInv and ToldInv say that every state a restart may find agrees with *)
(* what somebody was told; they need a device that leaves a connection     *)
(* before its next one says hello (Orderly), and the second one a device   *)
(* that never sends a request again (~Resends).                            *)
(***************************************************************************)
EXTENDS MediationLane, SequenceTheorems, NaturalsInduction, WellFoundedInduction, TLAPS

----------------------------------------------------------------------------
(* What is persisted.                                                      *)

\* The request waits to be played, or was played.
Served(snap, r) == IsPendingIn(snap, r) \/ Played(r) \in snap.acks

\* It, or one that was made later.
ServedFrom(snap, r) == \E n \in Requests : n >= r /\ Served(snap, n)

\* Every request that is acknowledged is of the case, and is served or gave way to a
\* later one; what is served was acknowledged; what waits was not played.
SnapOK(snap, made) ==
  /\ \A r \in Requests : Req(r) \in snap.acks =>
       r <= made /\ CaseOf[r] = snap.case /\ ServedFrom(snap, r)
  /\ \A r \in Requests : Served(snap, r) => Req(r) \in snap.acks
  /\ snap.pending # None => Played(snap.pending.req) \notin snap.acks

\* What somebody was told is so.
HistoryOK(snap, acc, dn) ==
  /\ \A r \in acc : CaseOf[r] <= snap.case /\ (ServedFrom(snap, r) \/ snap.case > CaseOf[r])
  /\ \A r \in dn : Played(r) \in snap.acks \/ snap.case > CaseOf[r]

ToldOK(snap, tld) == \A r \in tld : IsPendingIn(snap, r) => snap.pending.failed

Admits(call) == call.op \in {"request", "mobile"}

\* What a transaction does to the device record.
Same(a, b) ==
  /\ b.case = a.case /\ b.acks = a.acks
  /\ a.pending # None /\ b.pending # None /\ b.pending.req = a.pending.req

Effect(call, a, b) ==
  /\ call.op \in {"hello", "other"} => b = a
  /\ call.op = "case" => b = a \/ (call.c # a.case /\ b = ReplaceCase(a, call.c))
  /\ Admits(call) => b = Admit(a, call.r)
  /\ call.op = "played" => IsPendingIn(a, call.r) /\ b = Confirm(a, call.r)
  /\ call.op \in LaneOps => Same(a, b)
  /\ call.op = "reset" => ~b.pending.ready /\ b.pending.failed = a.pending.failed /\ ~b.pending.failed
  /\ call.op = "deliver" => b.pending.ready /\ b.pending.failed = a.pending.failed
  /\ call.op = "fail" => b.pending.failed

LEMMA Identifiers ==
  ASSUME NEW r, NEW n
  PROVE  /\ Req(r) # Played(n) /\ (Req(r) = Req(n) <=> r = n) /\ (Played(r) = Played(n) <=> r = n)
BY DEF Req, Played

LEMMA AdmitFields ==
  ASSUME NEW a \in Snapshots, NEW r \in Requests
  PROVE  LET b == Admit(a, r)
         IN /\ b \in Snapshots
            /\ b.case = a.case /\ b.acks = a.acks \cup {Req(r)}
            /\ b.pending = Pending(r) /\ b.pending # None /\ b.pending.req = r /\ ~b.pending.failed
<1> DEFINE b == Admit(a, r)
           p == Pending(r)
           acks == a.acks \cup {Req(r)}
<1>1. p \in [req : Requests, ready : BOOLEAN, failed : BOOLEAN] /\ p.req = r /\ ~p.failed
  BY DEF Pending
<1>2. p # None
  BY <1>1, NoneAssumption
<1>3. acks \in SUBSET Messages
  BY DEF Messages, Snapshots
<1>4. b = [a EXCEPT !.acks = acks, !.pending = p]
  BY DEF Admit
<1> HIDE DEF p, acks
<1>5. b \in Snapshots /\ b.case = a.case /\ b.acks = acks /\ b.pending = p
  BY <1>1, <1>3, <1>4 DEF Snapshots
<1> QED BY <1>1, <1>2, <1>5 DEF p, acks

LEMMA ConfirmFields ==
  ASSUME NEW a \in Snapshots, NEW r \in Requests
  PROVE  LET b == Confirm(a, r)
         IN /\ b \in Snapshots
            /\ b.case = a.case /\ b.acks = a.acks \cup {Played(r)} /\ b.pending = None
BY DEF Confirm, Snapshots, Messages

LEMMA ReplaceFields ==
  ASSUME NEW a \in Snapshots, NEW c \in Cases
  PROVE  LET b == ReplaceCase(a, c)
         IN /\ b \in Snapshots
            /\ b.case = c /\ b.acks = {m \in a.acks : CaseOf[m[2]] # a.case}
            /\ b.pending = IF a.pending # None /\ CaseOf[a.pending.req] = a.case
                           THEN None ELSE a.pending
BY DEF ReplaceCase, Snapshots

----------------------------------------------------------------------------
(* An effect keeps what is true of a snapshot.                             *)

LEMMA ServedGrows ==
  ASSUME NEW a, NEW b, a.acks \subseteq b.acks,
         \A r \in Requests : IsPendingIn(a, r) => ServedFrom(b, r),
         NEW r \in Requests, ServedFrom(a, r)
  PROVE  ServedFrom(b, r)
<1>1. PICK n \in Requests : n >= r /\ Served(a, n)
  BY DEF ServedFrom
<1>2. CASE Played(n) \in a.acks
  BY <1>1, <1>2 DEF ServedFrom, Served
<1>3. CASE IsPendingIn(a, n)
  <2>1. PICK m \in Requests : m >= n /\ Served(b, m)
    BY <1>3 DEF ServedFrom
  <2>2. m >= r
    BY <1>1, <2>1, LaneAssumption
  <2> QED BY <2>1, <2>2 DEF ServedFrom
<1> QED BY <1>1, <1>2, <1>3 DEF Served

LEMMA AdmitServes ==
  ASSUME NEW a \in Snapshots, NEW n \in Requests, NEW r \in Requests, ServedFrom(a, r),
         \A m \in Requests : Req(m) \in a.acks => m < n, SnapOK(a, n)
  PROVE  ServedFrom(Admit(a, n), r)
<1> DEFINE b == Admit(a, n)
<1>1. b.acks = a.acks \cup {Req(n)} /\ b.pending # None /\ b.pending.req = n
  BY AdmitFields
<1>2. Served(b, n)
  BY <1>1 DEF Served, IsPendingIn
<1>3. ASSUME NEW m \in Requests, IsPendingIn(a, m) PROVE ServedFrom(b, m)
  <2>1. m < n
    BY <1>3 DEF SnapOK, Served
  <2> QED BY <1>2, <2>1, LaneAssumption DEF ServedFrom
<1> HIDE DEF b
<1> QED BY <1>1, <1>3, ServedGrows DEF b

LEMMA AdmitOK ==
  ASSUME NEW a \in Snapshots, NEW made \in Nat, SnapOK(a, made), NEW n \in Requests, n <= made,
         CaseOf[n] = a.case, \A m \in Requests : Req(m) \in a.acks => m < n
  PROVE  SnapOK(Admit(a, n), made)
<1> DEFINE b == Admit(a, n)
<1>1. /\ b.acks = a.acks \cup {Req(n)} /\ b.pending # None /\ b.pending.req = n
      /\ b.case = a.case
  BY AdmitFields
<1>2. Served(b, n)
  BY <1>1 DEF Served, IsPendingIn
<1>3. SnapOK(a, n)
  BY LaneAssumption DEF SnapOK
<1>4. ASSUME NEW r \in Requests, Req(r) \in b.acks
      PROVE  r <= made /\ CaseOf[r] = b.case /\ ServedFrom(b, r)
  <2>1. CASE r = n
    BY <1>1, <1>2, <2>1, LaneAssumption DEF ServedFrom
  <2>2. CASE r # n
    <3>1. Req(r) \in a.acks
      BY <1>1, <1>4, <2>2, Identifiers
    <3>2. ServedFrom(a, r)
      BY <3>1 DEF SnapOK
    <3>3. ServedFrom(b, r)
      BY <1>3, <3>2, AdmitServes
    <3> QED BY <1>1, <3>1, <3>3 DEF SnapOK
  <2> QED BY <2>1, <2>2
<1>5. Played(n) \notin a.acks
  <2>1. ASSUME Played(n) \in a.acks PROVE FALSE
    <3>1. Req(n) \in a.acks
      BY <2>1 DEF SnapOK, Served
    <3> QED BY <3>1, LaneAssumption
  <2> QED BY <2>1
<1>6. ASSUME NEW r \in Requests, Served(b, r) PROVE Req(r) \in b.acks
  <2>1. CASE r = n
    BY <1>1, <2>1
  <2>2. CASE r # n
    <3>1. Played(r) \in a.acks
      BY <1>1, <1>6, <2>2, Identifiers DEF Served, IsPendingIn
    <3> QED BY <1>1, <3>1 DEF SnapOK, Served
  <2> QED BY <2>1, <2>2
<1>7. Played(b.pending.req) \notin b.acks
  BY <1>1, <1>5, Identifiers
<1> HIDE DEF b
<1> QED BY <1>4, <1>6, <1>7 DEF SnapOK, b

LEMMA ConfirmServes ==
  ASSUME NEW a \in Snapshots, NEW n \in Requests, NEW r \in Requests, ServedFrom(a, r),
         IsPendingIn(a, n)
  PROVE  ServedFrom(Confirm(a, n), r)
<1> DEFINE b == Confirm(a, n)
<1>1. b.acks = a.acks \cup {Played(n)}
  BY ConfirmFields
<1>2. ServedFrom(b, n)
  BY <1>1, LaneAssumption DEF Served, ServedFrom
<1>3. \A m \in Requests : IsPendingIn(a, m) => ServedFrom(b, m)
  BY <1>2 DEF IsPendingIn
<1> HIDE DEF b
<1> QED BY <1>1, <1>3, ServedGrows DEF b

LEMMA ConfirmOK ==
  ASSUME NEW a \in Snapshots, NEW made \in Nat, SnapOK(a, made), NEW n \in Requests,
         IsPendingIn(a, n)
  PROVE  SnapOK(Confirm(a, n), made)
<1> DEFINE b == Confirm(a, n)
<1>1. b.acks = a.acks \cup {Played(n)} /\ b.pending = None /\ b.case = a.case
  BY ConfirmFields
<1>2. ASSUME NEW r \in Requests, Req(r) \in b.acks
      PROVE  r <= made /\ CaseOf[r] = b.case /\ ServedFrom(b, r)
  <2>1. Req(r) \in a.acks
    BY <1>1, <1>2, Identifiers
  <2>2. ServedFrom(b, r)
    BY <2>1, ConfirmServes DEF SnapOK
  <2> QED BY <1>1, <2>1, <2>2 DEF SnapOK
<1>3. ASSUME NEW r \in Requests, Served(b, r) PROVE Req(r) \in b.acks
  <2>1. Served(a, r)
    BY <1>1, <1>3, Identifiers DEF Served, IsPendingIn
  <2> QED BY <1>1, <2>1 DEF SnapOK
<1> HIDE DEF b
<1> QED BY <1>1, <1>2, <1>3 DEF SnapOK, b

\* Another case begins: everything that was acknowledged is forgotten.
LEMMA ReplaceOK ==
  ASSUME NEW a \in Snapshots, NEW made \in Nat, SnapOK(a, made), NEW c \in Cases, c # a.case
  PROVE  SnapOK(ReplaceCase(a, c), made)
<1> DEFINE b == ReplaceCase(a, c)
<1>1. /\ b.acks = {m \in a.acks : CaseOf[m[2]] # a.case} /\ b.case = c
      /\ b.pending = IF a.pending # None /\ CaseOf[a.pending.req] = a.case THEN None ELSE a.pending
  BY ReplaceFields
<1>2. ASSUME NEW r \in Requests PROVE Req(r) \notin b.acks
  BY <1>1 DEF SnapOK, Req
<1>3. ASSUME NEW r \in Requests PROVE Played(r) \notin b.acks
  BY <1>1 DEF SnapOK, Req, Played, Served
<1>4. b.pending = None
  <2>1. CASE a.pending = None
    BY <1>1, <2>1
  <2>2. CASE a.pending # None
    <3>1. a.pending.req \in Requests
      BY <2>2 DEF Snapshots
    <3>2. CaseOf[a.pending.req] = a.case
      BY <2>2, <3>1 DEF SnapOK, Served, IsPendingIn
    <3> QED BY <1>1, <2>2, <3>2
  <2> QED BY <2>1, <2>2
<1> HIDE DEF b
<1> QED BY <1>2, <1>3, <1>4 DEF SnapOK, Served, IsPendingIn, b

LEMMA SameOK ==
  ASSUME NEW a \in Snapshots, NEW b \in Snapshots, NEW made \in Nat, SnapOK(a, made), Same(a, b)
  PROVE  SnapOK(b, made)
<1>1. \A r \in Requests : Served(a, r) <=> Served(b, r)
  BY DEF Same, Served, IsPendingIn
<1>2. \A r \in Requests : ServedFrom(a, r) <=> ServedFrom(b, r)
  BY <1>1 DEF ServedFrom
<1> QED BY <1>1, <1>2 DEF SnapOK, Same

----------------------------------------------------------------------------
(* Calls, and types.                                                       *)

CallOK(call) ==
  /\ call.op \in {"hello", "case", "request", "mobile", "played"} => call.k \in Conns /\ call.l = None
  /\ call.op = "other" => call.l = None /\ call.k = None
  /\ call.op \in LaneOps => call.l \in LaneIds
  /\ call.op = "case" => call.c \in Cases
  /\ call.op = "request" => call.r \in Requests \ Mobile
  /\ call.op = "mobile" => call.r \in Mobile
  /\ call.op = "played" => call.r \in Requests

GoodCalls == {call \in Calls : CallOK(call)}

TxnType == txn # None => txn \in Transactions /\ txn.call \in GoodCalls

StoreType ==
  /\ mode \in {"up", "stopping", "down"} /\ writable \in BOOLEAN
  /\ dev \in Snapshots /\ disk \in Snapshots
  /\ undo # None => undo \in Snapshots
  /\ exit # None => exit \in Snapshots
  /\ TxnType

LinkType ==
  /\ timer \in Conns \cup {None} /\ current \in Conns \cup {None}
  /\ conn \in [Conns -> [phase : {"closed", "hello", "open", "closing"}, busy : BOOLEAN,
                         audio : {None} \cup Streams]]

WorkType ==
  /\ lanes \in [LaneIds -> {None} \cup Mediations]
  /\ tail \in Seq(GoodCalls)

SpentType == spent \in [made : Nat, others : Nat, faults : Nat, stops : Nat]

HistoryType ==
  /\ accepted \subseteq Requests /\ heard \subseteq Requests
  /\ done \subseteq Requests /\ told \subseteq Requests

LEMMA FirstCall ==
  ASSUME WorkType, tail # <<>>
  PROVE  /\ Call1 \in GoodCalls /\ Tail(tail) \in Seq(GoodCalls)
         /\ Call1 \in Calls /\ CallOK(Call1) /\ Call1 = tail[1] /\ 1 \in DOMAIN tail
<1>1. Call1 \in GoodCalls /\ Tail(tail) \in Seq(GoodCalls) /\ Call1 = tail[1] /\ 1 \in DOMAIN tail
  BY HeadTailProperties, LenProperties DEF WorkType, Call1
<1> QED BY <1>1 DEF GoodCalls

LEMMA PendingRecord ==
  ASSUME NEW snap \in Snapshots, snap.pending # None
  PROVE  /\ snap.pending \in [req : Requests, ready : BOOLEAN, failed : BOOLEAN]
         /\ snap.pending.req \in Requests /\ snap.pending.ready \in BOOLEAN
         /\ snap.pending.failed \in BOOLEAN
BY DEF Snapshots

\* A flag of what waits is set or taken back.
LEMMA MarkFields ==
  ASSUME dev \in Snapshots, dev.pending # None, NEW field \in {"ready", "failed"}, NEW b \in BOOLEAN,
         Mark(field, b)
  PROVE  /\ dev' \in Snapshots /\ Same(dev, dev')
         /\ dev'.pending = [dev.pending EXCEPT ![field] = b]
<1> DEFINE p == [dev.pending EXCEPT ![field] = b]
<1>1. p \in [req : Requests, ready : BOOLEAN, failed : BOOLEAN] /\ p.req = dev.pending.req
  BY PendingRecord
<1>2. dev' = [dev EXCEPT !.pending = p]
  BY DEF Mark, Snapshots
<1>3. p # None
  BY <1>1, NoneAssumption
<1> HIDE DEF p
<1>4. dev' \in Snapshots /\ dev'.pending = p /\ dev'.case = dev.case /\ dev'.acks = dev.acks
  BY <1>1, <1>2 DEF Snapshots
<1> QED BY <1>1, <1>3, <1>4 DEF Same, p

----------------------------------------------------------------------------
(* What a step does to memory, to the running transaction and to the disk. *)

Still == UNCHANGED <<dev, txn, disk, undo, exit, mode, writable>>

Begins ==
  /\ mode = "up" /\ writable /\ txn = None /\ tail # <<>> /\ tail' = Tail(tail)
  /\ Call1 \in GoodCalls
  /\ txn' = [call |-> Call1, snap |-> dev', back |-> dev, phase |-> "writing"]
  /\ dev' \in Snapshots /\ Effect(Call1, dev, dev')
  /\ UNCHANGED <<disk, undo, exit, mode, writable>>

Renames ==
  /\ txn # None /\ mode # "down" /\ txn.phase = "writing"
  /\ disk' = txn.snap /\ undo' = disk
  /\ txn' = [txn EXCEPT !.phase = "renamed"]
  /\ UNCHANGED <<dev, exit, mode, writable>>

Returns ==
  /\ txn # None /\ mode # "down" /\ txn.phase = "renamed" /\ txn' = None /\ undo' = None
  /\ UNCHANGED <<dev, disk, exit, mode, writable>>

\* The body, or what it called, puts the record back.
Fails ==
  /\ txn # None /\ mode # "down" /\ txn.phase = "writing" /\ txn' = None
  /\ dev' = IF txn.call.op \in {"hello", "other"} THEN dev ELSE txn.back
  /\ UNCHANGED <<disk, undo, exit>>
  /\ \/ UNCHANGED <<mode, writable>> /\ txn.call.op \in {"hello", "request", "mobile", "other"}
     \/ mode' = "stopping" /\ writable' = FALSE

FailsLate ==
  /\ txn # None /\ mode # "down" /\ txn.phase = "renamed" /\ txn' = None
  /\ UNCHANGED <<dev, disk, undo, exit>>
  /\ mode' = "stopping" /\ writable' = FALSE

Stops == mode = "up" /\ mode' = "stopping" /\ UNCHANGED <<dev, txn, disk, undo, exit, writable>>

Takes ==
  /\ mode = "stopping" /\ writable /\ exit = None /\ exit' = dev
  /\ UNCHANGED <<dev, txn, disk, undo, mode, writable>>

Ends ==
  /\ mode # "down" /\ ForgetProcess
  /\ \/ disk' = disk
     \/ undo # None /\ disk' = undo
     \/ exit # None /\ disk' = exit

Restarts ==
  /\ mode = "down" /\ mode' = "up" /\ dev' = disk
  /\ UNCHANGED <<txn, disk, undo, exit, writable>>

StoreStep ==
  Still \/ Begins \/ Renames \/ Returns \/ Fails \/ FailsLate \/ Stops \/ Takes \/ Ends \/ Restarts

Begin == \/ BeginHello \/ BeginCase \/ BeginRequest \/ BeginMobile \/ BeginPlayed \/ BeginOther
         \/ BeginReset \/ BeginDeliver \/ BeginFail

LEMMA BeginFrames ==
  ASSUME StoreType, WorkType, BeginHello \/ BeginOther \/ BeginCase \/ BeginPlayed \/ BeginRequest \/ BeginMobile
  PROVE  Begins
<1>1. /\ mode = "up" /\ writable /\ txn = None /\ tail # <<>> /\ tail' = Tail(tail)
      /\ UNCHANGED <<disk, undo, exit, mode, writable>>
  BY DEF BeginHello, BeginOther, BeginCase, BeginPlayed, BeginRequest, BeginMobile, BeginAdmission,
         MobileMayGoOn, Starting, proc, store
<1>2. Call1 \in GoodCalls /\ CallOK(Call1)
  BY <1>1, FirstCall
<1>3. txn' = [call |-> Call1, snap |-> dev', back |-> dev, phase |-> "writing"]
  BY DEF BeginHello, BeginOther, BeginCase, BeginPlayed, BeginRequest, BeginMobile, BeginAdmission,
         Persist, PersistentState
<1>4. dev \in Snapshots
  BY DEF StoreType
<1>5. CASE BeginHello \/ BeginOther
  <2>1. dev' = dev /\ Call1.op \in {"hello", "other"}
    BY <1>5 DEF BeginHello, BeginOther, Starting
  <2>2. Effect(Call1, dev, dev')
    BY <2>1 DEF Effect, Admits, LaneOps
  <2> QED BY <1>1, <1>2, <1>3, <1>4, <2>1, <2>2 DEF Begins
<1>6. CASE BeginCase
  <2>1. /\ Call1.op = "case"
        /\ dev' = dev \/ (Call1.c # dev.case /\ dev' = ReplaceCase(dev, Call1.c))
    BY <1>6 DEF BeginCase, Starting
  <2>2. Effect(Call1, dev, dev')
    BY <2>1 DEF Effect, Admits, LaneOps
  <2>3. dev' \in Snapshots
    BY <1>2, <1>4, <2>1, ReplaceFields DEF CallOK
  <2> QED BY <1>1, <1>2, <1>3, <2>2, <2>3 DEF Begins
<1>7. CASE BeginPlayed
  <2>1. Call1.op = "played" /\ dev' = Confirm(dev, Call1.r) /\ IsPendingIn(dev, Call1.r)
    BY <1>7 DEF BeginPlayed, Starting, MayConfirm, IsPending, IsPendingIn
  <2>2. Effect(Call1, dev, dev')
    BY <2>1 DEF Effect, Admits, LaneOps
  <2>3. dev' \in Snapshots
    BY <1>2, <1>4, <2>1, ConfirmFields DEF CallOK
  <2> QED BY <1>1, <1>2, <1>3, <2>2, <2>3 DEF Begins
<1>8. CASE BeginRequest \/ BeginMobile
  <2>1. Admits(Call1) /\ dev' = Admit(dev, Call1.r)
    BY <1>8 DEF BeginRequest, BeginMobile, BeginAdmission, MobileMayGoOn, Starting, Admits
  <2>2. Effect(Call1, dev, dev')
    BY <2>1 DEF Effect, Admits, LaneOps
  <2>3. Call1.r \in Requests
    BY <1>2, <2>1, LaneAssumption DEF CallOK, Admits
  <2>4. dev' \in Snapshots
    BY <1>4, <2>1, <2>3, AdmitFields
  <2> QED BY <1>1, <1>2, <1>3, <2>2, <2>4 DEF Begins
<1> QED BY <1>5, <1>6, <1>7, <1>8

LEMMA BeginLanes ==
  ASSUME StoreType, WorkType, BeginDeliver \/ BeginFail \/ (BeginReset /\ dev.pending.ready)
  PROVE  Begins
<1>1. /\ mode = "up" /\ writable /\ txn = None /\ tail # <<>> /\ tail' = Tail(tail)
      /\ UNCHANGED <<disk, undo, exit, mode, writable>>
  BY DEF BeginDeliver, BeginFail, BeginReset, Starting, proc, store
<1>2. Call1 \in GoodCalls
  BY <1>1, FirstCall
<1>3. txn' = [call |-> Call1, snap |-> dev', back |-> dev, phase |-> "writing"]
  BY DEF BeginDeliver, BeginFail, BeginReset, Persist, PersistentState
<1>4. dev \in Snapshots /\ dev.pending # None
  BY DEF StoreType, BeginDeliver, BeginFail, BeginReset, MediationCurrent, IsPending
<1>5. /\ dev.pending.failed \in BOOLEAN /\ dev.pending \in [req : Requests, ready : BOOLEAN, failed : BOOLEAN]
  BY <1>4, PendingRecord
<1>6. CASE BeginReset /\ dev.pending.ready
  <2>1. Call1.op = "reset" /\ Mark("ready", FALSE) /\ ~dev.pending.failed
    BY <1>6 DEF BeginReset, Starting
  <2>2. /\ dev' \in Snapshots /\ Same(dev, dev')
        /\ dev'.pending = [dev.pending EXCEPT !["ready"] = FALSE]
    BY <1>4, <2>1, MarkFields
  <2>3. ~dev'.pending.ready /\ dev'.pending.failed = dev.pending.failed
    BY <1>5, <2>2
  <2>4. Effect(Call1, dev, dev')
    BY <2>1, <2>2, <2>3 DEF Effect, Admits, LaneOps
  <2> QED BY <1>1, <1>2, <1>3, <2>2, <2>4 DEF Begins
<1>7. CASE BeginDeliver
  <2>1. Call1.op = "deliver" /\ Mark("ready", TRUE)
    BY <1>7 DEF BeginDeliver, Starting
  <2>2. /\ dev' \in Snapshots /\ Same(dev, dev')
        /\ dev'.pending = [dev.pending EXCEPT !["ready"] = TRUE]
    BY <1>4, <2>1, MarkFields
  <2>3. dev'.pending.ready /\ dev'.pending.failed = dev.pending.failed
    BY <1>5, <2>2
  <2>4. Effect(Call1, dev, dev')
    BY <2>1, <2>2, <2>3 DEF Effect, Admits, LaneOps
  <2> QED BY <1>1, <1>2, <1>3, <2>2, <2>4 DEF Begins
<1>8. CASE BeginFail
  <2>1. Call1.op = "fail" /\ Mark("failed", TRUE)
    BY <1>8 DEF BeginFail, Starting
  <2>2. /\ dev' \in Snapshots /\ Same(dev, dev')
        /\ dev'.pending = [dev.pending EXCEPT !["failed"] = TRUE]
    BY <1>4, <2>1, MarkFields
  <2>3. dev'.pending.failed
    BY <1>5, <2>2
  <2>4. Effect(Call1, dev, dev')
    BY <2>1, <2>2, <2>3 DEF Effect, Admits, LaneOps
  <2> QED BY <1>1, <1>2, <1>3, <2>2, <2>4 DEF Begins
<1> QED BY <1>6, <1>7, <1>8

StillStep ==
  \/ FrameStep \/ ProviderStep
  \/ MobileRefused \/ MobileReuses \/ PlayedRefused \/ LaneGivesUp \/ RefuseTransaction
  \/ (BeginReset /\ ~dev.pending.ready)
  \/ TimerFires \/ CaseChanges \/ SubmitOther

LEMMA StillSteps == ASSUME StillStep \/ UNCHANGED vars PROVE Still
<1>1. CASE FrameStep
  BY <1>1 DEF FrameStep, SendHello, CloseConnection, RequestLostCase, SendCaseStart, RepeatRequest,
     SendRequest, SendPlayed, AskMobile, Still, proc, store
<1>2. CASE ProviderStep
  BY <1>2 DEF ProviderStep, Answer, StaleAnswer, MediatorAnswers, SpeechAnswers, Still, proc, store
<1>3. CASE MobileRefused \/ MobileReuses \/ PlayedRefused \/ LaneGivesUp \/ RefuseTransaction
  BY <1>3 DEF MobileRefused, MobileReuses, PlayedRefused, Skips, LaneGivesUp, RefuseTransaction,
     Still, proc, store
<1>4. CASE BeginReset /\ ~dev.pending.ready
  BY <1>4 DEF BeginReset, Still, proc, store
<1>5. CASE TimerFires \/ CaseChanges \/ SubmitOther
  BY <1>5 DEF TimerFires, CaseChanges, SubmitOther, Still, proc, store
<1>6. CASE UNCHANGED vars
  BY <1>6 DEF vars, Still
<1> QED BY <1>1, <1>2, <1>3, <1>4, <1>5, <1>6 DEF StillStep

ReturnStep ==
  \/ HelloReturns \/ CaseReturns \/ AdmissionReturns \/ PlayedReturns \/ OtherReturns
  \/ ResetReturns \/ DeliverReturns \/ FailReturns

LEMMA ReturnSteps == ASSUME ReturnStep PROVE Returns
BY DEF ReturnStep, HelloReturns, CaseReturns, AdmissionReturns, PlayedReturns, OtherReturns,
   ResetReturns, DeliverReturns, FailReturns, Returned, Running, Returns, proc

FailStep == UnwrittenHello \/ UnwrittenAdmission \/ UnwrittenHalt \/ UnwrittenOther

LEMMA FailSteps == ASSUME FailStep PROVE Fails
<1>1. CASE UnwrittenHello
  BY <1>1 DEF UnwrittenHello, Unwritten, Running, Fails, proc, store
<1>2. CASE UnwrittenAdmission
  BY <1>2 DEF UnwrittenAdmission, Unwritten, Running, Fails, RollBack, proc, store
<1>3. CASE UnwrittenHalt
  BY <1>3 DEF UnwrittenHalt, Unwritten, Running, Fails, RollBack, Halt, store, LaneOps
<1>4. CASE UnwrittenOther
  BY <1>4 DEF UnwrittenOther, Unwritten, Running, Fails, Halt, proc, store
<1> QED BY <1>1, <1>2, <1>3, <1>4 DEF FailStep

EndStep == FinishExit \/ Crash

LEMMA EndSteps == ASSUME EndStep PROVE Ends
BY DEF EndStep, FinishExit, Crash, Ends

LEMMA NextSteps ==
  ASSUME [Next]_vars
  PROVE  \/ StillStep \/ UNCHANGED vars
         \/ BeginHello \/ BeginOther \/ BeginCase \/ BeginPlayed \/ BeginRequest \/ BeginMobile
         \/ BeginDeliver \/ BeginFail \/ (BeginReset /\ dev.pending.ready)
         \/ ReturnStep \/ FailStep \/ EndStep
         \/ RenameState \/ CommitFailsVisible \/ Stop \/ BeginExit \/ Recover
BY DEF Next, FrameStep, TransactionStep, ProviderStep, FaultStep, LifeStep, StillStep, ReturnStep,
   FailStep, EndStep

LEMMA StoreSteps ==
  ASSUME StoreType, WorkType, [Next]_vars PROVE StoreStep
<1>1. CASE RenameState
  BY <1>1 DEF RenameState, Renames, StoreStep, proc
<1>2. CASE CommitFailsVisible
  BY <1>2 DEF CommitFailsVisible, Halt, FailsLate, StoreStep, store
<1>3. CASE Stop
  BY <1>3 DEF Stop, Stops, StoreStep, store
<1>4. CASE BeginExit
  BY <1>4 DEF BeginExit, Takes, StoreStep, store, PersistentState
<1>5. CASE Recover
  BY <1>5 DEF Recover, Restarts, StoreStep, store, Restored
<1> QED BY <1>1, <1>2, <1>3, <1>4, <1>5, NextSteps, StillSteps, BeginFrames, BeginLanes, ReturnSteps,
           FailSteps, EndSteps DEF StoreStep

----------------------------------------------------------------------------
(* Types: what each step does to the connections, the lanes and the queue. *)

ConnRec == [phase : {"closed", "hello", "open", "closing"}, busy : BOOLEAN,
            audio : {None} \cup Streams]

\* One field of a connection changes.
LEMMA BusyFields ==
  ASSUME NEW f \in [Conns -> ConnRec], NEW k \in Conns, NEW x \in BOOLEAN, NEW g,
         g = [f EXCEPT ![k].busy = x]
  PROVE  /\ g \in [Conns -> ConnRec] /\ g[k].busy = x
         /\ \A j \in Conns : g[j].phase = f[j].phase /\ g[j].audio = f[j].audio
                             /\ (j # k => g[j] = f[j])
BY DEF ConnRec

LEMMA PhaseFields ==
  ASSUME NEW f \in [Conns -> ConnRec], NEW k \in Conns,
         NEW x \in {"closed", "hello", "open", "closing"}, NEW g,
         g = [f EXCEPT ![k].phase = x]
  PROVE  /\ g \in [Conns -> ConnRec] /\ g[k].phase = x
         /\ \A j \in Conns : g[j].busy = f[j].busy /\ g[j].audio = f[j].audio
                             /\ (j # k => g[j] = f[j])
BY DEF ConnRec

LEMMA AudioFields ==
  ASSUME NEW f \in [Conns -> ConnRec], NEW k \in Conns, NEW x \in {None} \cup Streams, NEW g,
         g = [f EXCEPT ![k].audio = x]
  PROVE  /\ g \in [Conns -> ConnRec] /\ g[k].audio = x
         /\ \A j \in Conns : g[j].busy = f[j].busy /\ g[j].phase = f[j].phase
                             /\ (j # k => g[j] = f[j])
BY DEF ConnRec

TimerType == timer \in Conns \cup {None}
CurrentType == current \in Conns \cup {None}
ConnType == conn \in [Conns -> ConnRec]

LEMMA LinkTypes == LinkType <=> TimerType /\ CurrentType /\ ConnType
BY DEF LinkType, TimerType, CurrentType, ConnType, ConnRec

LEMMA TxnCall ==
  ASSUME StoreType, txn # None
  PROVE  txn.call \in Calls /\ CallOK(txn.call)
BY DEF StoreType, TxnType, GoodCalls

\* The frame that runs, or that was first, is of a connection.
LEMMA FrameConn ==
  ASSUME NEW call, CallOK(call)
  PROVE  /\ call.op \in FrameOps \cup {"mobile"} => call.k \in Conns
         /\ call.op \in LaneOps => call.l \in LaneIds
BY DEF CallOK, FrameOps

LEMMA IdleType ==
  ASSUME ConnType, NEW k \in Conns
  PROVE  /\ Idle(k) \in [Conns -> ConnRec]
         /\ \A j \in Conns : Idle(k)[j].phase = conn[j].phase /\ Idle(k)[j].audio = conn[j].audio
                             /\ (j # k => Idle(k)[j] = conn[j])
<1> DEFINE idle == FALSE
<1>1. idle \in BOOLEAN
  OBVIOUS
<1> HIDE DEF idle
<1>2. Idle(k) = [conn EXCEPT ![k].busy = idle]
  BY DEF Idle, idle
<1> QED BY <1>1, <1>2, BusyFields DEF ConnType

LEMMA BusyType ==
  ASSUME ConnType, NEW k \in Conns, conn' = [conn EXCEPT ![k].busy = TRUE]
  PROVE  /\ ConnType'
         /\ \A j \in Conns : conn'[j].phase = conn[j].phase /\ conn'[j].audio = conn[j].audio
                             /\ (j # k => conn'[j] = conn[j])
         /\ conn'[k].busy
<1> DEFINE busy == TRUE
<1>1. busy \in BOOLEAN
  OBVIOUS
<1>4. busy
  OBVIOUS
<1> DEFINE g == conn'
<1>2. g = [conn EXCEPT ![k].busy = busy]
  BY DEF busy
<1> HIDE DEF busy, g
<1>3. /\ g \in [Conns -> ConnRec] /\ g[k].busy = busy
      /\ \A j \in Conns : g[j].phase = conn[j].phase /\ g[j].audio = conn[j].audio
                          /\ (j # k => g[j] = conn[j])
  BY <1>1, <1>2, BusyFields DEF ConnType
<1>5. g[k].busy
  BY <1>3, <1>4, Zenon
<1> QED BY <1>3, <1>5 DEF ConnType, g

\* The latest hello, also the one that takes effect.
LEMMA HelloConns ==
  ASSUME ConnType, WorkType, BeginHello
  PROVE  /\ ConnType' /\ Call1.k \in Conns /\ current' = Call1.k
         /\ \A j \in Conns :
              /\ conn'[j].busy = conn[j].busy /\ conn'[j].audio \in {conn[j].audio, None}
              /\ conn[j].phase \in {"closed", "hello"} /\ j # Call1.k => conn'[j] = conn[j]
<1>1. tail # <<>> /\ Call1.op = "hello"
  BY DEF BeginHello, Starting
<1>2. Call1.k \in Conns
  BY <1>1, FirstCall, FrameConn DEF FrameOps
<1> DEFINE k == Call1.k
<1>3. current' = k /\ conn' = [j \in Conns |->
          IF j = k /\ conn[j].phase = "hello" THEN [conn[j] EXCEPT !.phase = "open"]
          ELSE IF j # k /\ conn[j].phase \in {"open", "closing"}
          THEN [conn[j] EXCEPT !.phase = "closed", !.audio = None] ELSE conn[j]]
  BY DEF BeginHello
<1> HIDE DEF k
<1>4. ASSUME NEW j \in Conns
      PROVE  /\ conn'[j] \in ConnRec /\ conn'[j].busy = conn[j].busy
             /\ conn'[j].audio \in {conn[j].audio, None}
             /\ conn[j].phase \in {"closed", "hello"} /\ j # k => conn'[j] = conn[j]
  <2>1. conn[j] \in ConnRec
    BY DEF ConnType
  <2>2. /\ [conn[j] EXCEPT !.phase = "open"] \in ConnRec
        /\ [conn[j] EXCEPT !.phase = "open"].busy = conn[j].busy
        /\ [conn[j] EXCEPT !.phase = "open"].audio = conn[j].audio
        /\ [conn[j] EXCEPT !.phase = "closed", !.audio = None].audio = None
        /\ [conn[j] EXCEPT !.phase = "closed", !.audio = None] \in ConnRec
        /\ [conn[j] EXCEPT !.phase = "closed", !.audio = None].busy = conn[j].busy
    BY <2>1 DEF ConnRec
  <2>3. \/ conn'[j] = [conn[j] EXCEPT !.phase = "open"]
        \/ conn[j].phase \in {"open", "closing"} /\ conn'[j] = [conn[j] EXCEPT !.phase = "closed", !.audio = None]
        \/ conn'[j] = conn[j]
    BY <1>3
  <2>4. conn[j].phase \in {"closed", "hello"} /\ j # k => conn'[j] = conn[j]
    BY <1>3
  <2> QED BY <2>1, <2>2, <2>3, <2>4
<1>5. ConnType'
  <2>1. conn' \in [Conns -> {conn'[j] : j \in Conns}]
    BY <1>3
  <2> QED BY <2>1, <1>4, <1>3 DEF ConnType
<1> QED BY <1>2, <1>3, <1>4, <1>5 DEF k

LEMMA SendHelloConns ==
  ASSUME ConnType, NEW k \in Conns, SendHello(k)
  PROVE  /\ ConnType' /\ conn'[k].busy /\ conn'[k].phase = "hello" /\ conn'[k].audio = None
         /\ \A j \in Conns : j # k => conn'[j] = conn[j]
<1> DEFINE x == [phase |-> "hello", busy |-> TRUE, audio |-> None]
           g == conn'
<1>1. x \in ConnRec /\ x.busy /\ x.phase = "hello" /\ x.audio = None
  BY DEF ConnRec
<1>2. g = [conn EXCEPT ![k] = x]
  BY DEF SendHello
<1> HIDE DEF x, g
<1>3. g[k] = x /\ g \in [Conns -> ConnRec] /\ \A j \in Conns : j # k => g[j] = conn[j]
  BY <1>1, <1>2 DEF ConnType
<1>4. g[k].busy /\ g[k].phase = "hello" /\ g[k].audio = None
  BY <1>1, <1>3, Zenon
<1> QED BY <1>3, <1>4 DEF ConnType, g

LEMMA CloseConns ==
  ASSUME ConnType, NEW k \in Conns, CloseConnection(k)
  PROVE  /\ ConnType' /\ conn'[k].phase = "closed" /\ conn'[k].audio = None
         /\ \A j \in Conns : conn'[j].busy = conn[j].busy /\ (j # k => conn'[j] = conn[j])
<1> DEFINE f == [conn EXCEPT ![k].phase = "closed"]
           g == conn'
<1>1. g = [f EXCEPT ![k].audio = None]
  BY DEF CloseConnection
<1>2. f = [conn EXCEPT ![k].phase = "closed"]
  OBVIOUS
<1> HIDE DEF f, g
<1>3. /\ f \in [Conns -> ConnRec] /\ f[k].phase = "closed"
      /\ \A j \in Conns : f[j].busy = conn[j].busy /\ (j # k => f[j] = conn[j])
  BY <1>2, PhaseFields DEF ConnType
<1>4. /\ g \in [Conns -> ConnRec] /\ g[k].audio = None
      /\ \A j \in Conns : g[j].busy = f[j].busy /\ g[j].phase = f[j].phase /\ (j # k => g[j] = f[j])
  <2>1. None \in {None} \cup Streams
    OBVIOUS
  <2>2. f \in [Conns -> ConnRec]
    BY <1>3
  <2> QED BY <2>1, <2>2, <1>1, AudioFields
<1> QED BY <1>3, <1>4 DEF ConnType, g

\* A stream is opened, or is whole.
LEMMA AudioConns ==
  ASSUME ConnType, NEW k \in Conns, NEW s \in Streams, conn' = [conn EXCEPT ![k].audio = s]
  PROVE  /\ ConnType' /\ conn'[k].audio = s
         /\ \A j \in Conns : conn'[j].busy = conn[j].busy /\ conn'[j].phase = conn[j].phase
                             /\ (j # k => conn'[j] = conn[j])
<1> DEFINE g == conn'
<1>1. g = [conn EXCEPT ![k].audio = s]
  OBVIOUS
<1> HIDE DEF g
<1>2. /\ g \in [Conns -> ConnRec] /\ g[k].audio = s
      /\ \A j \in Conns : g[j].busy = conn[j].busy /\ g[j].phase = conn[j].phase
                             /\ (j # k => g[j] = conn[j])
  BY <1>1, AudioFields DEF ConnType
<1> QED BY <1>2 DEF ConnType, g

LEMMA IdleConns ==
  ASSUME ConnType, NEW k \in Conns, conn' = Idle(k)
  PROVE  /\ ConnType'
         /\ \A j \in Conns : conn'[j].phase = conn[j].phase /\ conn'[j].audio = conn[j].audio
                             /\ (j # k => conn'[j] = conn[j])
<1> DEFINE g == conn'
<1>1. g = Idle(k)
  OBVIOUS
<1> HIDE DEF g
<1>2. /\ g \in [Conns -> ConnRec]
      /\ \A j \in Conns : g[j].phase = conn[j].phase /\ g[j].audio = conn[j].audio
                             /\ (j # k => g[j] = conn[j])
  BY <1>1, IdleType
<1> QED BY <1>2 DEF ConnType, g

LEMMA UnwrittenHelloConns ==
  ASSUME ConnType, StoreType, UnwrittenHello
  PROVE  /\ ConnType' /\ txn.call.k \in Conns
         /\ \A j \in Conns : conn'[j].audio = conn[j].audio /\ (j # txn.call.k => conn'[j] = conn[j])
<1>1. txn # None /\ txn.call.op = "hello"
  BY DEF UnwrittenHello, Unwritten, Running
<1>2. txn.call.k \in Conns
  BY <1>1, TxnCall, FrameConn DEF FrameOps
<1> DEFINE k == txn.call.k
           f == Idle(k)
           p == IF f[k].phase = "open" THEN "closing" ELSE f[k].phase
           g == conn'
<1>3. g = [f EXCEPT ![k].phase = p]
  BY <1>2 DEF UnwrittenHello
<1>4. f \in [Conns -> ConnRec] /\ \A j \in Conns : f[j].audio = conn[j].audio /\ (j # k => f[j] = conn[j])
  BY <1>2, IdleType
<1>5. k \in Conns
  BY <1>2
<1> HIDE DEF k, f, g
<1>6. p \in {"closed", "hello", "open", "closing"}
  BY <1>4, <1>5 DEF ConnRec
<1> HIDE DEF p
<1>7. g \in [Conns -> ConnRec] /\ \A j \in Conns : g[j].audio = f[j].audio /\ (j # k => g[j] = f[j])
  <2>1. f \in [Conns -> ConnRec]
    BY <1>4
  <2> QED BY <2>1, <1>3, <1>5, <1>6, PhaseFields
<1> QED BY <1>4, <1>5, <1>7 DEF ConnType, g, k

----------------------------------------------------------------------------
(* What a step does to the queue, the connections and the lanes.           *)

\* The first transaction of the queue starts, or is left without a commit.
Leaves == txn = None /\ tail # <<>> /\ tail' = Tail(tail)
Starts == Leaves /\ txn' # None /\ txn'.call = Call1
Drops  == Leaves /\ txn' = None

\* The one in progress goes on, or ends.
GoesOn    == (txn = None /\ txn' = None) \/ (txn # None /\ txn' # None /\ txn'.call = txn.call)
Completes == txn # None /\ txn' = None

\* A lane on a free name, which supersedes the others.
StartsLane(l, r) ==
  /\ lanes[l] = None
  /\ lanes' = [Supersede(lanes) EXCEPT ![l] = [req |-> r, step |-> "reset", live |-> TRUE]]

\* Why a transaction is submitted.
Arrives(call) ==
  \/ call.op = "hello" /\ SendHello(call.k)
  \/ call.op = "case" /\ SendCaseStart(call.k, call.c)
  \/ call.op = "request" /\ SendRequest(call.k, call.r)
  \/ call.op = "played" /\ SendPlayed(call.k, call.r) /\ conn' = [conn EXCEPT ![call.k].busy = TRUE]
  \/ call.op = "mobile" /\ AskMobile(call.k, call.r)
  \/ call.op = "other"
  \/ call.op = "reset" /\ \E r \in Requests : StartsLane(call.l, r)
  \/ call.op \in {"deliver", "fail"} /\ GoTo(call.l, call.op) /\ MediationCurrent(call.l)
       /\ lanes[call.l].step \in {"first", "second", "tts"}

QueueShape ==
  \/ tail' = tail /\ (GoesOn \/ Completes)
  \/ (GoesOn \/ Completes) /\ \E call \in GoodCalls : Enqueue(call) /\ Arrives(call)
  \/ Starts
  \/ Drops
  \/ tail' = <<>> /\ txn' = None

ConnShape ==
  \/ conn' = conn
  \/ \E k \in Conns : SendHello(k) \/ CloseConnection(k)
  \/ \E k \in Conns : Ready(k) /\ conn' = [conn EXCEPT ![k].busy = TRUE]
  \/ BeginHello
  \/ Drops /\ Call1.op \in FrameOps /\ conn' = Idle(Call1.k)
  \/ Completes /\ txn.call.op \in FrameOps /\ conn' = Idle(txn.call.k)
  \/ \E l \in LaneIds : SpeechAnswers(l)
  \/ DeliverReturns
  \/ UnwrittenHello
  \/ ForgetProcess

\* Where a lane is started: for the connection that is current, when no lane is live.
Opens ==
  /\ current \in Conns /\ current' = current /\ conn[current].phase = "open" /\ ~Working
  /\ conn' = conn \/ (Completes /\ txn.call.op \in FrameOps /\ conn' = Idle(txn.call.k))
  /\ \/ IsCurrent(timer)
     \/ Completes /\ txn.call.op \in {"request", "mobile"}
     \/ ~conn[current].busy

LaneShape ==
  \/ lanes' = lanes
  \/ lanes' = Supersede(lanes)
  \/ Drops /\ Call1.op \in LaneOps /\ EndLane(Call1.l)
  \/ Completes /\ txn.call.op \in LaneOps /\ EndLane(txn.call.l)
  \/ BeginReset /\ Drops /\ ~dev.pending.ready /\ GoTo(Call1.l, "first")
  \/ ResetReturns /\ MediationCurrent(txn.call.l) /\ GoTo(txn.call.l, "first")
  \/ \E l \in LaneIds : StaleAnswer(l) \/ MediatorAnswers(l) \/ SpeechAnswers(l)
  \/ Opens /\ \E r \in Requests, l \in LaneIds : StartsLane(l, r)
  \/ ForgetProcess

\* Only a transaction of a lane names one.
LEMMA CallKinds ==
  ASSUME NEW call \in GoodCalls
  PROVE  /\ call.l = None <=> call.op \notin LaneOps
         /\ call.op \in LaneOps => call.l \in LaneIds /\ call.op \notin FrameOps
         /\ call.op \in FrameOps => call.k \in Conns /\ call.op \notin LaneOps
BY NoneAssumption DEF GoodCalls, CallOK, Calls, LaneOps, FrameOps

LEMMA LeavingCall ==
  ASSUME WorkType, Leaves
  PROVE  Call1 \in GoodCalls
BY FirstCall DEF Leaves

LEMMA CompletingCall ==
  ASSUME StoreType, Completes
  PROVE  txn.call \in GoodCalls
BY DEF StoreType, TxnType, Completes

LEMMA BeginShapes ==
  ASSUME StoreType, WorkType,
         \/ BeginHello \/ BeginOther \/ BeginCase \/ BeginPlayed \/ BeginRequest \/ BeginMobile
         \/ BeginDeliver \/ BeginFail \/ (BeginReset /\ dev.pending.ready)
  PROVE  QueueShape /\ ConnShape /\ LaneShape
<1>1. Begins
  BY BeginFrames, BeginLanes
<1>2. Starts
  <2>1. txn' # None
    <3>1. txn' \in Transactions
      BY <1>1 DEF Begins, Transactions, StoreType, GoodCalls
    <3> QED BY <3>1, NoneAssumption
  <2> QED BY <1>1, <2>1 DEF Begins, Starts, Leaves
<1>3. ConnShape
  BY DEF ConnShape, BeginOther, BeginCase, BeginPlayed, BeginRequest, BeginMobile, BeginDeliver,
     BeginFail, BeginReset, BeginAdmission
<1>4. LaneShape
  BY DEF LaneShape, BeginHello, BeginOther, BeginCase, BeginPlayed, BeginRequest, BeginMobile,
     BeginDeliver, BeginFail, BeginReset, BeginAdmission
<1> QED BY <1>2, <1>3, <1>4 DEF QueueShape

LEMMA NewCall ==
  ASSUME NEW op \in {"hello", "case", "request", "mobile", "played", "other", "reset", "deliver", "fail"},
         NEW k \in Conns \cup {None}, NEW c \in Cases \cup {None}, NEW r \in Requests \cup {None},
         NEW l \in LaneIds \cup {None}, CallOK(Call(op, k, c, r, l))
  PROVE  Call(op, k, c, r, l) \in GoodCalls
BY DEF Call, Calls, GoodCalls

LEMMA NewLaneCall ==
  ASSUME NEW op \in LaneOps, NEW l \in LaneIds
  PROVE  LaneCall(op, l) \in GoodCalls /\ LaneCall(op, l).op = op /\ LaneCall(op, l).l = l
BY DEF LaneCall, Call, Calls, GoodCalls, CallOK, LaneOps

LEMMA LaunchShapes ==
  ASSUME NEW r \in Requests, (Launch(r) /\ Opens) \/ NoLaunch, GoesOn \/ Completes
  PROVE  QueueShape /\ LaneShape
<1>1. CASE Launch(r) /\ Opens
  <2>1. PICK l \in LaneIds : Enqueue(LaneCall("reset", l)) /\ StartsLane(l, r)
    BY <1>1 DEF Launch, StartsLane
  <2>2. LaneCall("reset", l) \in GoodCalls /\ LaneCall("reset", l).op = "reset" /\ LaneCall("reset", l).l = l
    BY NewLaneCall DEF LaneOps
  <2>3. Arrives(LaneCall("reset", l))
    BY <2>1, <2>2 DEF Arrives
  <2>4. Opens
    BY <1>1
  <2> QED BY <2>1, <2>2, <2>3, <2>4 DEF QueueShape, LaneShape
<1>2. CASE NoLaunch
  BY <1>2 DEF NoLaunch, QueueShape, LaneShape
<1> QED BY <1>1, <1>2

LEMMA FrameShapes ==
  ASSUME StoreType, FrameStep
  PROVE  QueueShape /\ ConnShape /\ LaneShape
<1>1. PICK k \in Conns :
        \/ SendHello(k) \/ CloseConnection(k) \/ RequestLostCase(k)
        \/ \E c \in Cases : SendCaseStart(k, c)
        \/ \E r \in Requests : RepeatRequest(k, r) \/ SendRequest(k, r) \/ SendPlayed(k, r) \/ AskMobile(k, r)
  BY DEF FrameStep
<1>2. GoesOn
  BY StillSteps DEF StillStep, Still, GoesOn
<1>3. CASE SendHello(k)
  <2>1. Call("hello", k, None, None, None) \in GoodCalls
    BY NewCall DEF CallOK, Call, LaneOps
  <2>2. Arrives(Call("hello", k, None, None, None))
    BY <1>3 DEF Arrives, Call
  <2> QED BY <1>2, <1>3, <2>1, <2>2 DEF SendHello, QueueShape, ConnShape, LaneShape
<1>4. CASE CloseConnection(k) \/ RequestLostCase(k)
  BY <1>2, <1>4 DEF CloseConnection, RequestLostCase, QueueShape, ConnShape, LaneShape
<1>5. ASSUME NEW c \in Cases, SendCaseStart(k, c) PROVE QueueShape /\ ConnShape /\ LaneShape
  <2>1. Call("case", k, c, None, None) \in GoodCalls
    BY NewCall DEF CallOK, Call, LaneOps
  <2>2. Arrives(Call("case", k, c, None, None))
    BY <1>5 DEF Arrives, Call
  <2> QED BY <1>2, <1>5, <2>1, <2>2 DEF SendCaseStart, QueueShape, ConnShape, LaneShape
<1>6. ASSUME NEW r \in Requests, RepeatRequest(k, r) PROVE QueueShape /\ ConnShape /\ LaneShape
  <2>1. conn' = conn /\ current' = current /\ IsCurrent(k) /\ ~conn[k].busy
    BY <1>6 DEF RepeatRequest, Ready
  <2>2. NoLaunch \/ (Launch(r) /\ ~Working)
    BY <1>6 DEF RepeatRequest
  <2>3. ~Working => Opens
    BY <2>1 DEF Opens, IsCurrent
  <2>4. (Launch(r) /\ Opens) \/ NoLaunch
    BY <2>2, <2>3
  <2>5. ConnShape
    BY <2>1 DEF ConnShape
  <2> QED BY <1>2, <2>4, <2>5, LaunchShapes
<1>7. ASSUME NEW r \in Requests, SendRequest(k, r) PROVE QueueShape /\ ConnShape /\ LaneShape
  <2>1. Call("request", k, CaseOf[r], r, None) \in GoodCalls
    BY <1>7, NewCall, LaneAssumption DEF CallOK, Call, LaneOps, SendRequest, MayAsk
  <2>2. Arrives(Call("request", k, CaseOf[r], r, None))
    BY <1>7 DEF Arrives, Call
  <2> QED BY <1>2, <1>7, <2>1, <2>2 DEF SendRequest, QueueShape, ConnShape, LaneShape
<1>8. ASSUME NEW r \in Requests, SendPlayed(k, r) PROVE QueueShape /\ ConnShape /\ LaneShape
  <2>1. Call("played", k, CaseOf[r], r, None) \in GoodCalls
    BY NewCall, LaneAssumption DEF CallOK, Call, LaneOps
  <2>2. Arrives(Call("played", k, CaseOf[r], r, None)) \/ tail' = tail
    BY <1>8 DEF Arrives, Call, SendPlayed
  <2> QED BY <1>2, <1>8, <2>1, <2>2 DEF SendPlayed, QueueShape, ConnShape, LaneShape
<1>9. ASSUME NEW r \in Requests, AskMobile(k, r) PROVE QueueShape /\ ConnShape /\ LaneShape
  <2>1. Call("mobile", k, CaseOf[r], r, None) \in GoodCalls
    BY <1>9, NewCall, LaneAssumption DEF CallOK, Call, LaneOps, AskMobile, MayAsk
  <2>2. Arrives(Call("mobile", k, CaseOf[r], r, None))
    BY <1>9 DEF Arrives, Call
  <2> QED BY <1>2, <1>9, <2>1, <2>2 DEF AskMobile, QueueShape, ConnShape, LaneShape
<1> QED BY <1>1, <1>3, <1>4, <1>5, <1>6, <1>7, <1>8, <1>9

LEMMA ProviderShapes ==
  ASSUME ProviderStep
  PROVE  QueueShape /\ ConnShape /\ LaneShape
<1>1. GoesOn
  BY StillSteps DEF StillStep, Still, GoesOn
<1>2. PICK l \in LaneIds : StaleAnswer(l) \/ MediatorAnswers(l) \/ SpeechAnswers(l)
  BY DEF ProviderStep, Answer
<1>3. LaneShape
  BY <1>2 DEF LaneShape
<1>4. ConnShape
  BY <1>2 DEF ConnShape, StaleAnswer, MediatorAnswers
<1>5. /\ LaneCall("deliver", l) \in GoodCalls /\ LaneCall("fail", l) \in GoodCalls
      /\ LaneCall("deliver", l).op = "deliver" /\ LaneCall("deliver", l).l = l
      /\ LaneCall("fail", l).op = "fail" /\ LaneCall("fail", l).l = l
  BY NewLaneCall DEF LaneOps
<1>6. \/ tail' = tail
      \/ /\ MediationCurrent(l) /\ lanes[l].step \in {"first", "second", "tts"}
         /\ \/ Enqueue(LaneCall("deliver", l)) /\ GoTo(l, "deliver")
            \/ Enqueue(LaneCall("fail", l)) /\ GoTo(l, "fail")
  BY <1>2 DEF StaleAnswer, MediatorAnswers, SpeechAnswers, Failing, Answered
<1>7. tail' = tail \/ \E call \in GoodCalls : Enqueue(call) /\ Arrives(call)
  BY <1>5, <1>6 DEF Arrives
<1> QED BY <1>1, <1>3, <1>4, <1>7 DEF QueueShape

LEMMA DropShapes ==
  ASSUME StoreType, WorkType,
         \/ MobileRefused \/ MobileReuses \/ PlayedRefused \/ LaneGivesUp \/ RefuseTransaction
         \/ (BeginReset /\ ~dev.pending.ready)
  PROVE  QueueShape /\ ConnShape /\ LaneShape /\ Drops
<1>1. Drops
  BY DEF MobileRefused, MobileReuses, PlayedRefused, LaneGivesUp, RefuseTransaction, BeginReset,
     MobileMayGoOn, Starting, Skips, Drops, Leaves
<1>2. Call1 \in GoodCalls
  BY <1>1, LeavingCall DEF Drops
<1>3. CASE MobileRefused \/ MobileReuses
  BY <1>1, <1>3 DEF MobileRefused, MobileReuses, QueueShape, ConnShape, LaneShape
<1>4. CASE PlayedRefused
  <2>1. Call1.op \in FrameOps
    BY <1>4 DEF PlayedRefused, Starting, FrameOps
  <2>2. Call1.k # None
    BY <1>2, <2>1, CallKinds, LaneAssumption
  <2>3. conn' = Idle(Call1.k)
    BY <1>4, <2>2 DEF PlayedRefused, Skips
  <2> QED BY <1>1, <1>4, <2>1, <2>3 DEF PlayedRefused, QueueShape, ConnShape, LaneShape
<1>5. CASE LaneGivesUp
  BY <1>1, <1>5 DEF LaneGivesUp, Starting, QueueShape, ConnShape, LaneShape
<1>6. CASE RefuseTransaction
  <2>1. LaneShape
    BY <1>1, <1>2, <1>6, CallKinds DEF RefuseTransaction, LaneShape
  <2>2. ConnShape
    BY <1>1, <1>6 DEF RefuseTransaction, ConnShape
  <2> QED BY <1>1, <2>1, <2>2 DEF QueueShape
<1>7. CASE BeginReset /\ ~dev.pending.ready
  <2>1. Call1.op = "reset" /\ CallMediator(Call1.l) /\ conn' = conn
    BY <1>7 DEF BeginReset, Starting
  <2>2. LaneShape
    BY <1>1, <1>7, <2>1 DEF CallMediator, LaneShape, LaneOps
  <2> QED BY <1>1, <2>1, <2>2 DEF QueueShape, ConnShape
<1> QED BY <1>3, <1>4, <1>5, <1>6, <1>7

LEMMA ReturnShapes ==
  ASSUME StoreType, ReturnStep
  PROVE  QueueShape /\ ConnShape /\ LaneShape /\ Completes
<1>1. Completes
  BY ReturnSteps DEF Returns, Completes
<1>2. txn.call \in GoodCalls
  BY <1>1, CompletingCall
<1>3. CASE HelloReturns \/ CaseReturns \/ PlayedReturns \/ OtherReturns
  BY <1>1, <1>3 DEF HelloReturns, CaseReturns, PlayedReturns, OtherReturns, Returned, Running, FrameOps,
     QueueShape, ConnShape, LaneShape
<1>4. CASE AdmissionReturns
  <2>1. txn.call.op \in {"request", "mobile"}
    BY <1>4 DEF AdmissionReturns, Returned, Running
  <2>2. txn.call.r \in Requests
    BY <1>2, <2>1, LaneAssumption DEF GoodCalls, CallOK
  <2>3. /\ conn' = conn \/ (txn.call.op \in FrameOps /\ conn' = Idle(txn.call.k))
        /\ current' = current
    BY <1>4 DEF AdmissionReturns, FrameOps
  <2>4. ConnShape
    BY <1>1, <2>3 DEF ConnShape
  <2>5. txn.call.k \in Conns
    BY <1>2, <2>1, FrameConn DEF GoodCalls, FrameOps
  <2>6. (Launch(txn.call.r) /\ IsCurrent(txn.call.k) /\ ~Working) \/ NoLaunch
    BY <1>4 DEF AdmissionReturns
  <2>7. (Launch(txn.call.r) /\ Opens) \/ NoLaunch
    BY <1>1, <2>1, <2>3, <2>5, <2>6 DEF Opens, IsCurrent
  <2> QED BY <1>1, <2>2, <2>4, <2>7, LaunchShapes
<1>5. CASE ResetReturns
  <2>1. txn.call.op = "reset" /\ conn' = conn /\ tail' = tail
    BY <1>5 DEF ResetReturns, Returned, Running, CallMediator
  <2>2. LaneShape
    BY <1>1, <1>5, <2>1 DEF ResetReturns, CallMediator, LaneShape, LaneOps
  <2> QED BY <1>1, <2>1, <2>2 DEF QueueShape, ConnShape
<1>6. CASE DeliverReturns \/ FailReturns
  BY <1>1, <1>6 DEF DeliverReturns, FailReturns, Returned, Running, LaneOps, QueueShape, ConnShape, LaneShape
<1> QED BY <1>1, <1>3, <1>4, <1>5, <1>6 DEF ReturnStep

LEMMA FailShapes ==
  ASSUME StoreType, FailStep \/ CommitFailsVisible
  PROVE  QueueShape /\ ConnShape /\ LaneShape /\ Completes
<1>1. Completes
  BY FailSteps DEF Fails, Completes, CommitFailsVisible
<1>2. txn.call \in GoodCalls
  BY <1>1, CompletingCall
<1>3. tail' = tail
  BY DEF FailStep, UnwrittenHello, UnwrittenAdmission, UnwrittenHalt, UnwrittenOther, Unwritten,
     CommitFailsVisible
<1>4. QueueShape
  BY <1>1, <1>3 DEF QueueShape
<1>5. CASE UnwrittenHello \/ UnwrittenOther
  <2>1. lanes' = lanes /\ (UnwrittenHello \/ conn' = conn)
    BY <1>5 DEF UnwrittenHello, UnwrittenOther
  <2> QED BY <1>1, <1>4, <2>1 DEF ConnShape, LaneShape
<1>6. CASE UnwrittenAdmission
  <2>1. lanes' = lanes /\ (conn' = conn \/ (txn.call.op = "request" /\ conn' = Idle(txn.call.k)))
    BY <1>6 DEF UnwrittenAdmission
  <2> QED BY <1>1, <1>4, <2>1 DEF FrameOps, ConnShape, LaneShape
<1>7. CASE UnwrittenHalt \/ CommitFailsVisible
  <2>1. \/ conn' = conn
        \/ txn.call.op \in FrameOps /\ conn' = Idle(txn.call.k)
    <3>1. CASE UnwrittenHalt
      <4>1. txn.call.op \in {"case", "played"} \cup LaneOps
        BY <3>1 DEF UnwrittenHalt, Unwritten, Running
      <4>2. txn.call.l = None => txn.call.op \in FrameOps
        BY <1>2, <4>1, CallKinds DEF FrameOps
      <4> QED BY <3>1, <4>2 DEF UnwrittenHalt
    <3>2. CASE CommitFailsVisible
      BY <3>2 DEF CommitFailsVisible
    <3> QED BY <1>7, <3>1, <3>2
  <2>2. lanes' = lanes \/ (txn.call.op \in LaneOps /\ EndLane(txn.call.l))
    BY <1>2, <1>7, CallKinds DEF UnwrittenHalt, CommitFailsVisible
  <2>3. ConnShape
    BY <1>1, <2>1 DEF ConnShape
  <2>4. LaneShape
    BY <1>1, <2>2 DEF LaneShape
  <2> QED BY <1>1, <1>4, <2>3, <2>4
<1> QED BY <1>1, <1>4, <1>5, <1>6, <1>7 DEF FailStep

LEMMA OtherShapes ==
  ASSUME StoreType, LinkType,
         \/ TimerFires \/ CaseChanges \/ SubmitOther \/ RenameState
         \/ Stop \/ BeginExit \/ Recover \/ UNCHANGED vars
  PROVE  QueueShape /\ ConnShape /\ LaneShape /\ GoesOn
<1>1. GoesOn
  <2>1. CASE RenameState
    <3>1. txn' = [txn EXCEPT !.phase = "renamed"] /\ txn \in Transactions /\ txn # None
      BY <2>1 DEF RenameState, StoreType, TxnType
    <3>2. txn' \in Transactions /\ txn'.call = txn.call
      BY <3>1 DEF Transactions
    <3> QED BY <3>1, <3>2, NoneAssumption DEF GoesOn
  <2> QED BY <2>1 DEF TimerFires, CaseChanges, SubmitOther, Stop, BeginExit, Recover, vars, GoesOn
<1>2. CASE TimerFires
  <2>1. conn' = conn /\ current' = current /\ timer # None
    BY <1>2 DEF TimerFires
  <2>2. \/ NoLaunch
        \/ dev.pending # None /\ Launch(dev.pending.req) /\ ~Working /\ IsCurrent(timer)
    BY <1>2 DEF TimerFires
  <2>3. dev.pending # None => dev.pending.req \in Requests
    BY PendingRecord DEF StoreType
  <2>4. timer \in Conns
    BY <2>1 DEF LinkType
  <2>5. ConnShape
    BY <2>1 DEF ConnShape
  <2>6. CASE NoLaunch
    BY <1>1, <2>5, <2>6 DEF NoLaunch, QueueShape, LaneShape
  <2>7. CASE dev.pending # None /\ Launch(dev.pending.req) /\ ~Working /\ IsCurrent(timer)
    <3>1. Opens
      BY <2>1, <2>4, <2>7 DEF Opens, IsCurrent
    <3> QED BY <1>1, <2>3, <2>5, <2>7, <3>1, LaunchShapes
  <2> QED BY <2>2, <2>6, <2>7
<1>3. CASE SubmitOther
  <2>1. Call("other", None, None, None, None) \in GoodCalls
    BY NewCall DEF CallOK, Call, LaneOps
  <2>2. Arrives(Call("other", None, None, None, None))
    BY DEF Arrives, Call
  <2> QED BY <1>1, <1>3, <2>1, <2>2 DEF SubmitOther, QueueShape, ConnShape, LaneShape
<1>4. CASE CaseChanges \/ RenameState \/ Stop \/ BeginExit \/ Recover \/ UNCHANGED vars
  BY <1>1, <1>4 DEF CaseChanges, RenameState, Stop, BeginExit, Recover, vars, QueueShape, ConnShape,
     LaneShape
<1> QED BY <1>1, <1>2, <1>3, <1>4

LEMMA EndShapes ==
  ASSUME EndStep
  PROVE  QueueShape /\ ConnShape /\ LaneShape /\ ForgetProcess
BY EndSteps DEF Ends, ForgetProcess, QueueShape, ConnShape, LaneShape

LEMMA Shapes ==
  ASSUME StoreType, LinkType, WorkType, [Next]_vars
  PROVE  QueueShape /\ ConnShape /\ LaneShape
BY NextSteps, BeginShapes, FrameShapes, ProviderShapes, DropShapes, ReturnShapes, FailShapes, OtherShapes,
   EndShapes DEF StillStep

----------------------------------------------------------------------------
(* Lanes.                                                                  *)

LaneType == lanes \in [LaneIds -> {None} \cup Mediations]

LEMMA LaneRecord ==
  ASSUME LaneType, NEW l \in LaneIds, lanes[l] # None
  PROVE  lanes[l] \in Mediations /\ lanes[l].req \in Requests /\ lanes[l].step \in Steps
BY DEF LaneType, Mediations

LEMMA SupersedeLanes ==
  ASSUME LaneType, lanes' = Supersede(lanes)
  PROVE  /\ LaneType'
         /\ \A l \in LaneIds : /\ ~Live(l)' /\ (lanes'[l] = None <=> lanes[l] = None)
                               /\ lanes[l] # None => lanes'[l].req = lanes[l].req
                                                     /\ lanes'[l].step = lanes[l].step
<1> DEFINE f == lanes
           dead == FALSE
           g == [l \in LaneIds |-> IF f[l] = None THEN None ELSE [f[l] EXCEPT !.live = dead]]
           h == lanes'
<1>1. h = g
  BY DEF Supersede
<1>2. f \in [LaneIds -> {None} \cup Mediations]
  BY DEF LaneType
<1>3. dead \in BOOLEAN
  OBVIOUS
<1>4. ~dead
  OBVIOUS
<1> HIDE DEF f, h, dead
<1>5. ASSUME NEW l \in LaneIds, f[l] # None
      PROVE  h[l] \in Mediations /\ h[l].req = f[l].req /\ h[l].step = f[l].step /\ h[l].live = dead
  BY <1>1, <1>2, <1>3, <1>5 DEF Mediations
<1>6. ASSUME NEW l \in LaneIds, f[l] = None PROVE h[l] = None
  BY <1>1, <1>6
<1>7. \A l \in LaneIds : f[l] # None => h[l] # None
  BY <1>5, NoneAssumption
<1>8. ASSUME NEW l \in LaneIds, h[l] # None, h[l].live PROVE FALSE
  <2>1. h[l].live = dead
    BY <1>5, <1>6, <1>8
  <2> QED BY <2>1, <1>4, <1>8, Zenon
<1>9. h \in [LaneIds -> {None} \cup Mediations]
  BY <1>1, <1>5, <1>6
<1> QED BY <1>5, <1>6, <1>7, <1>8, <1>9 DEF LaneType, Live, f, h

LEMMA EndLanes ==
  ASSUME LaneType, NEW l \in LaneIds, EndLane(l)
  PROVE  LaneType' /\ lanes'[l] = None /\ \A m \in LaneIds : m # l => lanes'[m] = lanes[m]
BY DEF LaneType, EndLane

LEMMA GoToLanes ==
  ASSUME LaneType, NEW l \in LaneIds, lanes[l] # None, NEW step \in Steps, GoTo(l, step)
  PROVE  /\ LaneType' /\ lanes'[l] # None /\ lanes'[l].step = step
         /\ lanes'[l].req = lanes[l].req /\ lanes'[l].live = lanes[l].live
         /\ \A m \in LaneIds : m # l => lanes'[m] = lanes[m]
<1> DEFINE g == lanes'
           x == [lanes[l] EXCEPT !.step = step]
<1>1. g = [lanes EXCEPT ![l] = x]
  BY DEF GoTo
<1>2. lanes[l] \in Mediations
  BY LaneRecord
<1>3. x \in Mediations /\ x.step = step /\ x.req = lanes[l].req /\ x.live = lanes[l].live
  BY <1>2 DEF Mediations
<1>4. x # None
  BY <1>3, NoneAssumption
<1> HIDE DEF g, x
<1>5. g \in [LaneIds -> {None} \cup Mediations] /\ g[l] = x /\ \A m \in LaneIds : m # l => g[m] = lanes[m]
  BY <1>1, <1>3 DEF LaneType
<1> QED BY <1>3, <1>4, <1>5 DEF LaneType, g

\* The new lane is the only live one.
LEMMA LaunchLanes ==
  ASSUME LaneType, NEW r \in Requests, NEW l \in LaneIds, StartsLane(l, r)
  PROVE  /\ LaneType' /\ lanes[l] = None /\ lanes'[l] # None /\ lanes'[l].step = "reset" /\ lanes'[l].req = r
         /\ \A m \in LaneIds : m # l =>
              /\ ~Live(m)' /\ (lanes'[m] = None <=> lanes[m] = None)
              /\ lanes[m] # None => lanes'[m].req = lanes[m].req /\ lanes'[m].step = lanes[m].step
<1>1. /\ lanes[l] = None
      /\ lanes' = [Supersede(lanes) EXCEPT ![l] = [req |-> r, step |-> "reset", live |-> TRUE]]
  BY DEF StartsLane
<1> DEFINE f == lanes
           dead == FALSE
           s == [m \in LaneIds |-> IF f[m] = None THEN None ELSE [f[m] EXCEPT !.live = dead]]
           h == lanes'
           x == [req |-> r, step |-> "reset", live |-> TRUE]
<1>2. h = [s EXCEPT ![l] = x]
  BY <1>1 DEF Supersede
<1>3. f \in [LaneIds -> {None} \cup Mediations]
  BY DEF LaneType
<1>4. dead \in BOOLEAN
  OBVIOUS
<1>5. ~dead
  OBVIOUS
<1>6. x \in Mediations /\ x.step = "reset" /\ x.req = r
  BY DEF Mediations, Steps
<1>7. x # None
  BY <1>6, NoneAssumption
<1> HIDE DEF f, h, dead, x
<1>8. ASSUME NEW m \in LaneIds, m # l, f[m] # None
      PROVE  h[m] \in Mediations /\ h[m].req = f[m].req /\ h[m].step = f[m].step /\ h[m].live = dead
  BY <1>2, <1>3, <1>4, <1>8 DEF Mediations
<1>9. ASSUME NEW m \in LaneIds, m # l, f[m] = None PROVE h[m] = None
  BY <1>2, <1>9
<1>10. \A m \in LaneIds : m # l /\ f[m] # None => h[m] # None
  BY <1>8, NoneAssumption
<1>11. ASSUME NEW m \in LaneIds, m # l, h[m] # None, h[m].live PROVE FALSE
  <2>1. h[m].live = dead
    BY <1>8, <1>9, <1>11
  <2> QED BY <2>1, <1>5, <1>11, Zenon
<1>12. h[l] = x
  BY <1>2
<1>13. h \in [LaneIds -> {None} \cup Mediations]
  BY <1>2, <1>6, <1>8, <1>9, <1>12
<1>14. LaneType' /\ lanes[l] = None /\ lanes'[l] # None /\ lanes'[l].step = "reset" /\ lanes'[l].req = r
  BY <1>1, <1>6, <1>7, <1>12, <1>13 DEF LaneType, h
<1>15. \A m \in LaneIds : m # l =>
                /\ ~Live(m)' /\ (lanes'[m] = None <=> lanes[m] = None)
                /\ lanes[m] # None => lanes'[m].req = lanes[m].req /\ lanes'[m].step = lanes[m].step
  BY <1>8, <1>9, <1>10, <1>11 DEF Live, f, h
<1> QED BY <1>14, <1>15

----------------------------------------------------------------------------
(* Types are kept.                                                         *)

LEMMA WorkTypes == WorkType <=> LaneType /\ tail \in Seq(GoodCalls)
BY DEF WorkType, LaneType

LEMMA QueueTypeStep ==
  ASSUME WorkType, QueueShape
  PROVE  tail' \in Seq(GoodCalls)
<1>1. CASE tail' = tail
  BY <1>1 DEF WorkType
<1>2. ASSUME NEW call \in GoodCalls, Enqueue(call) PROVE tail' \in Seq(GoodCalls)
  BY <1>2, AppendProperties DEF WorkType, Enqueue
<1>3. CASE Leaves
  BY <1>3, FirstCall DEF Leaves
<1>4. CASE tail' = <<>>
  BY <1>4, EmptySeq
<1> QED BY <1>1, <1>2, <1>3, <1>4 DEF QueueShape, Starts, Drops

\* The step of a lane that goes on.
LEMMA Goings ==
  ASSUME NEW l \in LaneIds,
         \/ MediationCurrent(l) /\ GoTo(l, "first")
         \/ MediatorAnswers(l) \/ SpeechAnswers(l)
  PROVE  lanes[l] # None /\ \E step \in Steps : GoTo(l, step)
<1>1. lanes[l] # None
  BY DEF MediationCurrent, Live, MediatorAnswers, SpeechAnswers, Answered
<1>2. \E step \in Steps : GoTo(l, step)
  BY DEF MediatorAnswers, SpeechAnswers, Failing, Steps
<1> QED BY <1>1, <1>2

LEMMA LaneTypeStep ==
  ASSUME StoreType, WorkType, LaneShape
  PROVE  LaneType'
<1>0. LaneType
  BY WorkTypes
<1>1. CASE lanes' = lanes
  BY <1>0, <1>1 DEF LaneType
<1>2. CASE lanes' = Supersede(lanes)
  BY <1>0, <1>2, SupersedeLanes
<1>3. CASE Drops /\ Call1.op \in LaneOps /\ EndLane(Call1.l)
  BY <1>0, <1>3, LeavingCall, CallKinds, EndLanes DEF Drops
<1>4. CASE Completes /\ txn.call.op \in LaneOps /\ EndLane(txn.call.l)
  BY <1>0, <1>4, CompletingCall, CallKinds, EndLanes
<1>5. CASE BeginReset /\ Drops /\ GoTo(Call1.l, "first")
  <2>1. Call1.l \in LaneIds
    BY <1>5, LeavingCall, CallKinds DEF Drops, BeginReset, Starting, LaneOps
  <2>2. MediationCurrent(Call1.l)
    BY <1>5 DEF BeginReset
  <2> QED BY <1>0, <1>5, <2>1, <2>2, Goings, GoToLanes
<1>6. CASE ResetReturns /\ MediationCurrent(txn.call.l) /\ GoTo(txn.call.l, "first")
  <2>1. Completes /\ txn.call.op = "reset"
    BY <1>6 DEF ResetReturns, Returned, Running, Completes
  <2>2. txn.call.l \in LaneIds
    BY <2>1, CompletingCall, CallKinds DEF LaneOps
  <2> QED BY <1>0, <1>6, <2>2, Goings, GoToLanes
<1>7. ASSUME NEW l \in LaneIds, StaleAnswer(l) PROVE LaneType'
  BY <1>0, <1>7, EndLanes DEF StaleAnswer
<1>8. ASSUME NEW l \in LaneIds, MediatorAnswers(l) \/ SpeechAnswers(l) PROVE LaneType'
  BY <1>0, <1>8, Goings, GoToLanes
<1>9. ASSUME NEW r \in Requests, NEW l \in LaneIds, StartsLane(l, r) PROVE LaneType'
  BY <1>0, <1>9, LaunchLanes
<1>10. CASE ForgetProcess
  BY <1>10 DEF ForgetProcess, LaneType
<1> QED BY <1>1, <1>2, <1>3, <1>4, <1>5, <1>6, <1>7, <1>8, <1>9, <1>10 DEF LaneShape

LEMMA StreamOf ==
  ASSUME NEW r \in Requests, NEW b \in BOOLEAN
  PROVE  [req |-> r, whole |-> b] \in Streams
BY DEF Streams

\* A lane that is current opens the stream, and closes it.
LEMMA SpeechConns ==
  ASSUME LinkType, WorkType, NEW l \in LaneIds, SpeechAnswers(l)
  PROVE  \/ conn' = conn /\ (~Delivers(current) \/ GoTo(l, "fail"))
         \/ /\ current \in Conns /\ ConnType' /\ current # None /\ conn[current].phase = "open"
            /\ conn'[current].audio # None /\ conn'[current].audio.req = lanes[l].req
            /\ ~conn'[current].audio.whole
            /\ \A j \in Conns : conn'[j].busy = conn[j].busy /\ conn'[j].phase = conn[j].phase
                                /\ (j # current => conn'[j] = conn[j])
<1> DEFINE s == [req |-> lanes[l].req, whole |-> FALSE]
<1>1. lanes[l] # None
  BY DEF SpeechAnswers, MediationCurrent, Live
<1>2. lanes[l].req \in Requests
  BY <1>1, LaneRecord, WorkTypes
<1>3. s \in Streams /\ s.req = lanes[l].req /\ ~s.whole
  BY <1>2, StreamOf
<1>4. s # None
  BY <1>3, NoneAssumption
<1>5. \/ conn' = conn /\ (~Delivers(current) \/ GoTo(l, "fail"))
      \/ Delivers(current) /\ conn' = [conn EXCEPT ![current].audio = s]
  BY DEF SpeechAnswers, Failing
<1> HIDE DEF s
<1>6. CASE Delivers(current) /\ conn' = [conn EXCEPT ![current].audio = s]
  <2>1. current \in Conns /\ current # None /\ conn[current].phase = "open"
    BY <1>6 DEF Delivers, LinkType
  <2>2. ConnType /\ s \in Streams /\ conn' = [conn EXCEPT ![current].audio = s]
    BY <1>3, <1>6, LinkTypes
  <2>3. /\ ConnType' /\ conn'[current].audio = s
        /\ \A j \in Conns : conn'[j].busy = conn[j].busy /\ conn'[j].phase = conn[j].phase
                             /\ (j # current => conn'[j] = conn[j])
    BY <2>1, <2>2, AudioConns
  <2> QED BY <1>3, <1>4, <2>1, <2>3
<1> QED BY <1>5, <1>6

LEMMA DeliverConns ==
  ASSUME LinkType, StoreType, WorkType, DeliverReturns
  PROVE  \/ conn' = conn
         \/ /\ current \in Conns /\ ConnType' /\ current # None /\ conn[current].phase = "open"
            /\ MediationCurrent(txn.call.l)
            /\ conn'[current].audio # None /\ conn'[current].audio.req = lanes[txn.call.l].req
            /\ \A j \in Conns : conn'[j].busy = conn[j].busy /\ conn'[j].phase = conn[j].phase
                                /\ (j # current => conn'[j] = conn[j])
<1> DEFINE l == txn.call.l
           s == [req |-> lanes[l].req, whole |-> TRUE]
<1>0. Completes /\ txn.call.op = "deliver"
  BY DEF DeliverReturns, Returned, Running, Completes
<1>1. l \in LaneIds
  BY <1>0, CompletingCall, CallKinds DEF LaneOps
<1>2. conn' = conn \/ (MediationCurrent(l) /\ Delivers(current) /\ conn' = [conn EXCEPT ![current].audio = s])
  BY DEF DeliverReturns
<1>3. CASE MediationCurrent(l) /\ Delivers(current) /\ conn' = [conn EXCEPT ![current].audio = s]
  <2>1. lanes[l].req \in Requests
    BY <1>1, <1>3, LaneRecord, WorkTypes DEF MediationCurrent, Live
  <2>2. s \in Streams /\ s.req = lanes[l].req
    BY <2>1, StreamOf
  <2>3. s # None
    BY <2>2, NoneAssumption
  <2> HIDE DEF s
  <2>4. current \in Conns /\ current # None /\ conn[current].phase = "open"
    BY <1>3 DEF Delivers, LinkType
  <2>5. ConnType /\ s \in Streams /\ conn' = [conn EXCEPT ![current].audio = s]
    BY <1>3, <2>2, LinkTypes
  <2>6. /\ ConnType' /\ conn'[current].audio = s
        /\ \A j \in Conns : conn'[j].busy = conn[j].busy /\ conn'[j].phase = conn[j].phase
                             /\ (j # current => conn'[j] = conn[j])
    BY <2>4, <2>5, AudioConns
  <2> QED BY <1>3, <2>2, <2>3, <2>4, <2>6
<1> QED BY <1>2, <1>3

LEMMA ConnTypeStep ==
  ASSUME LinkType, StoreType, WorkType, ConnShape
  PROVE  ConnType'
<1>0. ConnType
  BY LinkTypes
<1>1. CASE conn' = conn
  BY <1>0, <1>1 DEF ConnType
<1>2. ASSUME NEW k \in Conns, SendHello(k) \/ CloseConnection(k) PROVE ConnType'
  BY <1>0, <1>2, SendHelloConns, CloseConns
<1>3. ASSUME NEW k \in Conns, conn' = [conn EXCEPT ![k].busy = TRUE] PROVE ConnType'
  BY <1>0, <1>3, BusyType
<1>4. CASE BeginHello
  BY <1>0, <1>4, HelloConns
<1>5. CASE Drops /\ Call1.op \in FrameOps /\ conn' = Idle(Call1.k)
  BY <1>0, <1>5, LeavingCall, CallKinds, IdleConns DEF Drops
<1>6. CASE Completes /\ txn.call.op \in FrameOps /\ conn' = Idle(txn.call.k)
  BY <1>0, <1>6, CompletingCall, CallKinds, IdleConns
<1>7. ASSUME NEW l \in LaneIds, SpeechAnswers(l) PROVE ConnType'
  BY <1>1, <1>7, SpeechConns
<1>8. CASE DeliverReturns
  BY <1>1, <1>8, DeliverConns
<1>9. CASE UnwrittenHello
  BY <1>0, <1>9, UnwrittenHelloConns
<1>10. CASE ForgetProcess
  <2>1. NoConn \in ConnRec
    BY DEF NoConn, ConnRec
  <2> QED BY <1>10, <2>1 DEF ForgetProcess, ConnType
<1> QED BY <1>1, <1>2, <1>3, <1>4, <1>5, <1>6, <1>7, <1>8, <1>9, <1>10 DEF ConnShape

CurrentShape == current' = current \/ BeginHello \/ (ForgetProcess /\ current' = None)

\* The timer is set for the connection that is current.
Resumes(k) ==
  /\ k \in Conns /\ timer' = k /\ IsCurrent(k) /\ conn'[k].phase = "open" /\ current' = current
  /\ Drops \/ (Completes /\ tail' = tail)
  /\ ~Working

TimerShape == timer' \in {timer, None} \/ \E k \in Conns : Resumes(k)

LEMMA ResumeFacts ==
  ASSUME NEW k, NEW dv, ScheduleResume(k, dv)
  PROVE  timer' = None \/ (timer' = k /\ IsCurrent(k) /\ ~Working)
BY DEF ScheduleResume, ClearTimer

LEMMA TimerShapes ==
  ASSUME StoreType, LinkType, WorkType, [Next]_vars
  PROVE  TimerShape
<1>0. ConnType
  BY LinkTypes
<1>1. CASE MobileReuses
  <2>1. Drops /\ Call1.op = "mobile" /\ ScheduleResume(Call1.k, dev) /\ UNCHANGED <<conn, current>>
    BY <1>1, DropShapes DEF MobileReuses, MobileMayGoOn, Starting
  <2>2. Call1.k \in Conns
    BY <2>1, LeavingCall, FrameConn DEF Drops, GoodCalls
  <2> QED BY <2>1, <2>2, ResumeFacts DEF TimerShape, Resumes, IsCurrent
<1>2. CASE HelloReturns
  <2>1. Completes /\ txn.call.op = "hello" /\ ScheduleResume(txn.call.k, dev) /\ UNCHANGED <<tail, current>>
        /\ conn' = Idle(txn.call.k)
    BY <1>2 DEF HelloReturns, Returned, Running, Completes
  <2>2. txn.call.k \in Conns
    BY <2>1, CompletingCall, CallKinds DEF FrameOps
  <2>3. \A j \in Conns : conn'[j].phase = conn[j].phase
    BY <1>0, <2>1, <2>2, IdleConns
  <2> QED BY <2>1, <2>2, <2>3, ResumeFacts DEF TimerShape, Resumes, IsCurrent
<1>3. CASE UnwrittenAdmission
  <2>1. Completes /\ txn.call.op \in {"request", "mobile"} /\ UNCHANGED <<tail, current>>
        /\ (conn' = Idle(txn.call.k) \/ conn' = conn)
        /\ (timer' = timer \/ ScheduleResume(txn.call.k, txn.back))
    BY <1>3 DEF UnwrittenAdmission, Unwritten, Running, Completes
  <2>2. txn.call.k \in Conns
    BY <2>1, CompletingCall, FrameConn DEF GoodCalls, FrameOps
  <2>3. \A j \in Conns : conn'[j].phase = conn[j].phase
    BY <1>0, <2>1, <2>2, IdleConns
  <2>4. CASE ScheduleResume(txn.call.k, txn.back)
    BY <2>1, <2>2, <2>3, <2>4, ResumeFacts DEF TimerShape, Resumes, IsCurrent
  <2> QED BY <2>1, <2>4 DEF TimerShape
<1>4. ASSUME ~MobileReuses, ~HelloReturns, ~UnwrittenAdmission PROVE timer' \in {timer, None}
  <2>1. CASE StillStep \/ UNCHANGED vars
    BY <1>4, <2>1 DEF StillStep, FrameStep, SendHello, CloseConnection, RequestLostCase, SendCaseStart,
       RepeatRequest, SendRequest, SendPlayed, AskMobile, ProviderStep, Answer, StaleAnswer, MediatorAnswers,
       SpeechAnswers, MobileRefused, PlayedRefused, LaneGivesUp, RefuseTransaction, BeginReset, TimerFires,
       CaseChanges, SubmitOther, ClearTimer, vars
  <2>2. CASE \/ BeginHello \/ BeginOther \/ BeginCase \/ BeginPlayed \/ BeginRequest \/ BeginMobile
             \/ BeginDeliver \/ BeginFail \/ BeginReset
    BY <2>2 DEF BeginHello, BeginOther, BeginCase, BeginPlayed, BeginRequest, BeginMobile, BeginDeliver,
       BeginFail, BeginReset, BeginAdmission, ClearTimer
  <2>3. CASE ReturnStep
    BY <1>4, <2>3 DEF ReturnStep, CaseReturns, AdmissionReturns, PlayedReturns, OtherReturns, ResetReturns,
       DeliverReturns, FailReturns
  <2>4. CASE FailStep \/ CommitFailsVisible
    BY <1>4, <2>4 DEF FailStep, UnwrittenHello, UnwrittenHalt, UnwrittenOther, CommitFailsVisible
  <2>5. CASE EndStep \/ RenameState \/ Stop \/ BeginExit \/ Recover
    BY <2>5 DEF EndStep, FinishExit, Crash, ForgetProcess, RenameState, Stop, BeginExit, Recover
  <2> QED BY <2>1, <2>2, <2>3, <2>4, <2>5, NextSteps
<1> QED BY <1>1, <1>2, <1>3, <1>4 DEF TimerShape

LEMMA CurrentShapes ==
  ASSUME [Next]_vars
  PROVE  CurrentShape
<1>1. CASE StillStep \/ UNCHANGED vars
  BY <1>1 DEF StillStep, FrameStep, SendHello, CloseConnection, RequestLostCase, SendCaseStart,
       RepeatRequest, SendRequest, SendPlayed, AskMobile, ProviderStep, Answer, StaleAnswer, MediatorAnswers,
       SpeechAnswers, MobileRefused, MobileReuses, PlayedRefused, LaneGivesUp, RefuseTransaction, BeginReset,
       TimerFires, CaseChanges, SubmitOther, vars, CurrentShape
<1>2. CASE \/ BeginOther \/ BeginCase \/ BeginPlayed \/ BeginRequest \/ BeginMobile
           \/ BeginDeliver \/ BeginFail \/ BeginReset
  BY <1>2 DEF BeginOther, BeginCase, BeginPlayed, BeginRequest, BeginMobile, BeginDeliver,
       BeginFail, BeginReset, BeginAdmission, CurrentShape
<1>3. CASE ReturnStep
  BY <1>3 DEF ReturnStep, HelloReturns, CaseReturns, AdmissionReturns, PlayedReturns, OtherReturns, ResetReturns,
     DeliverReturns, FailReturns, CurrentShape
<1>4. CASE FailStep \/ CommitFailsVisible
  BY <1>4 DEF FailStep, UnwrittenHello, UnwrittenAdmission, UnwrittenHalt, UnwrittenOther, Unwritten,
     CommitFailsVisible, CurrentShape
<1>5. CASE EndStep
  <2>1. ForgetProcess
    BY <1>5, EndShapes
  <2> QED BY <2>1 DEF ForgetProcess, CurrentShape
<1>6. CASE RenameState \/ Stop \/ BeginExit \/ Recover
  BY <1>6 DEF RenameState, Stop, BeginExit, Recover, CurrentShape
<1> QED BY <1>1, <1>2, <1>3, <1>4, <1>5, <1>6, NextSteps DEF CurrentShape

LEMMA SpentStep ==
  ASSUME SpentType, [Next]_vars
  PROVE  /\ SpentType' /\ spent.made \in Nat /\ spent'.made \in Nat
         /\ \/ spent'.made = spent.made
            \/ \E r \in Requests : spent'.made = r /\ MayAsk(r, Requests)
<1>1. \/ spent' = spent
      \/ \E r \in Requests : spent' = [spent EXCEPT !.made = r] /\ MayAsk(r, Requests)
      \/ spent' = [spent EXCEPT !.others = @ + 1]
      \/ spent' = [spent EXCEPT !.faults = @ + 1]
      \/ spent' = [spent EXCEPT !.stops = @ + 1]
  <2>1. CASE FrameStep
    BY <2>1, LaneAssumption DEF FrameStep, SendHello, CloseConnection, RequestLostCase, SendCaseStart,
       RepeatRequest, SendRequest, SendPlayed, AskMobile, MayAsk
  <2>2. CASE StillStep /\ ~FrameStep
    BY <2>2 DEF StillStep, ProviderStep, Answer, StaleAnswer, MediatorAnswers,
       SpeechAnswers, MobileRefused, MobileReuses, PlayedRefused, LaneGivesUp, RefuseTransaction, BeginReset,
       TimerFires, CaseChanges, SubmitOther
  <2>3. CASE \/ BeginHello \/ BeginOther \/ BeginCase \/ BeginPlayed \/ BeginRequest \/ BeginMobile
             \/ BeginDeliver \/ BeginFail \/ BeginReset
    BY <2>3 DEF BeginHello, BeginOther, BeginCase, BeginPlayed, BeginRequest, BeginMobile, BeginDeliver,
       BeginFail, BeginReset, BeginAdmission
  <2>4. CASE ReturnStep
    BY <2>4 DEF ReturnStep, HelloReturns, CaseReturns, AdmissionReturns, PlayedReturns, OtherReturns,
       ResetReturns, DeliverReturns, FailReturns
  <2>5. CASE FailStep \/ CommitFailsVisible
    BY <2>5 DEF FailStep, UnwrittenHello, UnwrittenAdmission, UnwrittenHalt, UnwrittenOther, Unwritten,
       DiskFault, CommitFailsVisible
  <2>6. CASE EndStep \/ RenameState \/ Stop \/ BeginExit \/ Recover \/ UNCHANGED vars
    BY <2>6 DEF EndStep, FinishExit, Crash, RenameState, Stop, BeginExit, Recover, vars
  <2> QED BY <2>1, <2>2, <2>3, <2>4, <2>5, <2>6, NextSteps
<1>2. \A r \in Requests : r \in Nat
  BY LaneAssumption
<1> QED BY <1>1, <1>2 DEF SpentType

----------------------------------------------------------------------------
(* Memory and disk.                                                        *)

StoreInv ==
  /\ txn = None => dev = disk
  /\ txn # None =>
       /\ mode # "down" /\ writable
       /\ dev = txn.snap
       /\ txn.phase = "writing" => disk = txn.back
       /\ txn.phase = "renamed" => disk = txn.snap /\ undo = txn.back
       /\ Effect(txn.call, txn.back, txn.snap)
  /\ undo # None => ~writable \/ (txn # None /\ txn.phase = "renamed")
  /\ ~writable => mode = "stopping" /\ txn = None
  /\ mode = "down" => txn = None
  /\ exit # None => mode = "stopping" /\ (txn # None => exit = dev)

\* What a restart may find, and what memory has.
Snaps == {dev, disk} \cup ({undo, exit} \ {None})

LEMMA StartTxn ==
  ASSUME StoreType, Begins
  PROVE  /\ txn' \in Transactions /\ txn' # None /\ txn'.call = Call1 /\ txn'.snap = dev' /\ txn'.back = dev
         /\ txn'.phase = "writing"
<1>1. txn' = [call |-> Call1, snap |-> dev', back |-> dev, phase |-> "writing"]
  BY DEF Begins
<1>2. Call1 \in Calls /\ dev \in Snapshots /\ dev' \in Snapshots
  BY DEF Begins, GoodCalls, StoreType
<1>3. txn' \in Transactions
  BY <1>1, <1>2 DEF Transactions
<1>4. txn' # None
  BY <1>3, NoneAssumption
<1> QED BY <1>1, <1>3, <1>4

LEMMA RenamedTxn ==
  ASSUME StoreType, Renames
  PROVE  /\ txn \in Transactions /\ txn' \in Transactions /\ txn' # None /\ txn'.call = txn.call
         /\ txn'.snap = txn.snap /\ txn'.back = txn.back /\ txn'.phase = "renamed"
<1>1. txn \in Transactions /\ txn' = [txn EXCEPT !.phase = "renamed"]
  BY DEF Renames, StoreType, TxnType
<1>2. txn' \in Transactions /\ txn'.call = txn.call
         /\ txn'.snap = txn.snap /\ txn'.back = txn.back /\ txn'.phase = "renamed"
  BY <1>1 DEF Transactions
<1>3. txn' # None
  BY <1>2, NoneAssumption
<1> QED BY <1>1, <1>2, <1>3

LEMMA TxnFields ==
  ASSUME StoreType, txn # None
  PROVE  /\ txn.call \in GoodCalls /\ txn.snap \in Snapshots /\ txn.back \in Snapshots
         /\ txn.phase \in {"writing", "renamed"}
BY DEF StoreType, TxnType, Transactions

LEMMA StoreTypeStep ==
  ASSUME StoreType, StoreStep
  PROVE  StoreType'
<1>1. CASE Still
  BY <1>1 DEF Still, StoreType, TxnType
<1>2. CASE Begins
  <2>1. Call1 \in GoodCalls /\ dev' \in Snapshots /\ UNCHANGED <<disk, undo, exit, mode, writable>>
    BY <1>2 DEF Begins
  <2> QED BY <1>2, <2>1, StartTxn DEF StoreType, TxnType
<1>3. CASE Renames
  <2>1. disk' = txn.snap /\ undo' = disk /\ UNCHANGED <<dev, exit, mode, writable>> /\ txn # None
    BY <1>3 DEF Renames
  <2>2. txn.call \in GoodCalls /\ txn.snap \in Snapshots
    BY <2>1, TxnFields
  <2> QED BY <1>3, <2>1, <2>2, RenamedTxn DEF StoreType, TxnType
<1>4. CASE Returns \/ FailsLate
  BY <1>4 DEF Returns, FailsLate, StoreType, TxnType
<1>5. CASE Fails
  <2>1. txn.back \in Snapshots
    BY <1>5, TxnFields DEF Fails
  <2> QED BY <1>5, <2>1 DEF Fails, StoreType, TxnType
<1>6. CASE Stops \/ Takes \/ Restarts
  BY <1>6 DEF Stops, Takes, Restarts, StoreType, TxnType
<1>7. CASE Ends
  BY <1>7 DEF Ends, ForgetProcess, StoreType, TxnType
<1> QED BY <1>1, <1>2, <1>3, <1>4, <1>5, <1>6, <1>7 DEF StoreStep

LEMMA StoreInvStep ==
  ASSUME StoreType, StoreInv, StoreStep
  PROVE  StoreInv'
<1>1. CASE Still
  BY <1>1 DEF Still, StoreInv
<1>2. CASE Begins
  <2>1. /\ mode = "up" /\ writable /\ txn = None /\ Effect(Call1, dev, dev')
        /\ UNCHANGED <<disk, undo, exit, mode, writable>>
    BY <1>2 DEF Begins
  <2>2. /\ txn' # None /\ txn'.call = Call1 /\ txn'.snap = dev' /\ txn'.back = dev
        /\ txn'.phase = "writing"
    BY <1>2, StartTxn
  <2>3. dev = disk /\ undo = None /\ exit = None
    BY <2>1 DEF StoreInv
  <2> QED BY <2>1, <2>2, <2>3 DEF StoreInv
<1>3. CASE Renames
  <2>1. /\ disk' = txn.snap /\ undo' = disk /\ UNCHANGED <<dev, exit, mode, writable>>
        /\ txn # None /\ txn.phase = "writing"
    BY <1>3 DEF Renames
  <2> QED BY <1>3, <2>1, RenamedTxn DEF StoreInv
<1>4. CASE Returns
  BY <1>4 DEF Returns, StoreInv
<1>5. CASE FailsLate
  BY <1>5 DEF FailsLate, StoreInv
<1>6. CASE Fails
  <2>1. txn # None /\ txn.phase = "writing" /\ txn' = None /\ UNCHANGED <<disk, undo, exit>>
        /\ dev' = IF txn.call.op \in {"hello", "other"} THEN dev ELSE txn.back
    BY <1>6 DEF Fails
  <2>2. UNCHANGED <<mode, writable>> \/ (mode' = "stopping" /\ writable' = FALSE)
    BY <1>6 DEF Fails
  <2>3. dev' = disk
    BY <2>1 DEF StoreInv, Effect
  <2>4. undo = None /\ writable /\ mode # "down"
    BY <2>1 DEF StoreInv
  <2> QED BY <2>1, <2>2, <2>3, <2>4 DEF StoreInv
<1>7. CASE Stops
  BY <1>7 DEF Stops, StoreInv
<1>8. CASE Takes
  BY <1>8 DEF Takes, StoreInv
<1>9. CASE Ends
  BY <1>9 DEF Ends, ForgetProcess, StoreInv
<1>10. CASE Restarts
  BY <1>10 DEF Restarts, StoreInv
<1> QED BY <1>1, <1>2, <1>3, <1>4, <1>5, <1>6, <1>7, <1>8, <1>9, <1>10 DEF StoreStep

\* Nothing new comes to be but what a transaction makes.
LEMMA SnapsStep ==
  ASSUME StoreType, StoreInv, StoreStep
  PROVE  Snaps' \subseteq Snaps \cup (IF Begins THEN {dev'} ELSE {})
<1>1. CASE Still
  BY <1>1 DEF Still, Snaps
<1>2. CASE Begins
  BY <1>2 DEF Begins, Snaps
<1>3. CASE Renames
  BY <1>3 DEF Renames, Snaps, StoreInv
<1>4. CASE Returns \/ FailsLate
  BY <1>4 DEF Returns, FailsLate, Snaps
<1>5. CASE Fails
  BY <1>5 DEF Fails, Snaps, StoreInv
<1>6. CASE Stops \/ Takes
  BY <1>6 DEF Stops, Takes, Snaps
<1>7. CASE Ends
  BY <1>7 DEF Ends, ForgetProcess, Snaps
<1>8. CASE Restarts
  BY <1>8 DEF Restarts, Snaps
<1> QED BY <1>1, <1>2, <1>3, <1>4, <1>5, <1>6, <1>7, <1>8 DEF StoreStep

LEMMA SnapsTyped ==
  ASSUME StoreType
  PROVE  Snaps \subseteq Snapshots
BY DEF StoreType, Snaps

\* All agree with memory.
LEMMA Agreement ==
  ASSUME StoreType, StoreInv
  PROVE  /\ txn = None /\ mode = "up" => Snaps = {dev}
         /\ Returns => Snaps' = {dev'} /\ dev' = dev
         /\ Fails /\ mode = "up" /\ mode' = "up" => Snaps' = {dev'}
<1>1. ASSUME txn = None, mode = "up" PROVE Snaps = {dev}
  BY <1>1 DEF StoreInv, Snaps
<1>2. ASSUME Returns PROVE Snaps' = {dev'} /\ dev' = dev
  BY <1>2 DEF Returns, StoreInv, Snaps
<1>3. ASSUME Fails, mode = "up", mode' = "up" PROVE Snaps' = {dev'}
  BY <1>3 DEF Fails, StoreInv, Snaps, Effect
<1> QED BY <1>1, <1>2, <1>3

----------------------------------------------------------------------------
(* Who waits for which transaction.                                        *)

\* A frame keeps its connection busy, and a lane stays at its step.
Owns(call) ==
  /\ call.op \in FrameOps => conn[call.k].busy
  /\ call.op \in LaneOps => lanes[call.l] # None /\ lanes[call.l].step = call.op

OwnsNext(call) ==
  /\ call.op \in FrameOps => conn'[call.k].busy
  /\ call.op \in LaneOps => lanes'[call.l] # None /\ lanes'[call.l].step = call.op

Apart(a, b) ==
  /\ a.op \in FrameOps /\ b.op \in FrameOps => a.k # b.k
  /\ a.op \in LaneOps /\ b.op \in LaneOps => a.l # b.l

ApartInv ==
  /\ \A i, j \in DOMAIN tail : i # j => Apart(tail[i], tail[j])
  /\ txn # None => \A i \in DOMAIN tail : Apart(tail[i], txn.call)

OwnInv ==
  /\ \A i \in DOMAIN tail : Owns(tail[i])
  /\ txn # None => Owns(txn.call)

LEMMA QueuedCall ==
  ASSUME WorkType, NEW i \in DOMAIN tail
  PROVE  tail[i] \in GoodCalls /\ i \in Nat /\ i >= 1
BY ElementOfSeq, LenProperties DEF WorkType

\* Positions in what is left of the queue, and in a longer one.
LEMMA Shorter ==
  ASSUME WorkType, Leaves, NEW i \in DOMAIN tail'
  PROVE  /\ i + 1 \in DOMAIN tail /\ tail'[i] = tail[i + 1] /\ i + 1 # 1 /\ 1 \in DOMAIN tail
         /\ Call1 = tail[1] /\ i \in Nat /\ i >= 1
<1> DEFINE s == tail
           t == tail'
<1>1. s \in Seq(GoodCalls) /\ s # <<>> /\ t = Tail(s) /\ i \in DOMAIN t
  BY DEF WorkType, Leaves
<1>2. Call1 = s[1] /\ 1 \in DOMAIN s
  BY FirstCall DEF Leaves
<1> HIDE DEF s, t
<1>3. /\ Len(t) = Len(s) - 1 /\ t \in Seq(GoodCalls) /\ Len(s) \in Nat
      /\ \A j \in 1..Len(t) : t[j] = s[j + 1]
  BY <1>1, HeadTailProperties, LenProperties
<1>4. DOMAIN t = 1..Len(t) /\ DOMAIN s = 1..Len(s)
  BY <1>1, <1>3, LenProperties
<1> QED BY <1>1, <1>2, <1>3, <1>4 DEF s, t

LEMMA Longer ==
  ASSUME WorkType, NEW call \in GoodCalls, Enqueue(call), NEW i \in DOMAIN tail'
  PROVE  /\ i \in Nat /\ i >= 1
         /\ \/ i \in DOMAIN tail /\ tail'[i] = tail[i]
            \/ i = Len(tail) + 1 /\ tail'[i] = call /\ \A j \in DOMAIN tail : j < i
<1> DEFINE s == tail
           t == tail'
<1>1. s \in Seq(GoodCalls) /\ t = Append(s, call) /\ i \in DOMAIN t
  BY DEF WorkType, Enqueue
<1> HIDE DEF s, t
<1>2. /\ t \in Seq(GoodCalls) /\ Len(t) = Len(s) + 1 /\ Len(s) \in Nat
      /\ t[Len(t)] = call /\ \A j \in 1..Len(s) : t[j] = s[j]
  BY <1>1, AppendProperties, LenProperties
<1>3. DOMAIN t = 1..Len(t) /\ DOMAIN s = 1..Len(s)
  BY <1>1, <1>2, LenProperties
<1> QED BY <1>1, <1>2, <1>3 DEF s, t

LEMMA NotBoth ==
  ASSUME WorkType, Leaves
  PROVE  tail' # tail /\ \A call \in GoodCalls : ~Enqueue(call)
<1> DEFINE s == tail
           t == tail'
<1>1. s \in Seq(GoodCalls) /\ s # <<>> /\ t = Tail(s)
  BY DEF WorkType, Leaves
<1> HIDE DEF s, t
<1>2. Len(t) = Len(s) - 1 /\ Len(s) \in Nat
  BY <1>1, HeadTailProperties, LenProperties
<1>3. ASSUME NEW call \in GoodCalls, t = Append(s, call) PROVE FALSE
  <2>1. Len(t) = Len(s) + 1
    BY <1>1, <1>3, AppendProperties
  <2> QED BY <1>2, <2>1
<1>4. t # s
  BY <1>2
<1> QED BY <1>3, <1>4 DEF s, t, Enqueue

\* A call that arrives has not got its owner yet.
LEMMA ArrivesApart ==
  ASSUME NEW call \in GoodCalls, Arrives(call), NEW other \in GoodCalls, Owns(other)
  PROVE  Apart(call, other) /\ Apart(other, call)
<1>1. ASSUME call.op \in FrameOps PROVE ~conn[call.k].busy
  BY <1>1 DEF Arrives, FrameOps, SendHello, SendCaseStart, SendRequest, SendPlayed, Ready
<1>2. ASSUME call.op \in LaneOps PROVE lanes[call.l] = None \/ lanes[call.l].step \notin LaneOps
  BY <1>2 DEF Arrives, LaneOps, StartsLane
<1> QED BY <1>1, <1>2 DEF Apart, Owns

LEMMA ApartStep ==
  ASSUME StoreType, WorkType, ApartInv, OwnInv, QueueShape
  PROVE  ApartInv'
<1>1. CASE tail' = tail /\ (GoesOn \/ Completes)
  BY <1>1 DEF GoesOn, Completes, ApartInv, Apart
<1>2. ASSUME NEW call \in GoodCalls, Enqueue(call), Arrives(call), GoesOn \/ Completes
      PROVE  ApartInv'
  <2>1. \A i \in DOMAIN tail : Apart(tail[i], call) /\ Apart(call, tail[i])
    BY <1>2, ArrivesApart, QueuedCall DEF OwnInv
  <2>2. txn # None => Apart(call, txn.call)
    BY <1>2, ArrivesApart, TxnFields DEF OwnInv
  <2>3. ASSUME NEW i \in DOMAIN tail', NEW j \in DOMAIN tail', i # j
        PROVE  Apart(tail'[i], tail'[j])
    BY <1>2, <2>1, <2>3, Longer DEF ApartInv
  <2>4. ASSUME txn' # None, NEW i \in DOMAIN tail' PROVE Apart(tail'[i], txn'.call)
    <3>1. txn # None /\ txn'.call = txn.call
      BY <1>2, <2>4 DEF GoesOn, Completes
    <3> QED BY <1>2, <2>2, <2>4, <3>1, Longer DEF ApartInv
  <2> QED BY <2>3, <2>4 DEF ApartInv, Apart
<1>3. CASE Starts \/ Drops
  <2>0. Leaves
    BY <1>3 DEF Starts, Drops
  <2>1. ASSUME NEW i \in DOMAIN tail', NEW j \in DOMAIN tail', i # j
        PROVE  Apart(tail'[i], tail'[j])
    <3>1. i + 1 # j + 1
      BY <2>0, <2>1, Shorter
    <3> QED BY <2>0, <2>1, <3>1, Shorter DEF ApartInv
  <2>2. ASSUME txn' # None, NEW i \in DOMAIN tail' PROVE Apart(tail'[i], txn'.call)
    <3>1. txn'.call = tail[1]
      BY <1>3, <2>0, <2>2, Shorter DEF Starts, Drops
    <3> QED BY <2>0, <2>2, <3>1, Shorter DEF ApartInv
  <2> QED BY <2>1, <2>2 DEF ApartInv, Apart
<1>4. CASE tail' = <<>> /\ txn' = None
  <2>1. DOMAIN tail' = {}
    BY <1>4
  <2> QED BY <1>4, <2>1 DEF ApartInv
<1> QED BY <1>1, <1>2, <1>3, <1>4 DEF QueueShape

\* The calls whose owner goes on: neither dropped nor completed by the step.
Dropped(call)   == Drops /\ ~Apart(call, Call1)
Completed(call) == Completes /\ ~Apart(call, txn.call)

LEMMA ConnKept ==
  ASSUME LinkType, StoreType, WorkType, ConnShape, NEW k \in Conns, conn[k].busy
  PROVE  \/ conn'[k].busy \/ ForgetProcess
         \/ Drops /\ Call1.op \in FrameOps /\ k = Call1.k
         \/ Completes /\ txn.call.op \in FrameOps /\ k = txn.call.k
<1>0. ConnType
  BY LinkTypes
<1>1. ASSUME NEW j \in Conns, SendHello(j) \/ CloseConnection(j) PROVE conn'[k].busy
  BY <1>0, <1>1, SendHelloConns, CloseConns
<1>2. ASSUME NEW j \in Conns, conn' = [conn EXCEPT ![j].busy = TRUE] PROVE conn'[k].busy
  BY <1>0, <1>2, BusyType
<1>3. ASSUME BeginHello PROVE conn'[k].busy
  BY <1>0, <1>3, HelloConns
<1>4. ASSUME Drops, Call1.op \in FrameOps, conn' = Idle(Call1.k), k # Call1.k PROVE conn'[k].busy
  BY <1>0, <1>4, LeavingCall, CallKinds, IdleConns DEF Drops
<1>5. ASSUME Completes, txn.call.op \in FrameOps, conn' = Idle(txn.call.k), k # txn.call.k PROVE conn'[k].busy
  BY <1>0, <1>5, CompletingCall, CallKinds, IdleConns
<1>6. ASSUME NEW l \in LaneIds, SpeechAnswers(l) PROVE conn'[k].busy
  BY <1>0, <1>6, SpeechConns
<1>7. ASSUME DeliverReturns PROVE conn'[k].busy
  BY <1>0, <1>7, DeliverConns
<1>8. ASSUME UnwrittenHello, k # txn.call.k PROVE conn'[k].busy
  BY <1>0, <1>8, UnwrittenHelloConns
<1>9. UnwrittenHello => Completes /\ txn.call.op \in FrameOps
  BY DEF UnwrittenHello, Unwritten, Running, Completes, FrameOps
<1> QED BY <1>1, <1>2, <1>3, <1>4, <1>5, <1>6, <1>7, <1>8, <1>9 DEF ConnShape

LEMMA LaneKept ==
  ASSUME StoreType, WorkType, LaneShape, OwnInv, NEW l \in LaneIds, lanes[l] # None, lanes[l].step \in LaneOps
  PROVE  \/ lanes'[l] # None /\ lanes'[l].step = lanes[l].step
         \/ ForgetProcess
         \/ Drops /\ Call1.op \in LaneOps /\ l = Call1.l
         \/ Completes /\ txn.call.op \in LaneOps /\ l = txn.call.l
<1> DEFINE Kept == lanes'[l] # None /\ lanes'[l].step = lanes[l].step
<1>0. LaneType
  BY WorkTypes
<1>1. ASSUME lanes' = lanes \/ lanes' = Supersede(lanes) PROVE Kept
  BY <1>0, <1>1, SupersedeLanes
<1>2. ASSUME Drops, Call1.op \in LaneOps, EndLane(Call1.l), l # Call1.l PROVE Kept
  BY <1>0, <1>2, LeavingCall, CallKinds, EndLanes DEF Drops
<1>3. ASSUME Completes, txn.call.op \in LaneOps, EndLane(txn.call.l), l # txn.call.l PROVE Kept
  BY <1>0, <1>3, CompletingCall, CallKinds, EndLanes
<1>4. ASSUME BeginReset, Drops, GoTo(Call1.l, "first"), l # Call1.l PROVE Kept
  <2>1. Call1.l \in LaneIds /\ MediationCurrent(Call1.l)
    BY <1>4, LeavingCall, CallKinds DEF Drops, BeginReset, Starting, LaneOps
  <2> QED BY <1>0, <1>4, <2>1, Goings, GoToLanes DEF Steps
<1>5. BeginReset /\ Drops => Call1.op \in LaneOps
  BY DEF BeginReset, Starting, LaneOps
<1>6. ResetReturns => Completes /\ txn.call.op \in LaneOps
  BY DEF ResetReturns, Returned, Running, Completes, LaneOps
<1>7. ASSUME ResetReturns, MediationCurrent(txn.call.l), GoTo(txn.call.l, "first"), l # txn.call.l PROVE Kept
  <2>1. txn.call.l \in LaneIds
    BY <1>6, <1>7, CompletingCall, CallKinds
  <2> QED BY <1>0, <1>7, <2>1, Goings, GoToLanes DEF Steps
<1>8. ASSUME NEW m \in LaneIds, StaleAnswer(m) \/ MediatorAnswers(m) \/ SpeechAnswers(m) PROVE Kept
  <2>1. m # l
    BY <1>8 DEF StaleAnswer, MediatorAnswers, SpeechAnswers, Answered, LaneOps
  <2>2. lanes'[l] = lanes[l]
    BY <1>0, <1>8, <2>1, Goings, GoToLanes, EndLanes DEF StaleAnswer
  <2> QED BY <2>2
<1>9. ASSUME NEW r \in Requests, NEW m \in LaneIds, StartsLane(m, r) PROVE Kept
  <2>1. m # l
    BY <1>9 DEF StartsLane
  <2> QED BY <1>0, <1>9, <2>1, LaunchLanes
<1> QED BY <1>1, <1>2, <1>3, <1>4, <1>5, <1>6, <1>7, <1>8, <1>9 DEF LaneShape

LEMMA OwnKept ==
  ASSUME LinkType, StoreType, WorkType, ConnShape, LaneShape, OwnInv, ~ForgetProcess,
         NEW call \in GoodCalls, Owns(call), ~Dropped(call), ~Completed(call)
  PROVE  OwnsNext(call)
<1>1. ASSUME call.op \in FrameOps PROVE conn'[call.k].busy
  <2>1. call.k \in Conns /\ conn[call.k].busy
    BY <1>1, CallKinds DEF Owns
  <2> QED BY <1>1, <2>1, ConnKept DEF Dropped, Completed, Apart
<1>2. ASSUME call.op \in LaneOps PROVE lanes'[call.l] # None /\ lanes'[call.l].step = call.op
  <2>1. call.l \in LaneIds /\ lanes[call.l] # None /\ lanes[call.l].step = call.op
    BY <1>2, CallKinds DEF Owns
  <2> QED BY <1>2, <2>1, LaneKept DEF Dropped, Completed, Apart
<1> QED BY <1>1, <1>2 DEF OwnsNext

LEMMA ArrivesOwned ==
  ASSUME LinkType, StoreType, WorkType, NEW call \in GoodCalls, Arrives(call)
  PROVE  OwnsNext(call)
<1>0. ConnType /\ LaneType
  BY LinkTypes, WorkTypes
<1>1. ASSUME call.op \in FrameOps PROVE conn'[call.k].busy
  <2>1. call.k \in Conns
    BY <1>1, CallKinds
  <2>2. SendHello(call.k) \/ conn' = [conn EXCEPT ![call.k].busy = TRUE]
    BY <1>1 DEF FrameOps, Arrives, SendCaseStart, SendRequest
  <2> QED BY <1>0, <2>1, <2>2, SendHelloConns, BusyType
<1>2. ASSUME call.op \in LaneOps PROVE lanes'[call.l] # None /\ lanes'[call.l].step = call.op
  <2>1. call.l \in LaneIds
    BY <1>2, CallKinds
  <2>2. CASE call.op = "reset"
    BY <1>0, <2>1, <2>2, LaunchLanes DEF Arrives
  <2>3. CASE call.op \in {"deliver", "fail"}
    <3>1. GoTo(call.l, call.op) /\ lanes[call.l] # None
      BY <2>3 DEF Arrives, MediationCurrent, Live
    <3> QED BY <1>0, <2>1, <2>3, <3>1, GoToLanes DEF Steps
  <2> QED BY <1>2, <2>2, <2>3 DEF LaneOps
<1> QED BY <1>1, <1>2 DEF OwnsNext

LEMMA OwnStep ==
  ASSUME LinkType, StoreType, WorkType, ApartInv, OwnInv, QueueShape, ConnShape, LaneShape
  PROVE  OwnInv'
<1>1. CASE ForgetProcess
  <2>1. tail' = <<>> /\ txn' = None
    BY <1>1 DEF ForgetProcess
  <2>2. DOMAIN tail' = {}
    BY <2>1
  <2> QED BY <2>1, <2>2 DEF OwnInv
<1>2. CASE ~ForgetProcess /\ (GoesOn \/ Completes) /\ (tail' = tail \/ \E call \in GoodCalls : Enqueue(call) /\ Arrives(call))
  <2>1. ASSUME NEW call \in GoodCalls, Owns(call), Completes => Apart(call, txn.call) PROVE OwnsNext(call)
    <3>1. ~Dropped(call) /\ ~Completed(call)
      BY <1>2, <2>1, NotBoth DEF Dropped, Completed, Drops
    <3> QED BY <1>2, <2>1, <3>1, OwnKept
  <2>2. ASSUME txn' # None PROVE OwnsNext(txn'.call)
    <3>1. txn # None /\ txn'.call = txn.call /\ ~Completes
      BY <1>2, <2>2 DEF GoesOn, Completes
    <3>2. txn.call \in GoodCalls /\ Owns(txn.call)
      BY <3>1, TxnFields DEF OwnInv
    <3> DEFINE call == txn.call
    <3>3. call \in GoodCalls /\ Owns(call) /\ txn'.call = call
      BY <3>1, <3>2
    <3> HIDE DEF call
    <3> QED BY <2>1, <3>1, <3>3
  <2>3. ASSUME NEW i \in DOMAIN tail PROVE OwnsNext(tail[i])
    <3>1. tail[i] \in GoodCalls /\ Owns(tail[i]) /\ (Completes => Apart(tail[i], txn.call))
      BY QueuedCall DEF OwnInv, ApartInv, Completes
    <3> DEFINE call == tail[i]
    <3> HIDE DEF call
    <3> QED BY <2>1, <3>1 DEF call
  <2>4. ASSUME NEW i \in DOMAIN tail' PROVE OwnsNext(tail'[i])
    <3>1. CASE tail' = tail
      BY <2>3, <2>4, <3>1
    <3>2. ASSUME NEW call \in GoodCalls, Enqueue(call), Arrives(call) PROVE OwnsNext(tail'[i])
      BY <2>3, <2>4, <3>2, Longer, ArrivesOwned
    <3> QED BY <1>2, <3>1, <3>2
  <2> QED BY <2>2, <2>4 DEF OwnInv, Owns, OwnsNext
<1>3. CASE ~ForgetProcess /\ (Starts \/ Drops)
  <2>0. Leaves /\ ~Completes
    BY <1>3 DEF Starts, Drops, Leaves, Completes
  <2>1. ASSUME NEW call \in GoodCalls, Owns(call), Drops => Apart(call, Call1) PROVE OwnsNext(call)
    <3>1. ~Dropped(call) /\ ~Completed(call)
      BY <2>0, <2>1 DEF Dropped, Completed
    <3> QED BY <1>3, <2>1, <3>1, OwnKept
  <2>2. ASSUME txn' # None PROVE OwnsNext(txn'.call)
    <3>1. txn'.call = Call1 /\ ~Drops
      BY <1>3, <2>2 DEF Starts, Drops
    <3>2. Call1 \in GoodCalls /\ Owns(Call1)
      BY <2>0, FirstCall, LeavingCall DEF OwnInv, Leaves
    <3>3. OwnsNext(Call1)
      <4> DEFINE call == Call1
      <4>1. call \in GoodCalls /\ Owns(call)
        BY <3>2
      <4> HIDE DEF call
      <4> QED BY <2>1, <3>1, <4>1 DEF call
    <3> QED BY <3>1, <3>3
  <2>3. ASSUME NEW i \in DOMAIN tail' PROVE OwnsNext(tail'[i])
    <3>1. i + 1 \in DOMAIN tail /\ tail'[i] = tail[i + 1] /\ i + 1 # 1 /\ 1 \in DOMAIN tail /\ Call1 = tail[1]
      BY <2>0, <2>3, Shorter
    <3>2. tail'[i] \in GoodCalls /\ Owns(tail'[i]) /\ Apart(tail'[i], Call1)
      BY <3>1, QueuedCall DEF OwnInv, ApartInv
    <3> DEFINE call == tail'[i]
    <3>3. call \in GoodCalls /\ Owns(call) /\ Apart(call, Call1)
      BY <3>2
    <3>4. call = tail'[i]
      OBVIOUS
    <3> HIDE DEF call
    <3> QED BY <2>1, <3>3, <3>4
  <2> QED BY <2>2, <2>3 DEF OwnInv, Owns, OwnsNext
<1>4. CASE ~ForgetProcess /\ tail' = <<>> /\ txn' = None
  <2>1. DOMAIN tail' = {}
    BY <1>4
  <2> QED BY <1>4, <2>1 DEF OwnInv
<1> QED BY <1>1, <1>2, <1>3, <1>4 DEF QueueShape

----------------------------------------------------------------------------
(* The live lane and the connection.                                       *)

OneLive == \A l, m \in LaneIds : Live(l) /\ Live(m) => l = m

\* A lane that goes to its next step.
Advances(l) ==
  \/ BeginReset /\ l = Call1.l /\ ~dev.pending.ready /\ GoTo(l, "first")
  \/ ResetReturns /\ l = txn.call.l /\ MediationCurrent(l) /\ GoTo(l, "first")
  \/ MediatorAnswers(l)
  \/ SpeechAnswers(l)

Continues(l) ==
  /\ Live(l) /\ lanes'[l] # None /\ lanes'[l].req = lanes[l].req
  /\ lanes'[l] = lanes[l] \/ Advances(l)

Others(l) == \A m \in LaneIds : m # l => ~Live(m)'

\* The lanes that are live after a step were live before it, but for a new one.
LiveShape ==
  \/ Opens /\ \E r \in Requests, l \in LaneIds :
       StartsLane(l, r) /\ lanes'[l].step = "reset" /\ lanes'[l].req = r /\ Others(l)
  \/ \A l \in LaneIds : Live(l)' => Continues(l)

LEMMA NoneLive ==
  ASSUME \A l \in LaneIds : ~Live(l)'
  PROVE  LiveShape
BY DEF LiveShape

LEMMA EndsLive ==
  ASSUME LaneType, NEW l \in LaneIds, EndLane(l)
  PROVE  LiveShape
<1>1. /\ lanes'[l] = None /\ \A m \in LaneIds : m # l => lanes'[m] = lanes[m]
  BY EndLanes
<1>2. \A m \in LaneIds : Live(m)' => Continues(m)
  BY <1>1 DEF Live, Continues
<1> QED BY <1>2 DEF LiveShape

LEMMA AdvancesLive ==
  ASSUME LaneType, NEW l \in LaneIds, NEW step \in Steps, GoTo(l, step), lanes[l] # None, Advances(l)
  PROVE  LiveShape
<1>1. /\ lanes'[l] # None /\ lanes'[l].req = lanes[l].req /\ lanes'[l].live = lanes[l].live
      /\ \A m \in LaneIds : m # l => lanes'[m] = lanes[m]
  BY GoToLanes
<1>2. ASSUME NEW m \in LaneIds, Live(m)' PROVE Continues(m)
  <2>1. CASE m # l
    BY <1>1, <1>2, <2>1 DEF Live, Continues
  <2>2. CASE m = l
    BY <1>1, <1>2, <2>2 DEF Live, Continues
  <2> QED BY <2>1, <2>2
<1> QED BY <1>2 DEF LiveShape

LEMMA LiveShapes ==
  ASSUME StoreType, WorkType, LaneShape
  PROVE  LiveShape
<1>0. LaneType
  BY WorkTypes
<1>1. CASE lanes' = lanes
  <2>1. \A m \in LaneIds : Live(m)' => Continues(m)
    BY <1>1 DEF Live, Continues
  <2> QED BY <2>1 DEF LiveShape
<1>2. CASE lanes' = Supersede(lanes)
  BY <1>0, <1>2, SupersedeLanes, NoneLive
<1>3. CASE Drops /\ Call1.op \in LaneOps /\ EndLane(Call1.l)
  BY <1>0, <1>3, LeavingCall, CallKinds, EndsLive DEF Drops
<1>4. CASE Completes /\ txn.call.op \in LaneOps /\ EndLane(txn.call.l)
  BY <1>0, <1>4, CompletingCall, CallKinds, EndsLive
<1>5. CASE BeginReset /\ Drops /\ ~dev.pending.ready /\ GoTo(Call1.l, "first")
  <2>1. Call1.l \in LaneIds
    BY <1>5, LeavingCall, CallKinds DEF Drops, BeginReset, Starting, LaneOps
  <2>2. lanes[Call1.l] # None
    BY <1>5 DEF BeginReset, MediationCurrent, Live
  <2>3. Advances(Call1.l)
    BY <1>5 DEF Advances
  <2> QED BY <1>0, <1>5, <2>1, <2>2, <2>3, AdvancesLive DEF Steps
<1>6. CASE ResetReturns /\ MediationCurrent(txn.call.l) /\ GoTo(txn.call.l, "first")
  <2>1. Completes /\ txn.call.op = "reset"
    BY <1>6 DEF ResetReturns, Returned, Running, Completes
  <2>2. txn.call.l \in LaneIds
    BY <2>1, CompletingCall, CallKinds DEF LaneOps
  <2>3. lanes[txn.call.l] # None /\ Advances(txn.call.l)
    BY <1>6 DEF MediationCurrent, Live, Advances
  <2> QED BY <1>0, <1>6, <2>2, <2>3, AdvancesLive DEF Steps
<1>7. ASSUME NEW l \in LaneIds, StaleAnswer(l) PROVE LiveShape
  BY <1>0, <1>7, EndsLive DEF StaleAnswer
<1>8. ASSUME NEW l \in LaneIds, MediatorAnswers(l) \/ SpeechAnswers(l) PROVE LiveShape
  <2>1. lanes[l] # None /\ \E step \in Steps : GoTo(l, step)
    BY <1>8, Goings
  <2>2. Advances(l)
    BY <1>8 DEF Advances
  <2> QED BY <1>0, <2>1, <2>2, AdvancesLive
<1>9. ASSUME NEW r \in Requests, NEW l \in LaneIds, Opens, StartsLane(l, r) PROVE LiveShape
  <2>1. lanes'[l].step = "reset" /\ lanes'[l].req = r /\ \A m \in LaneIds : m # l => ~Live(m)'
    BY <1>0, <1>9, LaunchLanes
  <2> QED BY <1>9, <2>1 DEF LiveShape, Others
<1>10. CASE ForgetProcess
  <2>1. \A l \in LaneIds : ~Live(l)'
    BY <1>10 DEF ForgetProcess, Live
  <2> QED BY <2>1, NoneLive
<1> QED BY <1>1, <1>2, <1>3, <1>4, <1>5, <1>6, <1>7, <1>8, <1>9, <1>10 DEF LaneShape

LEMMA OneLiveStep ==
  ASSUME OneLive, LiveShape
  PROVE  OneLive'
<1>1. ASSUME NEW l \in LaneIds, Others(l) PROVE OneLive'
  BY <1>1 DEF Others, OneLive, Live
<1>2. ASSUME \A l \in LaneIds : Live(l)' => Continues(l) PROVE OneLive'
  BY <1>2 DEF OneLive, Continues, Live
<1> QED BY <1>1, <1>2 DEF LiveShape

\* A hello that waits has a connection that nothing else is about yet; one that runs has
\* made its connection the current one.
HelloInv ==
  /\ \A i \in DOMAIN tail : tail[i].op = "hello" =>
       timer # tail[i].k /\ conn[tail[i].k].phase \in {"closed", "hello"}
  /\ txn # None /\ txn.call.op = "hello" =>
       timer # txn.call.k /\ txn.call.k = current /\ \A l \in LaneIds : ~Live(l)

OpenInv == \A l \in LaneIds : Live(l) =>
  /\ current # None /\ conn[current].phase = "open"
  /\ lanes[l].step = "deliver" =>
       conn[current].audio # None /\ conn[current].audio.req = lanes[l].req

\* A connection that did not get through yet does not.
LEMMA EarlyPhase ==
  ASSUME LinkType, StoreType, WorkType, ConnShape, NEW k \in Conns,
         conn[k].phase \in {"closed", "hello"},
         BeginHello => k # Call1.k, UnwrittenHello => k # txn.call.k
  PROVE  conn'[k].phase \in {"closed", "hello"}
<1> DEFINE Early == conn'[k].phase \in {"closed", "hello"}
<1>0. ConnType
  BY LinkTypes
<1>1. ASSUME NEW j \in Conns, SendHello(j) \/ CloseConnection(j) PROVE Early
  <2>1. CASE j = k
    BY <1>0, <1>1, <2>1, SendHelloConns, CloseConns
  <2>2. CASE j # k
    BY <1>0, <1>1, <2>2, SendHelloConns, CloseConns
  <2> QED BY <2>1, <2>2
<1>2. ASSUME NEW j \in Conns, conn' = [conn EXCEPT ![j].busy = TRUE] PROVE Early
  BY <1>0, <1>2, BusyType
<1>3. ASSUME BeginHello PROVE Early
  BY <1>0, <1>3, HelloConns
<1>4. ASSUME Drops, Call1.op \in FrameOps, conn' = Idle(Call1.k) PROVE Early
  BY <1>0, <1>4, LeavingCall, CallKinds, IdleConns DEF Drops
<1>5. ASSUME Completes, txn.call.op \in FrameOps, conn' = Idle(txn.call.k) PROVE Early
  BY <1>0, <1>5, CompletingCall, CallKinds, IdleConns
<1>6. ASSUME NEW l \in LaneIds, SpeechAnswers(l) PROVE Early
  BY <1>0, <1>6, SpeechConns
<1>7. ASSUME DeliverReturns PROVE Early
  BY <1>0, <1>7, DeliverConns
<1>8. ASSUME UnwrittenHello PROVE Early
  BY <1>0, <1>8, UnwrittenHelloConns
<1>9. ASSUME ForgetProcess PROVE Early
  BY <1>9 DEF ForgetProcess, NoConn
<1> QED BY <1>1, <1>2, <1>3, <1>4, <1>5, <1>6, <1>7, <1>8, <1>9 DEF ConnShape

\* The groups of steps by what they do to the running transaction.
LEMMA RunShapes ==
  ASSUME StoreType, LinkType, WorkType, [Next]_vars
  PROVE  \/ (StillStep \/ UNCHANGED vars) /\ Still
         \/ Begin /\ Begins /\ Starts
         \/ ReturnStep /\ Returns /\ Completes
         \/ FailStep /\ Fails /\ Completes
         \/ CommitFailsVisible /\ FailsLate /\ Completes
         \/ EndStep /\ Ends /\ ForgetProcess
         \/ (RenameState \/ Stop \/ BeginExit \/ Recover) /\ GoesOn /\ conn' = conn /\ lanes' = lanes
              /\ current' = current /\ tail' = tail /\ timer' = timer
<1>1. CASE StillStep \/ UNCHANGED vars
  BY <1>1, StillSteps
<1>2. CASE \/ BeginHello \/ BeginOther \/ BeginCase \/ BeginPlayed \/ BeginRequest \/ BeginMobile
           \/ BeginDeliver \/ BeginFail \/ (BeginReset /\ dev.pending.ready)
  <2>1. Begins /\ Begin
    BY <1>2, BeginFrames, BeginLanes DEF Begin
  <2>2. Starts
    BY <2>1, StartTxn DEF Begins, Starts, Leaves
  <2> QED BY <2>1, <2>2
<1>3. CASE ReturnStep
  BY <1>3, ReturnSteps DEF Returns, Completes
<1>4. CASE FailStep
  BY <1>4, FailSteps DEF Fails, Completes
<1>5. CASE CommitFailsVisible
  BY <1>5 DEF CommitFailsVisible, Halt, FailsLate, Completes, store
<1>6. CASE EndStep
  BY <1>6, EndSteps, EndShapes
<1>7. CASE RenameState \/ Stop \/ BeginExit \/ Recover
  BY <1>7, OtherShapes DEF RenameState, Stop, BeginExit, Recover
<1> QED BY <1>1, <1>2, <1>3, <1>4, <1>5, <1>6, <1>7, NextSteps

LEMMA HelloStarts ==
  ASSUME StoreType, LinkType, WorkType, [Next]_vars, Starts
  PROVE  Begin /\ Begins /\ (Call1.op = "hello" => BeginHello) /\ txn'.call = Call1
<1>1. Begin /\ Begins
  BY RunShapes DEF Starts, Leaves, Still, Completes, ForgetProcess, GoesOn
<1>2. Call1.op = "hello" => BeginHello
  BY <1>1 DEF Begin, BeginOther, BeginCase, BeginPlayed, BeginRequest, BeginMobile, BeginDeliver, BeginFail,
     BeginReset, Starting, MobileMayGoOn
<1> QED BY <1>1, <1>2 DEF Starts

LEMMA HelloStep ==
  ASSUME StoreType, LinkType, WorkType, ApartInv, OwnInv, HelloInv, [Next]_vars,
         QueueShape, ConnShape, LaneShape, LiveShape, TimerShape, CurrentShape
  PROVE  HelloInv'
<1> DEFINE Waits(call) == timer' # call.k /\ conn'[call.k].phase \in {"closed", "hello"}
<1>1. ASSUME NEW call \in GoodCalls, call.op = "hello", timer # call.k, conn[call.k].phase \in {"closed", "hello"},
             Leaves => Apart(call, Call1), Completes => Apart(call, txn.call)
      PROVE  Waits(call)
  <2>1. call.k \in Conns /\ call.k # None /\ call.op \in FrameOps
    BY <1>1, CallKinds, LaneAssumption DEF FrameOps
  <2>2. timer' # call.k
    BY <1>1, <2>1 DEF TimerShape, Resumes, IsCurrent
  <2>3. BeginHello => call.k # Call1.k
    BY <1>1, <2>1 DEF BeginHello, Starting, Leaves, Apart, FrameOps
  <2>4. UnwrittenHello => call.k # txn.call.k
    BY <1>1, <2>1 DEF UnwrittenHello, Unwritten, Running, Completes, Apart, FrameOps
  <2> QED BY <1>1, <2>1, <2>2, <2>3, <2>4, EarlyPhase
<1>2. ASSUME NEW call \in GoodCalls, call.op = "hello", Arrives(call) PROVE Waits(call)
  <2>1. SendHello(call.k) /\ call.k \in Conns
    BY <1>2, CallKinds DEF Arrives, FrameOps
  <2>2. timer' = timer /\ timer # call.k
    BY <2>1 DEF SendHello
  <2> QED BY <2>1, <2>2, SendHelloConns, LinkTypes
<1> HIDE DEF Waits
<1>3. ASSUME NEW i \in DOMAIN tail, tail[i].op = "hello", Leaves => i # 1 PROVE Waits(tail[i])
  <2> DEFINE call == tail[i]
  <2>1. call \in GoodCalls /\ call.op = "hello" /\ timer # call.k /\ conn[call.k].phase \in {"closed", "hello"}
    BY <1>3, QueuedCall DEF HelloInv
  <2>2. Leaves => Apart(call, Call1)
    BY <1>3, FirstCall DEF ApartInv, Leaves
  <2>3. Completes => Apart(call, txn.call)
    BY DEF ApartInv, Completes
  <2> HIDE DEF call
  <2> QED BY <1>1, <2>1, <2>2, <2>3 DEF call
<1>4. ASSUME NEW i \in DOMAIN tail', tail'[i].op = "hello" PROVE Waits(tail'[i])
  <2>1. CASE tail' = tail
    BY <1>3, <1>4, <2>1, NotBoth
  <2>2. ASSUME NEW call \in GoodCalls, Enqueue(call), Arrives(call) PROVE Waits(tail'[i])
    BY <1>2, <1>3, <1>4, <2>2, Longer, NotBoth
  <2>3. CASE Leaves
    BY <1>3, <1>4, <2>3, Shorter
  <2>4. CASE tail' = <<>>
    BY <1>4, <2>4
  <2> QED BY <2>1, <2>2, <2>3, <2>4 DEF QueueShape, Starts, Drops
<1>5. ASSUME txn' # None, txn'.call.op = "hello"
      PROVE  timer' # txn'.call.k /\ txn'.call.k = current' /\ \A l \in LaneIds : ~Live(l)'
  <2>1. CASE txn # None /\ txn'.call = txn.call
    <3>1. timer # txn.call.k /\ txn.call.k = current /\ \A l \in LaneIds : ~Live(l)
      BY <1>5, <2>1 DEF HelloInv
    <3>2. txn.call.k \in Conns /\ txn.call.k # None /\ conn[txn.call.k].busy
      BY <1>5, <2>1, TxnFields, CallKinds, LaneAssumption DEF OwnInv, Owns, FrameOps
    <3>3. ~Completes /\ ~Drops /\ ~ForgetProcess /\ ~BeginHello
      BY <1>5, <2>1 DEF Completes, Drops, Leaves, ForgetProcess, BeginHello, Starting
    <3>4. timer' # txn.call.k
      BY <3>1, <3>2, <3>3 DEF TimerShape, Resumes
    <3>5. current' = current
      BY <3>3 DEF CurrentShape
    <3>6. ~Opens
      BY <3>1, <3>2, <3>3 DEF Opens, IsCurrent
    <3>7. \A l \in LaneIds : ~Live(l)'
      BY <3>1, <3>6 DEF LiveShape, Continues
    <3> QED BY <2>1, <3>1, <3>4, <3>5, <3>7
  <2>2. CASE Starts
    <3>1. txn'.call = Call1 /\ BeginHello /\ Leaves
      BY <1>5, <2>2, HelloStarts DEF Starts
    <3>2. timer' = timer /\ current' = Call1.k /\ lanes' = Supersede(lanes)
      BY <3>1 DEF BeginHello
    <3>3. timer # Call1.k
      BY <1>5, <3>1, FirstCall DEF HelloInv, Leaves
    <3>4. \A l \in LaneIds : ~Live(l)'
      BY <3>2, SupersedeLanes, WorkTypes
    <3> QED BY <3>1, <3>2, <3>3, <3>4
  <2> QED BY <1>5, <2>1, <2>2 DEF QueueShape, GoesOn, Completes, Drops
<1> QED BY <1>4, <1>5 DEF HelloInv, Waits, Live

\* What becomes of the connection that is current, if it is open.
LEMMA OpenConns ==
  ASSUME LinkType, StoreType, WorkType, ConnShape, current \in Conns, conn[current].phase = "open"
  PROVE  \/ CloseConnection(current) \/ BeginHello \/ UnwrittenHello \/ ForgetProcess
         \/ /\ conn'[current].phase = "open"
            /\ \/ conn'[current].audio = conn[current].audio
               \/ \E m \in LaneIds : SpeechAnswers(m)
               \/ DeliverReturns /\ MediationCurrent(txn.call.l)
<1> DEFINE Same1 == conn'[current].phase = "open" /\ conn'[current].audio = conn[current].audio
<1>0. ConnType
  BY LinkTypes
<1>1. ASSUME NEW j \in Conns, SendHello(j) PROVE Same1
  <2>1. j # current
    BY <1>1 DEF SendHello
  <2> QED BY <1>0, <1>1, <2>1, SendHelloConns
<1>2. ASSUME NEW j \in Conns, CloseConnection(j), j # current PROVE Same1
  BY <1>0, <1>2, CloseConns
<1>3. ASSUME NEW j \in Conns, conn' = [conn EXCEPT ![j].busy = TRUE] PROVE Same1
  BY <1>0, <1>3, BusyType
<1>4. ASSUME Drops, Call1.op \in FrameOps, conn' = Idle(Call1.k) PROVE Same1
  BY <1>0, <1>4, LeavingCall, CallKinds, IdleConns DEF Drops
<1>5. ASSUME Completes, txn.call.op \in FrameOps, conn' = Idle(txn.call.k) PROVE Same1
  BY <1>0, <1>5, CompletingCall, CallKinds, IdleConns
<1>6. ASSUME NEW l \in LaneIds, SpeechAnswers(l) PROVE conn'[current].phase = "open"
  BY <1>6, SpeechConns
<1>7. ASSUME DeliverReturns
      PROVE  Same1 \/ (conn'[current].phase = "open" /\ MediationCurrent(txn.call.l))
  BY <1>7, DeliverConns
<1> QED BY <1>1, <1>2, <1>3, <1>4, <1>5, <1>6, <1>7 DEF ConnShape

LEMMA OpenStep ==
  ASSUME StoreType, LinkType, WorkType, OneLive, HelloInv, OpenInv,
         ConnShape, LiveShape, CurrentShape
  PROVE  OpenInv'
<1> DEFINE Fine(l) ==
      /\ current' # None /\ conn'[current'].phase = "open"
      /\ lanes'[l].step = "deliver" =>
           conn'[current'].audio # None /\ conn'[current'].audio.req = lanes'[l].req
<1>1. ASSUME Opens, NEW l \in LaneIds, lanes'[l].step = "reset" PROVE Fine(l)
  <2>1. current \in Conns /\ current' = current /\ conn[current].phase = "open"
    BY <1>1 DEF Opens
  <2>2. conn'[current].phase = "open"
    BY <1>1, <2>1, CompletingCall, CallKinds, IdleConns, LinkTypes DEF Opens
  <2> QED BY <1>1, <2>1, <2>2, LaneAssumption
<1>2. ASSUME NEW l \in LaneIds, Live(l)', Continues(l) PROVE Fine(l)
  <2>1. Live(l) /\ current # None /\ conn[current].phase = "open" /\ lanes'[l].req = lanes[l].req
    BY <1>2 DEF Continues, OpenInv
  <2>2. current \in Conns
    BY <2>1 DEF LinkType
  <2>3. ~BeginHello /\ ~ForgetProcess /\ ~UnwrittenHello /\ ~CloseConnection(current)
    <3>1. ~(lanes' = Supersede(lanes)) /\ ~ForgetProcess
      BY <1>2, SupersedeLanes, WorkTypes DEF ForgetProcess, Live
    <3>2. ~UnwrittenHello
      BY <2>1 DEF UnwrittenHello, Unwritten, Running, HelloInv
    <3> QED BY <3>1, <3>2 DEF BeginHello, CloseConnection
  <2>4. current' = current
    BY <2>3 DEF CurrentShape
  <2>5. /\ conn'[current].phase = "open"
        /\ \/ conn'[current].audio = conn[current].audio
           \/ \E m \in LaneIds : SpeechAnswers(m)
           \/ DeliverReturns /\ MediationCurrent(txn.call.l)
    BY <2>1, <2>2, <2>3, OpenConns
  <2>6. ASSUME DeliverReturns, MediationCurrent(txn.call.l) PROVE FALSE
    <3>1. txn.call.l \in LaneIds
      BY <2>6, CompletingCall, CallKinds DEF DeliverReturns, Returned, Running, Completes, LaneOps
    <3>2. txn.call.l = l
      BY <2>1, <2>6, <3>1 DEF MediationCurrent, OneLive
    <3>3. EndLane(l)
      BY <2>6, <3>2 DEF DeliverReturns
    <3> QED BY <1>2, <3>3, EndLanes, WorkTypes DEF Live
  <2>7. ASSUME NEW m \in LaneIds, SpeechAnswers(m) PROVE m = l /\ lanes[l].step = "tts" /\ mode = "up"
    BY <2>1, <2>7 DEF SpeechAnswers, MediationCurrent, Answered, OneLive
  <2>8. ASSUME lanes'[l].step = "deliver"
        PROVE  conn'[current].audio # None /\ conn'[current].audio.req = lanes'[l].req
    <3>1. CASE lanes'[l] = lanes[l]
      <4>1. conn'[current].audio = conn[current].audio
        BY <2>5, <2>6, <2>7, <2>8, <3>1
      <4> QED BY <2>1, <2>8, <3>1, <4>1 DEF OpenInv
    <3>2. CASE SpeechAnswers(l)
      <4>1. lanes[l] # None /\ LaneType
        BY <2>1, WorkTypes DEF Live
      <4>2. ~GoTo(l, "fail")
        BY <2>8, <4>1, GoToLanes DEF Steps
      <4>3. Delivers(current)
        BY <2>1, <2>7, <3>2 DEF Delivers
      <4> QED BY <2>1, <3>2, <4>2, <4>3, SpeechConns
    <3>3. CASE Advances(l) /\ ~SpeechAnswers(l)
      <4>1. lanes[l] # None /\ LaneType
        BY <2>1, WorkTypes DEF Live
      <4>2. GoTo(l, "first") \/ GoTo(l, "second") \/ GoTo(l, "tts") \/ GoTo(l, "fail")
        BY <3>3 DEF Advances, MediatorAnswers, Failing
      <4> QED BY <2>8, <4>1, <4>2, GoToLanes DEF Steps
    <3> QED BY <1>2, <3>1, <3>2, <3>3 DEF Continues
  <2> QED BY <2>1, <2>4, <2>5, <2>8
<1> HIDE DEF Fine
<1>3. ASSUME NEW l \in LaneIds, Live(l)' PROVE Fine(l)
  <2>1. CASE \A m \in LaneIds : Live(m)' => Continues(m)
    BY <1>2, <1>3, <2>1
  <2>2. ASSUME Opens, NEW m \in LaneIds, lanes'[m].step = "reset", Others(m) PROVE Fine(l)
    <3>1. m = l
      BY <1>3, <2>2 DEF Others
    <3> QED BY <1>1, <2>2, <3>1
  <2> QED BY <2>1, <2>2 DEF LiveShape
<1> QED BY <1>3 DEF OpenInv, Fine, Live

\* Only a lane writes into a stream.
LEMMA AudioShape ==
  ASSUME LinkType, StoreType, WorkType, ConnShape, NEW k \in Conns
  PROVE  \/ conn'[k].audio \in {conn[k].audio, None}
         \/ /\ k = current /\ ~conn'[k].audio.whole
            /\ \E l \in LaneIds : SpeechAnswers(l)
         \/ /\ k = current /\ conn[k].phase = "open" /\ DeliverReturns
            /\ MediationCurrent(txn.call.l) /\ conn'[k].audio.req = lanes[txn.call.l].req
<1> DEFINE Less == conn'[k].audio \in {conn[k].audio, None}
<1>0. ConnType
  BY LinkTypes
<1>1. ASSUME NEW j \in Conns, SendHello(j) \/ CloseConnection(j) PROVE Less
  <2>1. CASE j = k
    BY <1>0, <1>1, <2>1, SendHelloConns, CloseConns
  <2>2. CASE j # k
    BY <1>0, <1>1, <2>2, SendHelloConns, CloseConns
  <2> QED BY <2>1, <2>2
<1>2. ASSUME NEW j \in Conns, conn' = [conn EXCEPT ![j].busy = TRUE] PROVE Less
  BY <1>0, <1>2, BusyType
<1>3. ASSUME BeginHello PROVE Less
  BY <1>0, <1>3, HelloConns
<1>4. ASSUME Drops, Call1.op \in FrameOps, conn' = Idle(Call1.k) PROVE Less
  BY <1>0, <1>4, LeavingCall, CallKinds, IdleConns DEF Drops
<1>5. ASSUME Completes, txn.call.op \in FrameOps, conn' = Idle(txn.call.k) PROVE Less
  BY <1>0, <1>5, CompletingCall, CallKinds, IdleConns
<1>6. ASSUME NEW l \in LaneIds, SpeechAnswers(l)
      PROVE  Less \/ (k = current /\ ~conn'[k].audio.whole)
  BY <1>6, SpeechConns
<1>7. ASSUME DeliverReturns
      PROVE  \/ Less
             \/ /\ k = current /\ conn[k].phase = "open" /\ MediationCurrent(txn.call.l)
                /\ conn'[k].audio.req = lanes[txn.call.l].req
  BY <1>7, DeliverConns
<1>8. ASSUME UnwrittenHello PROVE Less
  BY <1>0, <1>8, UnwrittenHelloConns
<1>9. ASSUME ForgetProcess PROVE Less
  BY <1>9 DEF ForgetProcess, NoConn
<1>10. ASSUME conn' = conn PROVE Less
  BY <1>10
<1> HIDE DEF Less
<1>11. \/ Less
       \/ \E l \in LaneIds : SpeechAnswers(l) /\ k = current /\ ~conn'[k].audio.whole
       \/ /\ k = current /\ conn[k].phase = "open" /\ DeliverReturns
          /\ MediationCurrent(txn.call.l) /\ conn'[k].audio.req = lanes[txn.call.l].req
  BY <1>1, <1>2, <1>3, <1>4, <1>5, <1>6, <1>7, <1>8, <1>9, <1>10 DEF ConnShape
<1> QED BY <1>11 DEF Less

\* The end of a stream, and what every state that may be found says then.
EndsOwnStream ==
  \A k \in Conns :
       conn'[k].audio # None /\ conn'[k].audio.whole
         /\ conn[k].audio # conn'[k].audio =>
         /\ conn[k].audio # None /\ conn'[k].audio.req = conn[k].audio.req
         /\ \A snap \in OnDisk' :
              IsPendingIn(snap, conn[k].audio.req) /\ snap.pending.ready

LEMMA AudioStep ==
  ASSUME StoreType, LinkType, WorkType, StoreInv, OwnInv, OneLive, OpenInv, ConnShape
  PROVE  EndsOwnStream
<1> SUFFICES ASSUME NEW k \in Conns, conn'[k].audio # None, conn'[k].audio.whole,
                    conn[k].audio # conn'[k].audio
             PROVE  /\ conn[k].audio # None /\ conn'[k].audio.req = conn[k].audio.req
                    /\ \A snap \in OnDisk' :
                         IsPendingIn(snap, conn[k].audio.req) /\ snap.pending.ready
  BY DEF EndsOwnStream
<1> DEFINE l == txn.call.l
<1>1. /\ k = current /\ conn[k].phase = "open" /\ DeliverReturns
      /\ MediationCurrent(l) /\ conn'[k].audio.req = lanes[l].req
  BY AudioShape
<1>2. Returns /\ Completes /\ txn.call.op = "deliver"
  BY <1>1, ReturnSteps DEF ReturnStep, Returns, Completes, DeliverReturns, Returned, Running
<1>3. l \in LaneIds /\ Live(l) /\ IsPending(lanes[l].req)
  BY <1>1, <1>2, CompletingCall, CallKinds DEF LaneOps, MediationCurrent
<1>4. lanes[l].step = "deliver"
  BY <1>2 DEF OwnInv, Owns, LaneOps, Completes
<1>5. conn[k].audio # None /\ conn[k].audio.req = lanes[l].req
  BY <1>1, <1>3, <1>4 DEF OpenInv
<1>6. dev.pending.ready
  BY <1>2 DEF StoreInv, Effect, Returns
<1>7. OnDisk' = {dev}
  BY <1>2 DEF Returns, StoreInv, OnDisk
<1> QED BY <1>1, <1>3, <1>5, <1>6, <1>7 DEF IsPending, IsPendingIn

----------------------------------------------------------------------------
(* A lane for which a provider works.                                      *)

Provides(l) ==
  /\ IsPending(lanes[l].req) /\ ~dev.pending.failed
  /\ dev.pending.ready => txn # None /\ txn.call.op = "deliver" /\ txn.call.l = l
  /\ txn # None /\ txn.back # txn.snap => txn.call.op = "deliver" /\ txn.call.l = l

ProvidingInv == \A l \in LaneIds : Live(l) /\ lanes[l].step \in Providing => Provides(l)

\* The transaction that a lane makes when its audio is out is its last.
LEMMA DeliverEnds ==
  ASSUME StoreType, Completes, [Next]_vars, LinkType, WorkType, txn.call.op = "deliver", ~ForgetProcess
  PROVE  EndLane(txn.call.l)
<1>1. txn.call.l # None
  BY CompletingCall, CallKinds DEF LaneOps
<1>2. CASE ReturnStep
  BY <1>2 DEF ReturnStep, HelloReturns, CaseReturns, AdmissionReturns, PlayedReturns, OtherReturns,
     ResetReturns, DeliverReturns, FailReturns, Returned, Running
<1>3. CASE FailStep \/ CommitFailsVisible
  BY <1>1, <1>3 DEF FailStep, UnwrittenHello, UnwrittenAdmission, UnwrittenHalt, UnwrittenOther, Unwritten,
     Running, CommitFailsVisible
<1> QED BY <1>2, <1>3, RunShapes DEF Completes, Still, Starts, Leaves, GoesOn

\* What the start of a transaction means for a lane that has work of a provider.
LEMMA BeginProvides ==
  ASSUME StoreType, WorkType, LinkType, OwnInv, OneLive, Begin, Begins,
         NEW l \in LaneIds, Live(l), lanes[l].step \in Providing, Provides(l), Live(l)'
  PROVE  /\ IsPendingIn(dev', lanes[l].req) /\ ~dev'.pending.failed
         /\ dev'.pending.ready => Call1.op = "deliver" /\ Call1.l = l
         /\ dev' # dev => Call1.op = "deliver" /\ Call1.l = l
<1>0. txn = None /\ IsPendingIn(dev, lanes[l].req) /\ ~dev.pending.failed /\ ~dev.pending.ready
  BY DEF Begins, Provides, IsPending, IsPendingIn
<1>1. CASE dev' = dev
  BY <1>0, <1>1
<1>2. CASE BeginCase \/ BeginRequest \/ BeginMobile
  <2>1. dev' = dev \/ lanes' = Supersede(lanes)
    BY <1>2 DEF BeginCase, BeginRequest, BeginMobile, BeginAdmission
  <2>2. dev' = dev
    BY <2>1, SupersedeLanes, WorkTypes
  <2> QED BY <1>1, <2>2
<1>3. CASE BeginPlayed
  BY <1>0, <1>3 DEF BeginPlayed, MayConfirm
<1>4. CASE BeginReset \/ BeginFail
  <2>1. Call1.op \in {"reset", "fail"} /\ MediationCurrent(Call1.l) /\ Leaves
    BY <1>4 DEF BeginReset, BeginFail, Starting, Begins, Leaves
  <2>2. Call1.l \in LaneIds /\ lanes[Call1.l].step \in {"reset", "fail"}
    BY <2>1, FirstCall, CallKinds DEF Leaves, LaneOps, OwnInv, Owns
  <2>3. Call1.l = l
    BY <2>1, <2>2 DEF MediationCurrent, OneLive
  <2> QED BY <2>2, <2>3 DEF Providing
<1>5. CASE BeginDeliver
  <2>1. Call1.op = "deliver" /\ MediationCurrent(Call1.l) /\ Leaves
    BY <1>5 DEF BeginDeliver, Starting, Begins, Leaves
  <2>2. Call1.l \in LaneIds
    BY <2>1, FirstCall, CallKinds DEF Leaves, LaneOps
  <2>3. Call1.l = l
    BY <2>1, <2>2 DEF MediationCurrent, OneLive
  <2>4. Effect(Call1, dev, dev')
    BY DEF Begins
  <2>5. /\ dev'.pending # None /\ dev'.pending.req = dev.pending.req
        /\ dev'.pending.failed = dev.pending.failed
    BY <2>1, <2>4 DEF Effect, Same, LaneOps
  <2> QED BY <1>0, <2>1, <2>3, <2>5 DEF IsPendingIn
<1>6. CASE BeginHello \/ BeginOther
  BY <1>1, <1>6 DEF BeginHello, BeginOther
<1> QED BY <1>2, <1>3, <1>4, <1>5, <1>6 DEF Begin

LEMMA AdvanceProvides ==
  ASSUME StoreType, WorkType, LinkType, StoreInv, ProvidingInv, NEW l \in LaneIds, Live(l), Advances(l)
  PROVE  \/ Still /\ lanes[l].step \in Providing /\ Provides(l)
         \/ /\ dev' = dev /\ txn' = None
            /\ IsPending(lanes[l].req) /\ ~dev.pending.failed /\ ~dev.pending.ready
<1>1. CASE MediatorAnswers(l) \/ SpeechAnswers(l)
  <2>1. lanes[l].step \in Providing
    BY <1>1 DEF MediatorAnswers, SpeechAnswers, Answered, Providing
  <2>2. Still
    BY <1>1, StillSteps DEF StillStep, ProviderStep, Answer
  <2> QED BY <2>1, <2>2 DEF ProvidingInv
<1>2. CASE BeginReset /\ l = Call1.l /\ ~dev.pending.ready
  <2>1. Still /\ txn = None
    BY <1>2, StillSteps DEF StillStep, BeginReset, Starting
  <2> QED BY <1>2, <2>1 DEF BeginReset, MediationCurrent, Still
<1>3. CASE ResetReturns /\ l = txn.call.l /\ MediationCurrent(l)
  <2>1. txn # None /\ txn.call.op = "reset" /\ dev' = dev /\ txn' = None
    BY <1>3 DEF ResetReturns, Returned, Running
  <2>2. ~dev.pending.failed /\ ~dev.pending.ready
    BY <2>1 DEF StoreInv, Effect
  <2> QED BY <1>3, <2>1, <2>2 DEF MediationCurrent
<1> QED BY <1>1, <1>2, <1>3 DEF Advances

LEMMA ProvidingStep ==
  ASSUME StoreType, WorkType, LinkType, StoreInv, OwnInv, OneLive, ProvidingInv, [Next]_vars, LiveShape, StoreStep
  PROVE  ProvidingInv'
<1> SUFFICES ASSUME NEW l \in LaneIds, Live(l)', lanes'[l].step \in Providing PROVE Provides(l)'
  BY DEF ProvidingInv, Live
<1>1. Continues(l)
  <2>1. lanes'[l].step # "reset"
    BY DEF Providing
  <2> QED BY <2>1 DEF LiveShape, Others
<1>2. Live(l) /\ lanes'[l].req = lanes[l].req /\ ~ForgetProcess
  BY <1>1 DEF Continues, ForgetProcess, Live
<1>3. CASE Advances(l) /\ ~Still
  BY <1>2, <1>3, AdvanceProvides DEF Provides, IsPending
<1>4. CASE Still /\ Provides(l)
  BY <1>2, <1>4 DEF Still, Provides, IsPending
<1>5. CASE Advances(l) /\ Still
  <2>1. CASE Provides(l)
    BY <1>4, <1>5, <2>1
  <2>2. CASE dev' = dev /\ txn' = None /\ IsPending(lanes[l].req) /\ ~dev.pending.failed /\ ~dev.pending.ready
    BY <1>2, <2>2 DEF Provides, IsPending
  <2> QED BY <1>2, <1>5, <2>1, <2>2, AdvanceProvides
<1>6. CASE lanes'[l] = lanes[l]
  <2>1. lanes[l].step \in Providing /\ Provides(l)
    BY <1>2, <1>6 DEF ProvidingInv
  <2>2. CASE Still
    BY <1>4, <2>1, <2>2
  <2>3. CASE Begin /\ Begins
    <3>1. /\ IsPendingIn(dev', lanes[l].req) /\ ~dev'.pending.failed
          /\ dev'.pending.ready => Call1.op = "deliver" /\ Call1.l = l
          /\ dev' # dev => Call1.op = "deliver" /\ Call1.l = l
      BY <1>2, <2>1, <2>3, BeginProvides
    <3>2. txn' # None /\ txn'.call = Call1 /\ txn'.snap = dev' /\ txn'.back = dev
      BY <2>3, StartTxn
    <3> QED BY <1>2, <3>1, <3>2 DEF Provides, IsPending, IsPendingIn
  <2>4. ASSUME Completes PROVE ~(txn.call.op = "deliver" /\ txn.call.l = l)
    <3>1. ASSUME txn.call.op = "deliver", txn.call.l = l PROVE FALSE
      <4>1. EndLane(l)
        BY <1>2, <2>4, <3>1, DeliverEnds
      <4> QED BY <4>1, EndLanes, WorkTypes DEF Live
    <3> QED BY <3>1
  <2>5. CASE Completes /\ (Returns \/ FailsLate)
    <3>1. dev' = dev /\ txn' = None
      BY <2>5 DEF Returns, FailsLate
    <3> QED BY <1>2, <2>1, <2>4, <2>5, <3>1 DEF Provides, IsPending
  <2>6. CASE Completes /\ Fails
    <3>1. txn' = None /\ (dev' = dev \/ dev' = txn.back) /\ dev = txn.snap
      BY <2>6 DEF Fails, StoreInv
    <3>2. txn.back = txn.snap /\ ~dev.pending.ready
      BY <2>1, <2>4, <2>6 DEF Provides, Completes
    <3>3. dev' = dev
      BY <3>1, <3>2
    <3> QED BY <1>2, <2>1, <3>1, <3>2, <3>3 DEF Provides, IsPending
  <2>7. CASE Renames
    <3>1. dev' = dev /\ txn # None
      BY <2>7 DEF Renames
    <3> QED BY <1>2, <2>1, <2>7, <3>1, RenamedTxn DEF Provides, IsPending
  <2>8. CASE Stops \/ Takes
    BY <1>2, <2>1, <2>8 DEF Stops, Takes, Provides, IsPending
  <2>9. CASE Restarts
    <3>1. dev' = dev /\ txn' = txn
      BY <2>9 DEF Restarts, StoreInv
    <3> QED BY <1>2, <2>1, <3>1 DEF Provides, IsPending
  <2>10. ~Ends
    BY <1>2 DEF Ends
  <2>11. Returns \/ Fails \/ FailsLate => Completes
    BY DEF Returns, Fails, FailsLate, Completes
  <2>12. Begins => Begin
    BY RunShapes, StartTxn DEF Begins, Still, Completes, Starts, GoesOn, ForgetProcess, Leaves
  <2> QED BY <2>2, <2>3, <2>5, <2>6, <2>7, <2>8, <2>9, <2>10, <2>11, <2>12 DEF StoreStep
<1> QED BY <1>1, <1>3, <1>5, <1>6 DEF Continues

----------------------------------------------------------------------------
(* An orderly device: its frames are of the connection that is current.    *)

Frames == {"case", "request", "played"}

FramesInv ==
  /\ \A i \in DOMAIN tail : tail[i].op \in Frames =>
       tail[i].k = current /\ \A j \in DOMAIN tail : j < i => tail[j].op # "hello"
  /\ txn # None /\ txn.call.op \in FrameOps => txn.call.k = current

LEMMA FramesStep ==
  ASSUME Orderly, StoreType, LinkType, WorkType, FramesInv, [Next]_vars, QueueShape, CurrentShape
  PROVE  FramesInv'
<1>0. BeginHello => Leaves /\ Call1.op = "hello" /\ current' = Call1.k
  BY DEF BeginHello, Starting, Leaves
<1>1. CASE ForgetProcess \/ (tail' = <<>> /\ txn' = None)
  <2>1. DOMAIN tail' = {} /\ txn' = None
    BY <1>1 DEF ForgetProcess
  <2> QED BY <2>1 DEF FramesInv
<1>2. CASE tail' = tail /\ (GoesOn \/ Completes) /\ ~ForgetProcess
  <2>1. current' = current
    BY <1>0, <1>2, NotBoth DEF CurrentShape
  <2> QED BY <1>2, <2>1 DEF FramesInv, GoesOn, Completes
<1>3. ASSUME NEW call \in GoodCalls, Enqueue(call), Arrives(call), GoesOn \/ Completes, ~ForgetProcess
      PROVE  FramesInv'
  <2>1. current' = current
    BY <1>0, <1>3, NotBoth DEF CurrentShape
  <2>2. ASSUME call.op \in Frames PROVE call.k = current /\ \A j \in DOMAIN tail : tail[j].op # "hello"
    <3>1. Ready(call.k)
      BY <1>3, <2>2 DEF Arrives, Frames, SendCaseStart, SendRequest, SendPlayed
    <3> QED BY <3>1 DEF Ready, IsCurrent, NewerHello
  <2>3. ASSUME NEW i \in DOMAIN tail', tail'[i].op \in Frames
        PROVE  tail'[i].k = current /\ \A j \in DOMAIN tail' : j < i => tail'[j].op # "hello"
    <3>1. CASE i \in DOMAIN tail /\ tail'[i] = tail[i]
      <4>1. tail[i].k = current /\ \A j \in DOMAIN tail : j < i => tail[j].op # "hello"
        BY <2>3, <3>1 DEF FramesInv
      <4>2. ASSUME NEW j \in DOMAIN tail', j < i PROVE tail'[j].op # "hello"
        BY <1>3, <3>1, <4>1, <4>2, Longer, QueuedCall
      <4> QED BY <3>1, <4>1, <4>2
    <3>2. CASE i = Len(tail) + 1 /\ tail'[i] = call
      <4>1. ASSUME NEW j \in DOMAIN tail', j < i PROVE tail'[j].op # "hello"
        <5>1. j # Len(tail) + 1
          BY <3>2, <4>1, <1>3, Longer
        <5> QED BY <1>3, <2>2, <2>3, <3>2, <5>1, Longer
      <4> QED BY <2>2, <2>3, <3>2, <4>1
    <3> QED BY <1>3, <2>3, <3>1, <3>2, Longer
  <2>4. txn' # None /\ txn'.call.op \in FrameOps => txn'.call.k = current'
    BY <1>3, <2>1 DEF FramesInv, GoesOn, Completes
  <2> QED BY <2>1, <2>3, <2>4 DEF FramesInv
<1>4. CASE (Starts \/ Drops) /\ ~ForgetProcess
  <2>0. Leaves /\ Call1 = tail[1] /\ 1 \in DOMAIN tail
    BY <1>4, FirstCall DEF Starts, Drops, Leaves
  <2>1. current' = current \/ Call1.op = "hello"
    BY <1>0, <1>4 DEF CurrentShape
  <2>2. ASSUME NEW i \in DOMAIN tail', tail'[i].op \in Frames
        PROVE  tail'[i].k = current' /\ \A j \in DOMAIN tail' : j < i => tail'[j].op # "hello"
    <3>1. i + 1 \in DOMAIN tail /\ tail'[i] = tail[i + 1] /\ 1 < i + 1
      BY <2>0, <2>2, Shorter
    <3>2. tail[i + 1].k = current /\ Call1.op # "hello"
      BY <2>0, <2>2, <3>1 DEF FramesInv
    <3>3. ASSUME NEW j \in DOMAIN tail', j < i PROVE tail'[j].op # "hello"
      <4>1. j + 1 \in DOMAIN tail /\ tail'[j] = tail[j + 1] /\ j + 1 < i + 1
        BY <2>0, <2>2, <3>3, Shorter
      <4> QED BY <2>2, <3>1, <4>1 DEF FramesInv
    <3> QED BY <2>1, <3>1, <3>2, <3>3
  <2>3. ASSUME txn' # None, txn'.call.op \in FrameOps PROVE txn'.call.k = current'
    <3>1. txn'.call = Call1 /\ Starts
      BY <1>4, <2>3 DEF Starts, Drops
    <3>2. CASE Call1.op = "hello"
      BY <1>0, <3>1, <3>2, HelloStarts
    <3>3. CASE Call1.op \in Frames
      <4>1. Call1.op # "hello"
        BY <3>3 DEF Frames
      <4> QED BY <2>0, <2>1, <3>1, <3>3, <4>1 DEF FramesInv
    <3> QED BY <2>3, <3>1, <3>2, <3>3 DEF Frames, FrameOps
  <2> QED BY <2>2, <2>3 DEF FramesInv
<1> QED BY <1>1, <1>2, <1>3, <1>4 DEF QueueShape

----------------------------------------------------------------------------
(* What somebody is told is so in every state that may be found.           *)

LEMMA QuietAcks ==
  ASSUME Orderly, StoreType, StoreInv, OwnInv, FramesInv, NEW k \in Conns, Ready(k),
         NEW m \in dev.acks, \A r \in Mobile : m # Req(r)
  PROVE  \A snap \in Snaps : m \in snap.acks
<1>1. mode = "up" /\ current = k /\ ~conn[k].busy
  BY DEF Ready, IsCurrent
<1>2. CASE txn = None
  BY <1>1, <1>2, Agreement
<1>3. CASE txn # None
  <2>1. txn.call.op \notin FrameOps /\ txn.call \in GoodCalls
    BY <1>1, <1>3, TxnFields DEF FramesInv, OwnInv, Owns
  <2>2. m \in txn.back.acks
    <3>0. Effect(txn.call, txn.back, txn.snap) /\ dev = txn.snap
      BY <1>3 DEF StoreInv
    <3>1. CASE txn.call.op \in LaneOps \cup {"other"}
      BY <3>0, <3>1 DEF Effect, Same
    <3>2. CASE txn.call.op = "mobile"
      <4>1. txn.snap = Admit(txn.back, txn.call.r) /\ txn.call.r \in Mobile
        BY <2>1, <3>0, <3>2 DEF Effect, Admits, GoodCalls, CallOK
      <4>2. txn.back \in Snapshots /\ txn.call.r \in Requests
        BY <1>3, <4>1, TxnFields, LaneAssumption
      <4> DEFINE a == txn.back
                 r == txn.call.r
      <4>3. a \in Snapshots /\ r \in Requests /\ txn.snap = Admit(a, r)
        BY <4>1, <4>2
      <4> HIDE DEF a, r
      <4>4. txn.snap.acks = a.acks \cup {Req(r)}
        BY <4>3, AdmitFields
      <4> QED BY <3>0, <4>1, <4>4 DEF a, r
    <3> QED BY <2>1, <3>1, <3>2 DEF GoodCalls, Calls, FrameOps, LaneOps
  <2>3. disk \in {txn.back, dev} /\ undo \in {None, txn.back} /\ exit = None
    BY <1>1, <1>3, TxnFields DEF StoreInv
  <2> QED BY <2>2, <2>3 DEF Snaps
<1> QED BY <1>2, <1>3

AcceptedShape ==
  \/ accepted' = accepted
  \/ \E r \in Requests : accepted' = accepted \cup {r} /\ \A snap \in Snaps' : Req(r) \in snap.acks

DoneShape ==
  \/ done' = done
  \/ \E r \in Requests : done' = done \cup {r} /\ \A snap \in Snaps' : Played(r) \in snap.acks

LEMMA StillSnaps ==
  ASSUME Still
  PROVE  Snaps' = Snaps
BY DEF Still, Snaps

LEMMA AcceptedShapes ==
  ASSUME Orderly, StoreType, LinkType, WorkType, StoreInv, OwnInv, FramesInv, [Next]_vars,
         SnapOK(dev, spent.made)
  PROVE  AcceptedShape
<1>1. CASE FrameStep
  <2>1. CASE accepted' = accepted
    BY <2>1 DEF AcceptedShape
  <2>2. ASSUME NEW k \in Conns, NEW r \in Requests, RepeatRequest(k, r) PROVE AcceptedShape
    <3>1. Ready(k) /\ Req(r) \in dev.acks /\ r \notin Mobile /\ accepted' = accepted \cup {r}
      BY <2>2 DEF RepeatRequest, MayAsk
    <3>2. \A n \in Mobile : Req(r) # Req(n)
      BY <3>1, Identifiers
    <3>3. \A snap \in Snaps : Req(r) \in snap.acks
      BY <3>1, <3>2, QuietAcks
    <3>4. Snaps' = Snaps
      BY <1>1, StillSteps, StillSnaps DEF StillStep
    <3> QED BY <3>1, <3>3, <3>4 DEF AcceptedShape
  <2> QED BY <1>1, <2>1, <2>2 DEF FrameStep, SendHello, CloseConnection, RequestLostCase, SendCaseStart,
             SendRequest, SendPlayed, AskMobile, history
<1>2. CASE MobileReuses
  <2>1. /\ mode = "up" /\ txn = None /\ dev.pending # None /\ accepted' = accepted \cup {dev.pending.req}
    BY <1>2 DEF MobileReuses, MobileMayGoOn, Starting, Reusable
  <2>2. dev.pending.req \in Requests
    BY <2>1, PendingRecord DEF StoreType
  <2>3. Req(dev.pending.req) \in dev.acks
    BY <2>1, <2>2 DEF SnapOK, Served, IsPendingIn
  <2>4. Snaps' = {dev}
    BY <1>2, <2>1, StillSteps, StillSnaps, Agreement DEF StillStep
  <2> QED BY <2>1, <2>2, <2>3, <2>4 DEF AcceptedShape
<1>3. CASE AdmissionReturns
  <2>1. Returns /\ Completes
    BY <1>3, ReturnSteps DEF ReturnStep, Returns, Completes
  <2>2. txn.call.op \in {"request", "mobile"} /\ (accepted' = accepted \/ accepted' = accepted \cup {txn.call.r})
    BY <1>3 DEF AdmissionReturns, Returned, Running
  <2>3. txn.call.r \in Requests
    BY <2>1, <2>2, CompletingCall, LaneAssumption DEF GoodCalls, CallOK
  <2>4. dev = Admit(txn.back, txn.call.r) /\ txn.back \in Snapshots
    BY <2>1, <2>2, TxnFields DEF Completes, StoreInv, Effect, Admits
  <2>5. Req(txn.call.r) \in dev.acks
    BY <2>3, <2>4, AdmitFields
  <2>6. Snaps' = {dev}
    BY <2>1, Agreement
  <2> QED BY <2>2, <2>3, <2>5, <2>6 DEF AcceptedShape
<1>4. ASSUME ~FrameStep, ~MobileReuses, ~AdmissionReturns PROVE accepted' = accepted
  <2>1. CASE StillStep \/ UNCHANGED vars
    BY <1>4, <2>1 DEF StillStep, ProviderStep, Answer, StaleAnswer, MediatorAnswers,
       SpeechAnswers, MobileRefused, PlayedRefused, LaneGivesUp, RefuseTransaction, BeginReset, TimerFires,
       CaseChanges, SubmitOther, history, vars
  <2>2. CASE Begin
    BY <2>2 DEF Begin, BeginHello, BeginOther, BeginCase, BeginPlayed, BeginRequest, BeginMobile, BeginDeliver,
       BeginFail, BeginReset, BeginAdmission, history
  <2>3. CASE ReturnStep
    BY <1>4, <2>3 DEF ReturnStep, HelloReturns, CaseReturns, PlayedReturns, OtherReturns,
       ResetReturns, DeliverReturns, FailReturns, history
  <2>4. CASE FailStep \/ CommitFailsVisible
    BY <2>4 DEF FailStep, UnwrittenHello, UnwrittenAdmission, UnwrittenHalt, UnwrittenOther, Unwritten,
       CommitFailsVisible, history
  <2>5. CASE EndStep \/ RenameState \/ Stop \/ BeginExit \/ Recover
    BY <2>5 DEF EndStep, FinishExit, Crash, ForgetProcess, RenameState, Stop, BeginExit, Recover, history
  <2> QED BY <2>1, <2>2, <2>3, <2>4, <2>5, NextSteps DEF Begin
<1> QED BY <1>1, <1>2, <1>3, <1>4 DEF AcceptedShape

LEMMA DoneShapes ==
  ASSUME Orderly, StoreType, LinkType, WorkType, StoreInv, OwnInv, FramesInv, [Next]_vars
  PROVE  DoneShape
<1>1. CASE FrameStep
  <2>1. CASE done' = done
    BY <2>1 DEF DoneShape
  <2>2. ASSUME NEW k \in Conns, NEW r \in Requests, SendPlayed(k, r), Played(r) \in dev.acks PROVE DoneShape
    <3>1. Ready(k) /\ done' = done \cup {r}
      BY <2>2 DEF SendPlayed
    <3>2. \A n \in Mobile : Played(r) # Req(n)
      BY Identifiers
    <3>3. \A snap \in Snaps : Played(r) \in snap.acks
      BY <2>2, <3>1, <3>2, QuietAcks
    <3>4. Snaps' = Snaps
      BY <1>1, StillSteps, StillSnaps DEF StillStep
    <3> QED BY <3>1, <3>3, <3>4 DEF DoneShape
  <2> QED BY <1>1, <2>1, <2>2 DEF FrameStep, SendHello, CloseConnection, RequestLostCase, SendCaseStart,
             RepeatRequest, SendRequest, SendPlayed, AskMobile, history
<1>2. CASE PlayedRefused
  <2>1. /\ mode = "up" /\ txn = None /\ Call1.op = "played" /\ Leaves
        /\ done' = done \/ (Played(Call1.r) \in dev.acks /\ done' = done \cup {Call1.r})
    BY <1>2 DEF PlayedRefused, Starting, Leaves
  <2>2. Call1.r \in Requests
    BY <2>1, LeavingCall DEF GoodCalls, CallOK
  <2>3. Snaps' = {dev}
    BY <1>2, <2>1, StillSteps, StillSnaps, Agreement DEF StillStep
  <2> QED BY <2>1, <2>2, <2>3 DEF DoneShape
<1>3. CASE PlayedReturns
  <2>1. Returns /\ Completes
    BY <1>3, ReturnSteps DEF ReturnStep, Returns, Completes
  <2>2. txn.call.op = "played" /\ (done' = done \/ done' = done \cup {txn.call.r})
    BY <1>3 DEF PlayedReturns, Returned, Running
  <2>3. txn.call.r \in Requests
    BY <2>1, <2>2, CompletingCall DEF GoodCalls, CallOK
  <2>4. dev = Confirm(txn.back, txn.call.r) /\ txn.back \in Snapshots
    BY <2>1, <2>2, TxnFields DEF Completes, StoreInv, Effect
  <2>5. Played(txn.call.r) \in dev.acks
    BY <2>3, <2>4, ConfirmFields
  <2>6. Snaps' = {dev}
    BY <2>1, Agreement
  <2> QED BY <2>2, <2>3, <2>5, <2>6 DEF DoneShape
<1>4. ASSUME ~FrameStep, ~PlayedRefused, ~PlayedReturns PROVE done' = done
  <2>1. CASE StillStep \/ UNCHANGED vars
    BY <1>4, <2>1 DEF StillStep, ProviderStep, Answer, StaleAnswer, MediatorAnswers,
       SpeechAnswers, MobileRefused, MobileReuses, LaneGivesUp, RefuseTransaction, BeginReset, TimerFires,
       CaseChanges, SubmitOther, history, vars
  <2>2. CASE Begin
    BY <2>2 DEF Begin, BeginHello, BeginOther, BeginCase, BeginPlayed, BeginRequest, BeginMobile, BeginDeliver,
       BeginFail, BeginReset, BeginAdmission, history
  <2>3. CASE ReturnStep
    BY <1>4, <2>3 DEF ReturnStep, HelloReturns, CaseReturns, AdmissionReturns, OtherReturns,
       ResetReturns, DeliverReturns, FailReturns, history
  <2>4. CASE FailStep \/ CommitFailsVisible
    BY <2>4 DEF FailStep, UnwrittenHello, UnwrittenAdmission, UnwrittenHalt, UnwrittenOther, Unwritten,
       CommitFailsVisible, history
  <2>5. CASE EndStep \/ RenameState \/ Stop \/ BeginExit \/ Recover
    BY <2>5 DEF EndStep, FinishExit, Crash, ForgetProcess, RenameState, Stop, BeginExit, Recover, history
  <2> QED BY <2>1, <2>2, <2>3, <2>4, <2>5, NextSteps DEF Begin
<1> QED BY <1>1, <1>2, <1>3, <1>4 DEF DoneShape

\* A failure is told of what is pending, when nothing else may be found; a request that is
\* sent again unchanged is told at once.
ToldShape ==
  \/ told' = told
  \/ \E r \in Requests : /\ told' = told \cup {r} /\ IsPendingIn(dev', r)
                         /\ mode = "up"
                         /\ \/ Snaps' = {dev'} /\ dev'.pending.failed
                            \/ Resends

LEMMA TellsFailure ==
  ASSUME NEW r, TellFailure(r)
  PROVE  told' = told \/ (mode = "up" /\ told' = told \cup {r})
BY DEF TellFailure, Delivers

LEMMA ResumeTells ==
  ASSUME NEW k, NEW dv, ScheduleResume(k, dv)
  PROVE  \/ told' = told
         \/ mode = "up" /\ dv.pending # None /\ dv.pending.failed /\ told' = told \cup {dv.pending.req}
BY TellsFailure DEF ScheduleResume

LEMMA ToldShapes ==
  ASSUME StoreType, LinkType, WorkType, StoreInv, [Next]_vars, SnapOK(dev, spent.made), SpentType
  PROVE  ToldShape
<1>1. CASE FrameStep
  <2>1. CASE told' = told
    BY <2>1 DEF ToldShape
  <2>2. ASSUME NEW k \in Conns, NEW r \in Requests, RepeatRequest(k, r), told' # told PROVE ToldShape
    <3>1. mode = "up" /\ IsPending(r) /\ told' = told \cup {r} /\ dev' = dev
      BY <2>2, TellsFailure DEF RepeatRequest
    <3>2. Resends
      <4>1. r <= spent.made
        BY <2>2 DEF RepeatRequest, SnapOK
      <4>2. r # spent.made + 1
        BY <4>1, LaneAssumption DEF SpentType
      <4> QED BY <2>2, <4>2 DEF RepeatRequest, MayAsk
    <3> QED BY <3>1, <3>2 DEF ToldShape, IsPending, IsPendingIn
  <2> QED BY <1>1, <2>1, <2>2 DEF FrameStep, SendHello, CloseConnection, RequestLostCase, SendCaseStart,
             SendRequest, SendPlayed, AskMobile, history
<1>2. CASE MobileReuses
  <2>1. dev.pending # None /\ ~dev.pending.failed /\ ScheduleResume(Call1.k, dev)
    BY <1>2 DEF MobileReuses, Reusable
  <2>2. told' = told
    BY <2>1, ResumeTells
  <2> QED BY <2>2 DEF ToldShape
<1>3. CASE HelloReturns \/ FailReturns
  <2>1. Returns /\ Completes
    BY <1>3, ReturnSteps DEF ReturnStep, Returns, Completes
  <2>2. Snaps' = {dev'} /\ dev' = dev
    BY <2>1, Agreement
  <2>3. told' = told \/ (mode = "up" /\ dev.pending # None /\ dev.pending.failed /\ told' = told \cup {dev.pending.req})
    <3>1. CASE HelloReturns
      BY <3>1, ResumeTells DEF HelloReturns
    <3>2. CASE FailReturns
      <4>1. txn.call.op = "fail" /\ TellFailure(dev.pending.req)
        BY <3>2 DEF FailReturns, Returned, Running
      <4>2. dev.pending # None /\ dev.pending.failed
        BY <2>1, <4>1 DEF Completes, StoreInv, Effect, Same, LaneOps
      <4> QED BY <4>1, <4>2, TellsFailure
    <3> QED BY <1>3, <3>1, <3>2
  <2>4. dev.pending # None => dev.pending.req \in Requests
    BY PendingRecord DEF StoreType
  <2> QED BY <2>2, <2>3, <2>4 DEF ToldShape, IsPendingIn
<1>4. CASE UnwrittenAdmission
  <2>1. Fails /\ Completes /\ mode' = mode
    BY <1>4, FailSteps DEF FailStep, Fails, Completes, UnwrittenAdmission, proc
  <2>2. dev' = txn.back /\ (told' = told \/ ScheduleResume(txn.call.k, txn.back))
    BY <1>4 DEF UnwrittenAdmission, RollBack
  <2>3. \/ told' = told
        \/ mode = "up" /\ dev'.pending # None /\ dev'.pending.failed /\ told' = told \cup {dev'.pending.req}
    BY <2>2, ResumeTells
  <2>4. mode = "up" => Snaps' = {dev'}
    BY <2>1, Agreement
  <2>5. dev'.pending # None => dev'.pending.req \in Requests
    BY <2>1, <2>2, TxnFields, PendingRecord DEF Completes
  <2> QED BY <2>3, <2>4, <2>5 DEF ToldShape, IsPendingIn
<1>5. ASSUME ~FrameStep, ~MobileReuses, ~HelloReturns, ~FailReturns, ~UnwrittenAdmission PROVE told' = told
  <2>1. CASE StillStep \/ UNCHANGED vars
    BY <1>5, <2>1 DEF StillStep, ProviderStep, Answer, StaleAnswer, MediatorAnswers,
       SpeechAnswers, MobileRefused, PlayedRefused, LaneGivesUp, RefuseTransaction, BeginReset, TimerFires,
       CaseChanges, SubmitOther, history, vars
  <2>2. CASE Begin
    BY <2>2 DEF Begin, BeginHello, BeginOther, BeginCase, BeginPlayed, BeginRequest, BeginMobile, BeginDeliver,
       BeginFail, BeginReset, BeginAdmission, history
  <2>3. CASE ReturnStep
    BY <1>5, <2>3 DEF ReturnStep, CaseReturns, AdmissionReturns, PlayedReturns, OtherReturns,
       ResetReturns, DeliverReturns, history
  <2>4. CASE FailStep \/ CommitFailsVisible
    BY <1>5, <2>4 DEF FailStep, UnwrittenHello, UnwrittenHalt, UnwrittenOther,
       CommitFailsVisible, history
  <2>5. CASE EndStep \/ RenameState \/ Stop \/ BeginExit \/ Recover
    BY <2>5 DEF EndStep, FinishExit, Crash, ForgetProcess, RenameState, Stop, BeginExit, Recover, history
  <2> QED BY <2>1, <2>2, <2>3, <2>4, <2>5, NextSteps DEF Begin
<1> QED BY <1>1, <1>2, <1>3, <1>4, <1>5 DEF ToldShape

----------------------------------------------------------------------------
(* Requests that wait for their transaction.                               *)

LastFirst ==
  \A i \in DOMAIN tail : Admits(tail[i]) =>
    /\ tail[i].r <= spent.made
    /\ \A j \in DOMAIN tail : j < i /\ Admits(tail[j]) => tail[j].r < tail[i].r

\* Nothing that may be found knows them, or a later one.
Unknown ==
  \A i \in DOMAIN tail : Admits(tail[i]) =>
    \A snap \in Snaps : \A n \in Requests : Req(n) \in snap.acks => n < tail[i].r

\* They are for the case of the device, and its case goes forward.
CaseKept ==
  \A i \in DOMAIN tail :
    /\ tail[i].op = "request" => CaseOf[tail[i].r] = dev.case
    /\ tail[i].op = "case" => dev.case <= tail[i].c

AdmissionInv == LastFirst /\ Unknown /\ CaseKept

SnapsOK == \A snap \in Snaps : SnapOK(snap, spent.made)

LEMMA AdmitCall ==
  ASSUME NEW call \in GoodCalls, Admits(call)
  PROVE  /\ call.r \in Requests /\ call.r \in Nat /\ call.op \notin LaneOps
         /\ call.op \notin {"hello", "case", "played", "other"}
         /\ (call.op = "request" /\ call.r \notin Mobile) \/ (call.op = "mobile" /\ call.r \in Mobile)
BY LaneAssumption DEF Admits, GoodCalls, CallOK, LaneOps

\* What is found knows no more than memory, while a connection is ready for a frame.
LEMMA QuietKnows ==
  ASSUME Orderly, StoreType, StoreInv, OwnInv, FramesInv, NEW k \in Conns, Ready(k),
         NEW snap \in Snaps
  PROVE  snap.acks \subseteq dev.acks
<1>1. mode = "up" /\ current = k /\ ~conn[k].busy
  BY DEF Ready, IsCurrent
<1>2. CASE txn = None
  BY <1>1, <1>2, Agreement
<1>3. CASE txn # None
  <2>1. txn.call.op \notin FrameOps /\ txn.call \in GoodCalls
    BY <1>1, <1>3, TxnFields DEF FramesInv, OwnInv, Owns
  <2>2. txn.back.acks \subseteq dev.acks
    <3>0. Effect(txn.call, txn.back, txn.snap) /\ dev = txn.snap
      BY <1>3 DEF StoreInv
    <3>1. CASE txn.call.op \in LaneOps \cup {"other"}
      BY <3>0, <3>1 DEF Effect, Same
    <3>2. CASE txn.call.op = "mobile"
      <4>1. txn.snap = Admit(txn.back, txn.call.r) /\ txn.call.r \in Mobile
        BY <2>1, <3>0, <3>2 DEF Effect, Admits, GoodCalls, CallOK
      <4>2. txn.back \in Snapshots /\ txn.call.r \in Requests
        BY <1>3, <4>1, TxnFields, LaneAssumption
      <4> DEFINE a == txn.back
                 r == txn.call.r
      <4>3. a \in Snapshots /\ r \in Requests /\ txn.snap = Admit(a, r)
        BY <4>1, <4>2
      <4> HIDE DEF a, r
      <4>4. txn.snap.acks = a.acks \cup {Req(r)}
        BY <4>3, AdmitFields
      <4> QED BY <3>0, <4>1, <4>4 DEF a, r
    <3> QED BY <2>1, <3>1, <3>2 DEF GoodCalls, Calls, FrameOps, LaneOps
  <2>3. disk \in {txn.back, dev} /\ undo \in {None, txn.back} /\ exit = None
    BY <1>1, <1>3, TxnFields DEF StoreInv
  <2> QED BY <2>2, <2>3 DEF Snaps
<1> QED BY <1>2, <1>3

\* A frame that waits is the only one, and nothing that runs is one.
LEMMA OneFrame ==
  ASSUME Orderly, StoreType, WorkType, ApartInv, FramesInv, NEW i \in DOMAIN tail, tail[i].op \in Frames
  PROVE  /\ txn # None => txn.call.op \notin FrameOps
         /\ \A j \in DOMAIN tail : j # i => tail[j].op \notin Frames
<1>0. Frames \subseteq FrameOps
  BY DEF Frames, FrameOps
<1>1. tail[i].k = current
  BY DEF FramesInv
<1>2. ASSUME NEW j \in DOMAIN tail, j # i PROVE tail[j].op \notin Frames
  BY <1>0, <1>1, <1>2 DEF FramesInv, ApartInv, Apart
<1>3. txn # None => txn.call.op \notin FrameOps
  BY <1>0, <1>1 DEF FramesInv, ApartInv, Apart
<1> QED BY <1>2, <1>3

\* The number of a new request is the highest, or that of the last one sent again.
LEMMA NewNumber ==
  ASSUME SpentType, NEW r \in Requests, MayAsk(r, Requests)
  PROVE  spent'.made = r /\ spent.made <= r /\ r \in Nat /\ spent.made \in Nat
         /\ (r = spent.made + 1 \/ (Resends /\ r = spent.made))
BY LaneAssumption DEF MayAsk, SpentType

LEMMA MadeGrows ==
  ASSUME SpentType, [Next]_vars
  PROVE  spent.made <= spent'.made /\ spent.made \in Nat /\ spent'.made \in Nat
BY SpentStep, NewNumber

LEMMA MoreMade ==
  ASSUME NEW snap, NEW made \in Nat, NEW more \in Nat, made <= more, SnapOK(snap, made)
  PROVE  SnapOK(snap, more)
<1>1. ASSUME NEW r \in Requests, Req(r) \in snap.acks PROVE r <= more
  <2>1. r <= made /\ r \in Nat
    BY <1>1, LaneAssumption DEF SnapOK
  <2> QED BY <2>1
<1> QED BY <1>1 DEF SnapOK

\* A request that arrives is new: behind the others, and nothing knows it.
LEMMA NewAdmission ==
  ASSUME Orderly, StoreType, WorkType, SpentType, StoreInv, OwnInv, FramesInv, SnapsOK, LastFirst,
         NEW call \in GoodCalls, Arrives(call), Admits(call)
  PROVE  /\ call.r <= spent'.made
         /\ \A j \in DOMAIN tail : Admits(tail[j]) => tail[j].r < call.r
         /\ \A snap \in Snaps : \A n \in Requests : Req(n) \in snap.acks => n < call.r
         /\ call.r = spent.made + 1 \/ Resends
<1> DEFINE r == call.r
<1>0. r \in Requests /\ r \in Nat /\ Mobile \subseteq Requests
  BY AdmitCall, LaneAssumption
<1>1. \/ call.op = "request" /\ SendRequest(call.k, r) /\ r \notin Mobile /\ call.k \in Conns
      \/ call.op = "mobile" /\ AskMobile(call.k, r)
  BY DEF Admits, Arrives, GoodCalls, CallOK
<1>2. MayAsk(r, Requests)
  BY <1>0, <1>1 DEF SendRequest, AskMobile, MayAsk
<1>3. spent'.made = r /\ spent.made \in Nat /\ (r = spent.made + 1 \/ (Resends /\ r = spent.made))
  BY <1>0, <1>2, NewNumber
<1>4. ASSUME NEW j \in DOMAIN tail, Admits(tail[j]) PROVE tail[j].r < r
  <2>1. tail[j].r <= spent.made /\ tail[j].r \in Nat
    BY <1>4, AdmitCall, QueuedCall DEF LastFirst
  <2>2. CASE r = spent.made
    <3>1. call.op = "request" /\ Ready(call.k) /\ r \notin Mobile
      BY <1>1, <1>3, <2>2 DEF SendRequest, AskMobile
    <3>2. tail[j].op # "request"
      <4>1. ASSUME tail[j].op = "request" PROVE FALSE
        <5>1. tail[j].k = current
          BY <4>1 DEF FramesInv, Frames
        <5>2. conn[tail[j].k].busy
          BY <4>1 DEF OwnInv, Owns, FrameOps
        <5> QED BY <3>1, <5>1, <5>2 DEF Ready, IsCurrent
      <4> QED BY <4>1
    <3>3. tail[j].r \in Mobile
      BY <1>4, <3>2, AdmitCall, QueuedCall
    <3>4. tail[j].r # r
      BY <3>1, <3>3
    <3> QED BY <1>0, <2>1, <2>2, <3>4
  <2> QED BY <1>0, <1>3, <2>1, <2>2
<1>5. ASSUME NEW snap \in Snaps, NEW n \in Requests, Req(n) \in snap.acks PROVE n < r
  <2>1. n <= spent.made /\ n \in Nat
    BY <1>5, LaneAssumption DEF SnapsOK, SnapOK
  <2>2. CASE r = spent.made
    <3>1. call.k \in Conns /\ Ready(call.k) /\ Req(r) \notin dev.acks
      BY <1>1, <1>3, <2>2 DEF SendRequest, AskMobile
    <3>2. Req(n) \in dev.acks
      BY <1>5, <3>1, QuietKnows
    <3>3. n # r
      BY <3>1, <3>2
    <3> QED BY <1>0, <2>1, <2>2, <3>3
  <2> QED BY <1>0, <1>3, <2>1, <2>2
<1> HIDE DEF r
<1>6. r <= spent'.made /\ (r = spent.made + 1 \/ Resends)
  BY <1>0, <1>3
<1> QED BY <1>4, <1>5, <1>6 DEF r

LEMMA LastFirstStep ==
  ASSUME Orderly, StoreType, WorkType, SpentType, StoreInv, OwnInv, FramesInv, SnapsOK, LastFirst,
         [Next]_vars, QueueShape
  PROVE  LastFirst'
<1>0. spent.made <= spent'.made /\ spent.made \in Nat /\ spent'.made \in Nat
  BY MadeGrows
<1>1. ASSUME NEW i \in DOMAIN tail, Admits(tail[i]) PROVE tail[i].r <= spent'.made
  <2>1. tail[i].r <= spent.made /\ tail[i].r \in Nat
    BY <1>1, AdmitCall, QueuedCall DEF LastFirst
  <2> QED BY <1>0, <2>1
<1>2. CASE tail' = tail
  BY <1>1, <1>2 DEF LastFirst, Admits
<1>3. ASSUME NEW call \in GoodCalls, Enqueue(call), Arrives(call) PROVE LastFirst'
  <2>1. Admits(call) => call.r <= spent'.made /\ \A j \in DOMAIN tail : Admits(tail[j]) => tail[j].r < call.r
    BY <1>3, NewAdmission
  <2>2. ASSUME NEW i \in DOMAIN tail', Admits(tail'[i]) PROVE tail'[i].r <= spent'.made
    BY <1>1, <1>3, <2>1, <2>2, Longer
  <2>3. ASSUME NEW i \in DOMAIN tail', Admits(tail'[i]), NEW j \in DOMAIN tail', j < i, Admits(tail'[j])
        PROVE  tail'[j].r < tail'[i].r
    <3>1. j \in DOMAIN tail /\ tail'[j] = tail[j]
      <4>1. CASE i \in DOMAIN tail
        <5>1. i <= Len(tail) /\ Len(tail) \in Nat
          BY <4>1, LenProperties DEF WorkType
        <5> QED BY <1>3, <2>3, <5>1, Longer
      <4>2. CASE i = Len(tail) + 1
        BY <1>3, <2>3, <4>2, Longer
      <4> QED BY <1>3, <2>3, <4>1, <4>2, Longer
    <3>2. CASE i \in DOMAIN tail /\ tail'[i] = tail[i]
      BY <2>3, <3>1, <3>2 DEF LastFirst
    <3>3. CASE tail'[i] = call
      BY <2>1, <2>3, <3>1, <3>3
    <3> QED BY <1>3, <2>3, <3>2, <3>3, Longer
  <2> QED BY <2>2, <2>3 DEF LastFirst, Admits
<1>4. CASE Leaves
  <2>1. ASSUME NEW i \in DOMAIN tail', Admits(tail'[i]) PROVE tail'[i].r <= spent'.made
    BY <1>1, <1>4, <2>1, Shorter
  <2>2. ASSUME NEW i \in DOMAIN tail', Admits(tail'[i]), NEW j \in DOMAIN tail', j < i, Admits(tail'[j])
        PROVE  tail'[j].r < tail'[i].r
    <3>1. j + 1 < i + 1
      BY <1>4, <2>2, Shorter
    <3> QED BY <1>4, <2>2, <3>1, Shorter DEF LastFirst
  <2> QED BY <2>1, <2>2 DEF LastFirst, Admits
<1>5. CASE tail' = <<>>
  <2>1. DOMAIN tail' = {}
    BY <1>5
  <2> QED BY <2>1 DEF LastFirst
<1> QED BY <1>2, <1>3, <1>4, <1>5 DEF QueueShape, Starts, Drops

LEMMA EffectKnows ==
  ASSUME NEW call \in GoodCalls, NEW a \in Snapshots, NEW b, Effect(call, a, b),
         NEW n \in Requests, Req(n) \in b.acks
  PROVE  Req(n) \in a.acks \/ (Admits(call) /\ n = call.r)
<1>1. CASE call.op \in {"hello", "other"} \cup LaneOps
  BY <1>1 DEF Effect, Same
<1>2. CASE call.op = "case"
  <2>1. call.c \in Cases
    BY <1>2 DEF GoodCalls, CallOK
  <2> DEFINE c == call.c
  <2>2. b = a \/ b = ReplaceCase(a, c)
    BY <1>2 DEF Effect
  <2>3. c \in Cases
    BY <2>1
  <2> HIDE DEF c
  <2> QED BY <2>2, <2>3, ReplaceFields
<1>3. CASE Admits(call)
  <2> DEFINE r == call.r
  <2>1. b = Admit(a, r) /\ r \in Requests
    BY <1>3, AdmitCall DEF Effect
  <2>2. r = call.r
    OBVIOUS
  <2> HIDE DEF r
  <2>3. b.acks = a.acks \cup {Req(r)}
    BY <2>1, AdmitFields
  <2> QED BY <1>3, <2>2, <2>3, Identifiers
<1>4. CASE call.op = "played"
  <2> DEFINE r == call.r
  <2>1. b = Confirm(a, r) /\ r \in Requests
    BY <1>4 DEF Effect, GoodCalls, CallOK
  <2> HIDE DEF r
  <2>2. b.acks = a.acks \cup {Played(r)}
    BY <2>1, ConfirmFields
  <2> QED BY <2>2, Identifiers
<1> QED BY <1>1, <1>2, <1>3, <1>4 DEF GoodCalls, Calls, Admits, LaneOps

LEMMA UnknownStep ==
  ASSUME Orderly, StoreType, WorkType, SpentType, StoreInv, OwnInv, FramesInv, SnapsOK, LastFirst, Unknown,
         StoreStep, QueueShape
  PROVE  Unknown'
<1>1. CASE Begins
  <2>1. Leaves /\ Call1 \in GoodCalls /\ dev \in Snapshots /\ Effect(Call1, dev, dev') /\ dev \in Snaps
    BY <1>1 DEF Begins, Leaves, StoreType, Snaps
  <2>2. Snaps' \subseteq Snaps \cup {dev'}
    BY <1>1, SnapsStep
  <2>3. ASSUME NEW i \in DOMAIN tail', Admits(tail'[i]), NEW snap \in Snaps', NEW n \in Requests, Req(n) \in snap.acks
        PROVE  n < tail'[i].r
    <3>1. i + 1 \in DOMAIN tail /\ tail'[i] = tail[i + 1] /\ 1 \in DOMAIN tail /\ Call1 = tail[1] /\ 1 < i + 1
      BY <2>1, <2>3, Shorter
    <3>2. CASE snap \in Snaps
      BY <2>3, <3>1, <3>2 DEF Unknown
    <3>3. CASE snap = dev'
      <4>1. Req(n) \in dev.acks \/ (Admits(Call1) /\ n = Call1.r)
        <5> DEFINE call == Call1
                   b == dev'
        <5>1. call \in GoodCalls /\ Effect(call, dev, b) /\ Req(n) \in b.acks
          BY <2>1, <2>3, <3>3
        <5> HIDE DEF call, b
        <5>2. Req(n) \in dev.acks \/ (Admits(call) /\ n = call.r)
          BY <2>1, <5>1, EffectKnows
        <5> QED BY <5>2 DEF call
      <4>2. CASE Req(n) \in dev.acks
        BY <2>1, <2>3, <3>1, <4>2 DEF Unknown
      <4>3. CASE Admits(Call1) /\ n = Call1.r
        BY <2>3, <3>1, <4>3 DEF LastFirst
      <4> QED BY <4>1, <4>2, <4>3
    <3> QED BY <2>2, <2>3, <3>2, <3>3
  <2> QED BY <2>3 DEF Unknown, Admits
<1>2. CASE ~Begins
  <2>1. Snaps' \subseteq Snaps
    BY <1>2, SnapsStep
  <2>2. CASE tail' = tail
    BY <2>1, <2>2 DEF Unknown, Admits
  <2>3. ASSUME NEW call \in GoodCalls, Enqueue(call), Arrives(call) PROVE Unknown'
    <3>1. Admits(call) => \A snap \in Snaps : \A n \in Requests : Req(n) \in snap.acks => n < call.r
      BY <2>3, NewAdmission
    <3>2. ASSUME NEW i \in DOMAIN tail', Admits(tail'[i]), NEW snap \in Snaps, NEW n \in Requests, Req(n) \in snap.acks
          PROVE  n < tail'[i].r
      BY <2>3, <3>1, <3>2, Longer DEF Unknown
    <3> QED BY <2>1, <3>2 DEF Unknown, Admits
  <2>4. CASE Leaves
    <3>1. ASSUME NEW i \in DOMAIN tail', Admits(tail'[i]), NEW snap \in Snaps, NEW n \in Requests, Req(n) \in snap.acks
          PROVE  n < tail'[i].r
      BY <2>4, <3>1, Shorter DEF Unknown
    <3> QED BY <2>1, <3>1 DEF Unknown, Admits
  <2>5. CASE tail' = <<>>
    <3>1. DOMAIN tail' = {}
      BY <2>5
    <3> QED BY <3>1 DEF Unknown
  <2> QED BY <2>2, <2>3, <2>4, <2>5 DEF QueueShape, Starts, Drops
<1> QED BY <1>1, <1>2

\* Only a transaction of case.start changes the case, and puts it back.
LEMMA EffectCase ==
  ASSUME NEW call \in GoodCalls, NEW a \in Snapshots, NEW b, Effect(call, a, b), call.op # "case"
  PROVE  b.case = a.case
<1>1. CASE call.op \in {"hello", "other"} \cup LaneOps
  BY <1>1 DEF Effect, Same
<1>2. CASE Admits(call)
  <2> DEFINE r == call.r
  <2>1. b = Admit(a, r) /\ r \in Requests
    BY <1>2, AdmitCall DEF Effect
  <2> HIDE DEF r
  <2> QED BY <2>1, AdmitFields
<1>3. CASE call.op = "played"
  <2> DEFINE r == call.r
  <2>1. b = Confirm(a, r) /\ r \in Requests
    BY <1>3 DEF Effect, GoodCalls, CallOK
  <2> HIDE DEF r
  <2> QED BY <2>1, ConfirmFields
<1> QED BY <1>1, <1>2, <1>3 DEF GoodCalls, Calls, Admits, LaneOps

LEMMA CaseShape ==
  ASSUME StoreType, StoreInv, StoreStep
  PROVE  \/ dev'.case = dev.case \/ tail' = <<>>
         \/ Starts /\ Call1.op = "case"
         \/ Completes /\ txn.call.op = "case"
<1>1. CASE Begins
  <2>1. Call1 \in GoodCalls /\ dev \in Snapshots /\ Effect(Call1, dev, dev') /\ Starts
    BY <1>1, StartTxn DEF Begins, StoreType, Starts, Leaves
  <2> DEFINE call == Call1
             b == dev'
  <2>2. call \in GoodCalls /\ Effect(call, dev, b)
    BY <2>1
  <2> HIDE DEF call, b
  <2>3. call.op # "case" => b.case = dev.case
    BY <2>1, <2>2, EffectCase
  <2> QED BY <2>1, <2>3 DEF call, b
<1>2. CASE Fails
  <2>1. /\ txn.call \in GoodCalls /\ txn.back \in Snapshots /\ Effect(txn.call, txn.back, dev)
        /\ Completes /\ dev' \in {dev, txn.back}
    BY <1>2, TxnFields DEF Fails, StoreInv, Completes
  <2> DEFINE call == txn.call
             a == txn.back
  <2>2. call \in GoodCalls /\ a \in Snapshots /\ Effect(call, a, dev)
    BY <2>1
  <2> HIDE DEF call, a
  <2>3. call.op # "case" => dev.case = a.case
    BY <2>2, EffectCase
  <2> QED BY <2>1, <2>3 DEF call, a
<1>3. CASE Restarts
  BY <1>3 DEF Restarts, StoreInv
<1>4. CASE Ends
  BY <1>4 DEF Ends, ForgetProcess
<1> QED BY <1>1, <1>2, <1>3, <1>4 DEF StoreStep, Still, Renames, Returns, FailsLate, Stops, Takes

LEMMA CaseKeptStep ==
  ASSUME Orderly, StoreType, WorkType, StoreInv, ApartInv, FramesInv, CaseKept, StoreStep, QueueShape
  PROVE  CaseKept'
<1>1. CASE tail' = <<>>
  <2>1. DOMAIN tail' = {}
    BY <1>1
  <2> QED BY <2>1 DEF CaseKept
<1>2. CASE (Starts /\ Call1.op = "case") \/ (Completes /\ txn.call.op = "case")
  <2>1. ASSUME NEW i \in DOMAIN tail', tail'[i].op \in Frames
        PROVE  /\ dev'.case = dev.case /\ i \in DOMAIN tail /\ tail'[i] = tail[i]
    <3>1. CASE Starts
      <4>1. Leaves
        BY <3>1 DEF Starts
      <4>2. i + 1 \in DOMAIN tail /\ tail'[i] = tail[i + 1] /\ i + 1 # 1 /\ 1 \in DOMAIN tail /\ Call1 = tail[1]
        BY <2>1, <4>1, Shorter
      <4>3. Call1.op = "case"
        BY <1>2, <3>1 DEF Starts, Leaves, Completes
      <4>4. Call1.op \notin Frames
        BY <2>1, <4>2, OneFrame
      <4> QED BY <4>3, <4>4 DEF Frames
    <3>2. CASE Completes /\ txn.call.op = "case"
      <4>1. \A j \in DOMAIN tail : tail[j].op \notin Frames
        BY <3>2, OneFrame DEF Completes, FrameOps
      <4>2. CASE tail' = tail
        BY <2>1, <4>1, <4>2
      <4>3. ASSUME NEW call \in GoodCalls, Enqueue(call), Arrives(call) PROVE dev'.case = dev.case /\ i \in DOMAIN tail /\ tail'[i] = tail[i]
        <5>1. tail'[i] = call
          BY <2>1, <4>1, <4>3, Longer
        <5>2. txn' = txn
          BY <2>1, <4>3, <5>1 DEF Arrives, Frames, SendCaseStart, SendRequest, SendPlayed
        <5> QED BY <3>2, <5>2 DEF Completes
      <4> QED BY <1>1, <3>2, <4>2, <4>3, <2>1 DEF QueueShape, Starts, Drops, Leaves, Completes
    <3> QED BY <1>2, <3>1, <3>2
  <2> QED BY <2>1 DEF CaseKept, Frames
<1>3. CASE dev'.case = dev.case
  <2>1. CASE tail' = tail
    BY <1>3, <2>1 DEF CaseKept
  <2>2. ASSUME NEW call \in GoodCalls, Enqueue(call), Arrives(call) PROVE CaseKept'
    <3>1. /\ call.op = "request" => CaseOf[call.r] = dev.case
          /\ call.op = "case" => dev.case <= call.c
      BY <2>2 DEF Arrives, SendRequest, SendCaseStart, MayAsk
    <3>2. ASSUME NEW i \in DOMAIN tail'
          PROVE  /\ tail'[i].op = "request" => CaseOf[tail'[i].r] = dev.case
                 /\ tail'[i].op = "case" => dev.case <= tail'[i].c
      BY <2>2, <3>1, <3>2, Longer DEF CaseKept
    <3> QED BY <1>3, <3>2 DEF CaseKept
  <2>3. CASE Leaves
    <3>1. ASSUME NEW i \in DOMAIN tail'
          PROVE  /\ tail'[i].op = "request" => CaseOf[tail'[i].r] = dev.case
                 /\ tail'[i].op = "case" => dev.case <= tail'[i].c
      BY <2>3, <3>1, Shorter DEF CaseKept
    <3> QED BY <1>3, <3>1 DEF CaseKept
  <2> QED BY <1>1, <2>1, <2>2, <2>3 DEF QueueShape, Starts, Drops
<1> QED BY <1>1, <1>2, <1>3, CaseShape

----------------------------------------------------------------------------
(* Every state that may be found is sound, and holds what was told.        *)

\* What a transaction that starts rests on.
Allowed(call, a, made) ==
  /\ call.op = "case" => a.case <= call.c
  /\ Admits(call) => /\ call.r <= made /\ CaseOf[call.r] = a.case
                     /\ \A n \in Requests : Req(n) \in a.acks => n < call.r

LEMMA BeginAllowed ==
  ASSUME StoreType, LinkType, WorkType, AdmissionInv, [Next]_vars, Begins
  PROVE  Allowed(Call1, dev, spent.made)
<1>1. Begin
  BY HelloStarts, StartTxn DEF Begins, Starts, Leaves
<1>2. 1 \in DOMAIN tail /\ Call1 = tail[1] /\ dev \in Snaps
  BY FirstCall DEF Begins, Snaps
<1>3. /\ Admits(Call1) => /\ Call1.r <= spent.made
                          /\ \A n \in Requests : Req(n) \in dev.acks => n < Call1.r
      /\ Call1.op = "request" => CaseOf[Call1.r] = dev.case
      /\ Call1.op = "case" => dev.case <= Call1.c
  BY <1>2 DEF AdmissionInv, LastFirst, Unknown, CaseKept
<1>4. Call1.op = "mobile" => CaseOf[Call1.r] = dev.case
  BY <1>1 DEF Begin, BeginHello, BeginOther, BeginCase, BeginPlayed, BeginRequest, BeginMobile,
     BeginDeliver, BeginFail, BeginReset, Starting, MobileMayGoOn
<1> QED BY <1>3, <1>4 DEF Allowed, Admits

LEMMA EffectOK ==
  ASSUME NEW call \in GoodCalls, NEW a \in Snapshots, NEW b \in Snapshots, NEW made \in Nat,
         Effect(call, a, b), Allowed(call, a, made), SnapOK(a, made)
  PROVE  SnapOK(b, made)
<1>1. CASE call.op \in {"hello", "other"}
  BY <1>1 DEF Effect
<1>2. CASE call.op \in LaneOps
  BY <1>2, SameOK DEF Effect
<1>3. CASE call.op = "case"
  <2> DEFINE c == call.c
  <2>1. c \in Cases /\ (b = a \/ (c # a.case /\ b = ReplaceCase(a, c)))
    BY <1>3 DEF GoodCalls, CallOK, Effect
  <2> HIDE DEF c
  <2> QED BY <2>1, ReplaceOK
<1>4. CASE Admits(call)
  <2> DEFINE r == call.r
  <2>1. /\ r \in Requests /\ b = Admit(a, r) /\ r <= made /\ CaseOf[r] = a.case
        /\ \A n \in Requests : Req(n) \in a.acks => n < r
    BY <1>4, AdmitCall DEF Effect, Allowed
  <2> HIDE DEF r
  <2> QED BY <2>1, AdmitOK
<1>5. CASE call.op = "played"
  <2> DEFINE r == call.r
  <2>1. r \in Requests /\ IsPendingIn(a, r) /\ b = Confirm(a, r)
    BY <1>5 DEF GoodCalls, CallOK, Effect
  <2> HIDE DEF r
  <2> QED BY <2>1, ConfirmOK
<1> QED BY <1>1, <1>2, <1>3, <1>4, <1>5 DEF GoodCalls, Calls, Admits, LaneOps

LEMMA SnapsOKStep ==
  ASSUME StoreType, LinkType, WorkType, SpentType, StoreInv, AdmissionInv, SnapsOK, [Next]_vars
  PROVE  SnapsOK'
<1>0. spent.made <= spent'.made /\ spent.made \in Nat /\ spent'.made \in Nat
  BY MadeGrows
<1>1. ASSUME NEW snap \in Snaps PROVE SnapOK(snap, spent'.made)
  <2> DEFINE made == spent.made
             more == spent'.made
  <2>1. made <= more /\ made \in Nat /\ more \in Nat /\ SnapOK(snap, made)
    BY <1>0 DEF SnapsOK
  <2> HIDE DEF made, more
  <2>2. SnapOK(snap, more)
    BY <2>1, MoreMade
  <2> QED BY <2>2 DEF more
<1>2. ASSUME Begins PROVE SnapOK(dev', spent'.made)
  <2>1. /\ Call1 \in GoodCalls /\ dev \in Snapshots /\ dev' \in Snapshots /\ Effect(Call1, dev, dev')
        /\ Allowed(Call1, dev, spent.made) /\ SnapOK(dev, spent.made)
    BY <1>2, BeginAllowed DEF Begins, StoreType, SnapsOK, Snaps
  <2> DEFINE call == Call1
             b == dev'
             made == spent.made
             more == spent'.made
  <2>2. call \in GoodCalls /\ b \in Snapshots /\ Effect(call, dev, b) /\ Allowed(call, dev, made) /\ SnapOK(dev, made)
    BY <2>1
  <2>3. made <= more /\ made \in Nat /\ more \in Nat
    BY <1>0
  <2> HIDE DEF call, b, made, more
  <2>4. SnapOK(b, made)
    BY <2>1, <2>2, <2>3, EffectOK
  <2>5. SnapOK(b, more)
    BY <2>3, <2>4, MoreMade
  <2> QED BY <2>5 DEF b, more
<1>3. Snaps' \subseteq Snaps \cup (IF Begins THEN {dev'} ELSE {})
  BY StoreSteps, SnapsStep
<1> QED BY <1>1, <1>2, <1>3 DEF SnapsOK, SnapOK, ServedFrom, Served, IsPendingIn

HistoryInv == \A snap \in Snaps : HistoryOK(snap, accepted, done)

LEMMA EffectHistory ==
  ASSUME NEW call \in GoodCalls, NEW a \in Snapshots, NEW b \in Snapshots, NEW made \in Nat,
         NEW acc \in SUBSET Requests, NEW dn \in SUBSET Requests,
         Effect(call, a, b), Allowed(call, a, made), SnapOK(a, made), HistoryOK(a, acc, dn)
  PROVE  HistoryOK(b, acc, dn)
<1>0. a.case \in Nat /\ \A r \in Requests : CaseOf[r] \in Nat
  BY LaneAssumption DEF Snapshots
<1>1. CASE call.op \in {"hello", "other"}
  BY <1>1 DEF Effect
<1>2. CASE call.op \in LaneOps
  <2>1. Same(a, b)
    BY <1>2 DEF Effect
  <2>2. \A r \in Requests : ServedFrom(a, r) <=> ServedFrom(b, r)
    BY <2>1 DEF Same, ServedFrom, Served, IsPendingIn
  <2> QED BY <2>1, <2>2 DEF HistoryOK, Same
<1>3. CASE call.op = "case" /\ b # a
  <2> DEFINE c == call.c
  <2>1. c \in Cases /\ c # a.case /\ b = ReplaceCase(a, c) /\ a.case <= c /\ c \in Nat
    BY <1>3, LaneAssumption DEF GoodCalls, CallOK, Effect, Allowed
  <2> HIDE DEF c
  <2>2. b.case = c /\ a.case < c
    BY <1>0, <2>1, ReplaceFields
  <2>3. ASSUME NEW r \in acc PROVE CaseOf[r] <= b.case /\ b.case > CaseOf[r]
    <3>1. CaseOf[r] <= a.case
      BY <2>3 DEF HistoryOK
    <3> QED BY <1>0, <2>1, <2>2, <3>1
  <2>4. ASSUME NEW r \in dn PROVE b.case > CaseOf[r]
    <3>1. CASE Played(r) \in a.acks
      <4>1. CaseOf[r] = a.case
        BY <3>1 DEF SnapOK, Served
      <4> QED BY <2>2, <4>1
    <3>2. CASE a.case > CaseOf[r]
      BY <1>0, <2>1, <2>2, <3>2
    <3> QED BY <3>1, <3>2 DEF HistoryOK
  <2> QED BY <2>3, <2>4 DEF HistoryOK
<1>4. CASE Admits(call)
  <2> DEFINE n == call.r
  <2>1. /\ n \in Requests /\ b = Admit(a, n) /\ n <= made
        /\ \A m \in Requests : Req(m) \in a.acks => m < n
    BY <1>4, AdmitCall DEF Effect, Allowed
  <2> HIDE DEF n
  <2>2. b.case = a.case /\ b.acks = a.acks \cup {Req(n)}
    BY <2>1, AdmitFields
  <2>3. SnapOK(a, n)
    BY <2>1, LaneAssumption DEF SnapOK
  <2>4. \A r \in Requests : ServedFrom(a, r) => ServedFrom(b, r)
    BY <2>1, <2>3, AdmitServes
  <2> QED BY <2>2, <2>4 DEF HistoryOK
<1>5. CASE call.op = "played"
  <2> DEFINE n == call.r
  <2>1. n \in Requests /\ IsPendingIn(a, n) /\ b = Confirm(a, n)
    BY <1>5 DEF GoodCalls, CallOK, Effect
  <2> HIDE DEF n
  <2>2. b.case = a.case /\ b.acks = a.acks \cup {Played(n)}
    BY <2>1, ConfirmFields
  <2>3. \A r \in Requests : ServedFrom(a, r) => ServedFrom(b, r)
    BY <2>1, ConfirmServes
  <2> QED BY <2>2, <2>3 DEF HistoryOK
<1> QED BY <1>1, <1>2, <1>3, <1>4, <1>5 DEF GoodCalls, Calls, Admits, LaneOps

TellsTruth == accepted \subseteq Requests /\ done \subseteq Requests /\ told \subseteq Requests

LEMMA AcceptedGrows ==
  ASSUME NEW snap, NEW made, SnapOK(snap, made), HistoryOK(snap, accepted, done), accepted \subseteq Requests,
         NEW acc, acc = accepted \/ \E r \in Requests : acc = accepted \cup {r} /\ Req(r) \in snap.acks,
         NEW dn, dn = done \/ \E r \in Requests : dn = done \cup {r} /\ Played(r) \in snap.acks,
         snap \in Snapshots
  PROVE  HistoryOK(snap, acc, dn)
<1>0. \A r \in Requests : CaseOf[r] \in Nat
  BY LaneAssumption
<1>1. ASSUME NEW r \in Requests, Req(r) \in snap.acks PROVE CaseOf[r] <= snap.case /\ ServedFrom(snap, r)
  BY <1>0, <1>1 DEF SnapOK
<1> QED BY <1>1 DEF HistoryOK

LEMMA HistoryStep ==
  ASSUME Orderly, StoreType, LinkType, WorkType, SpentType, StoreInv, OwnInv, FramesInv, AdmissionInv, SnapsOK,
         TellsTruth, HistoryInv, [Next]_vars
  PROVE  HistoryInv'
<1>1. SnapsOK' /\ StoreType'
  BY SnapsOKStep, StoreTypeStep, StoreSteps
<1>2. AcceptedShape /\ DoneShape
  <2>1. SnapOK(dev, spent.made)
    BY DEF SnapsOK, Snaps
  <2> QED BY <2>1, AcceptedShapes, DoneShapes
<1>3. Snaps' \subseteq Snaps \cup (IF Begins THEN {dev'} ELSE {})
  BY StoreSteps, SnapsStep
<1>4. ASSUME Begins PROVE HistoryOK(dev', accepted, done)
  <2>1. /\ Call1 \in GoodCalls /\ dev \in Snapshots /\ dev' \in Snapshots /\ Effect(Call1, dev, dev')
        /\ Allowed(Call1, dev, spent.made) /\ SnapOK(dev, spent.made) /\ HistoryOK(dev, accepted, done)
        /\ spent.made \in Nat
    BY <1>4, BeginAllowed, MadeGrows DEF Begins, StoreType, SnapsOK, HistoryInv, Snaps
  <2> DEFINE call == Call1
             b == dev'
             made == spent.made
  <2>2. call \in GoodCalls /\ b \in Snapshots /\ Effect(call, dev, b) /\ Allowed(call, dev, made) /\ SnapOK(dev, made)
        /\ made \in Nat
    BY <2>1
  <2> HIDE DEF call, b, made
  <2>3. HistoryOK(b, accepted, done)
    BY <2>1, <2>2, EffectHistory DEF TellsTruth
  <2> QED BY <2>3 DEF b
<1>5. ASSUME NEW snap \in Snaps' PROVE HistoryOK(snap, accepted', done')
  <2>1. HistoryOK(snap, accepted, done)
    BY <1>3, <1>4 DEF HistoryInv
  <2>2. SnapOK(snap, spent'.made) /\ snap \in Snapshots
    <3>1. Snaps' \subseteq Snapshots
      <4>1. StoreType'
        BY <1>1
      <4> QED BY <4>1 DEF StoreType, Snaps
    <3>2. SnapOK(snap, spent.made)'
      BY <1>1 DEF SnapsOK
    <3> QED BY <1>5, <3>1, <3>2 DEF SnapOK, ServedFrom, Served, IsPendingIn
  <2> DEFINE acc == accepted'
             dn == done'
             more == spent'.made
  <2>3. SnapOK(snap, more) /\ snap \in Snapshots
    BY <2>2
  <2>4. acc = accepted \/ \E r \in Requests : acc = accepted \cup {r} /\ Req(r) \in snap.acks
    BY <1>2, <1>5 DEF AcceptedShape
  <2>5. dn = done \/ \E r \in Requests : dn = done \cup {r} /\ Played(r) \in snap.acks
    BY <1>2, <1>5 DEF DoneShape
  <2> HIDE DEF acc, dn, more
  <2>6. HistoryOK(snap, acc, dn)
    BY <2>1, <2>3, <2>4, <2>5, AcceptedGrows DEF TellsTruth
  <2> QED BY <2>6 DEF acc, dn
<1> QED BY <1>5 DEF HistoryInv, HistoryOK, ServedFrom, Served, IsPendingIn

----------------------------------------------------------------------------
(* A device that never sends a request again: what failed is not served.   *)

ToldInv ==
  /\ \A n \in told : n <= spent.made
  /\ \A i \in DOMAIN tail : Admits(tail[i]) => \A n \in told : n < tail[i].r
  /\ \A snap \in Snaps : ToldOK(snap, told)

LEMMA EffectTold ==
  ASSUME NEW call \in GoodCalls, NEW a \in Snapshots, NEW b \in Snapshots, NEW tld \in SUBSET Requests,
         Effect(call, a, b), ToldOK(a, tld), Admits(call) => \A n \in tld : n < call.r
  PROVE  ToldOK(b, tld)
<1>1. CASE call.op \in {"hello", "other"}
  BY <1>1 DEF Effect
<1>2. CASE call.op \in LaneOps
  <2>1. Same(a, b) /\ (b.pending.failed \/ b.pending.failed = a.pending.failed)
    BY <1>2 DEF Effect, LaneOps
  <2> QED BY <2>1 DEF ToldOK, Same, IsPendingIn
<1>3. CASE call.op = "case"
  <2> DEFINE c == call.c
  <2>1. c \in Cases /\ (b = a \/ b = ReplaceCase(a, c))
    BY <1>3 DEF GoodCalls, CallOK, Effect
  <2> HIDE DEF c
  <2>2. b.pending \in {None, a.pending}
    BY <2>1, ReplaceFields
  <2> QED BY <2>2 DEF ToldOK, IsPendingIn
<1>4. CASE Admits(call)
  <2> DEFINE r == call.r
  <2>1. r \in Requests /\ b = Admit(a, r) /\ \A n \in tld : n < r
    BY <1>4, AdmitCall DEF Effect
  <2> HIDE DEF r
  <2>2. b.pending.req = r
    BY <2>1, AdmitFields
  <2>3. r \notin tld
    <3>1. ASSUME r \in tld PROVE FALSE
      <4>1. r < r /\ r \in Nat
        BY <2>1, <3>1, LaneAssumption
      <4> QED BY <4>1
    <3> QED BY <3>1
  <2> QED BY <2>2, <2>3 DEF ToldOK, IsPendingIn
<1>5. CASE call.op = "played"
  <2> DEFINE r == call.r
  <2>1. r \in Requests /\ b = Confirm(a, r)
    BY <1>5 DEF GoodCalls, CallOK, Effect
  <2> HIDE DEF r
  <2>2. b.pending = None
    BY <2>1, ConfirmFields
  <2> QED BY <2>2 DEF ToldOK, IsPendingIn
<1> QED BY <1>1, <1>2, <1>3, <1>4, <1>5 DEF GoodCalls, Calls, Admits, LaneOps

\* Of those told before the step.
LEMMA ToldKept ==
  ASSUME Orderly, ~Resends, StoreType, LinkType, WorkType, SpentType, StoreInv, OwnInv, FramesInv, AdmissionInv,
         SnapsOK, TellsTruth, ToldInv, [Next]_vars, QueueShape
  PROVE  /\ \A n \in told : n <= spent'.made
         /\ \A i \in DOMAIN tail' : Admits(tail'[i]) => \A n \in told : n < tail'[i].r
         /\ \A snap \in Snaps' : ToldOK(snap, told)
<1>0. spent.made <= spent'.made /\ spent.made \in Nat /\ spent'.made \in Nat
  BY MadeGrows
<1>1. ASSUME NEW n \in told PROVE n <= spent'.made
  <2>1. n <= spent.made /\ n \in Nat
    BY <1>1, LaneAssumption DEF ToldInv, TellsTruth
  <2> QED BY <1>0, <2>1
<1>2. ASSUME NEW i \in DOMAIN tail', Admits(tail'[i]), NEW n \in told PROVE n < tail'[i].r
  <2>1. CASE tail' = tail
    BY <1>2, <2>1 DEF ToldInv
  <2>2. ASSUME NEW call \in GoodCalls, Enqueue(call), Arrives(call) PROVE n < tail'[i].r
    <3>1. ASSUME Admits(call) PROVE n < call.r
      <4>1. call.r = spent.made + 1
        BY <2>2, <3>1, NewAdmission DEF AdmissionInv
      <4>2. n <= spent.made /\ n \in Nat
        BY <1>2, LaneAssumption DEF ToldInv, TellsTruth
      <4> QED BY <1>0, <4>1, <4>2
    <3>2. CASE i \in DOMAIN tail /\ tail'[i] = tail[i]
      BY <1>2, <3>2 DEF ToldInv
    <3> QED BY <1>2, <2>2, <3>1, <3>2, Longer
  <2>3. CASE Leaves
    BY <1>2, <2>3, Shorter DEF ToldInv
  <2>4. tail' # <<>>
    BY <1>2
  <2> QED BY <2>1, <2>2, <2>3, <2>4 DEF QueueShape, Starts, Drops
<1>3. ASSUME NEW snap \in Snaps PROVE ToldOK(snap, told)
  BY DEF ToldInv
<1>4. ASSUME Begins PROVE ToldOK(dev', told)
  <2>1. /\ Call1 \in GoodCalls /\ dev \in Snapshots /\ dev' \in Snapshots /\ Effect(Call1, dev, dev')
        /\ ToldOK(dev, told)
    BY <1>4 DEF Begins, StoreType, ToldInv, Snaps
  <2>2. Admits(Call1) => \A n \in told : n < Call1.r
    BY <1>4, FirstCall DEF ToldInv, Begins
  <2> DEFINE call == Call1
             b == dev'
  <2>3. call \in GoodCalls /\ b \in Snapshots /\ Effect(call, dev, b) /\ (Admits(call) => \A n \in told : n < call.r)
    BY <2>1, <2>2
  <2> HIDE DEF call, b
  <2>4. ToldOK(b, told)
    BY <2>1, <2>3, EffectTold DEF TellsTruth
  <2> QED BY <2>4 DEF b
<1>5. Snaps' \subseteq Snaps \cup (IF Begins THEN {dev'} ELSE {})
  BY StoreSteps, SnapsStep
<1> QED BY <1>1, <1>2, <1>3, <1>4, <1>5

LEMMA ToldStep ==
  ASSUME Orderly, ~Resends, StoreType, LinkType, WorkType, SpentType, StoreInv, OwnInv, FramesInv, AdmissionInv,
         SnapsOK, TellsTruth, ToldInv, [Next]_vars, QueueShape, AdmissionInv'
  PROVE  ToldInv'
<1>1. /\ \A n \in told : n <= spent'.made
      /\ \A i \in DOMAIN tail' : Admits(tail'[i]) => \A n \in told : n < tail'[i].r
      /\ \A snap \in Snaps' : ToldOK(snap, told)
  BY ToldKept
<1>2. ToldShape
  <2>1. SnapOK(dev, spent.made)
    BY DEF SnapsOK, Snaps
  <2> QED BY <2>1, ToldShapes
<1>3. CASE told' = told
  BY <1>1, <1>3 DEF ToldInv, ToldOK, IsPendingIn, Admits
<1>4. ASSUME NEW r \in Requests, told' = told \cup {r}, IsPendingIn(dev', r), Snaps' = {dev'}, dev'.pending.failed
      PROVE  ToldInv'
  <2>1. Req(r) \in dev'.acks /\ r <= spent'.made
    <3>1. SnapsOK'
      BY SnapsOKStep
    <3>2. SnapOK(dev, spent.made)'
      BY <3>1 DEF SnapsOK, Snaps
    <3>3. Served(dev, r)'
      BY <1>4 DEF Served, IsPendingIn
    <3> QED BY <3>2, <3>3 DEF SnapOK
  <2>2. ASSUME NEW i \in DOMAIN tail', Admits(tail'[i]) PROVE r < tail'[i].r
    <3>1. dev' \in Snaps'
      BY DEF Snaps
    <3> QED BY <2>1, <2>2, <3>1 DEF AdmissionInv, Unknown, Admits
  <2>3. ToldOK(dev', told')
    BY <1>4 DEF ToldOK
  <2> QED BY <1>1, <1>4, <2>1, <2>2, <2>3 DEF ToldInv, ToldOK, IsPendingIn, Admits
<1> QED BY <1>2, <1>3, <1>4 DEF ToldShape

----------------------------------------------------------------------------
(* What the histories hold.                                                *)

LEMMA HistoryTypeStep ==
  ASSUME StoreType, LinkType, WorkType, StoreInv, HistoryType, [Next]_vars
  PROVE  HistoryType'
<1> DEFINE Grows(a, b) == b = a \/ \E r \in Requests : b = a \cup {r}
           Fine == /\ Grows(accepted, accepted') /\ Grows(heard, heard')
                   /\ Grows(done, done') /\ Grows(told, told')
<1>0. Fine => HistoryType'
  BY DEF HistoryType
<1>1. dev.pending # None => dev.pending.req \in Requests
  BY PendingRecord DEF StoreType
<1>2. CASE FrameStep
  <2>1. ASSUME NEW k \in Conns, NEW r \in Requests, RepeatRequest(k, r) PROVE Fine
    BY <2>1, TellsFailure DEF RepeatRequest
  <2>2. ASSUME NEW k \in Conns, NEW r \in Requests, SendPlayed(k, r) PROVE Fine
    BY <2>2 DEF SendPlayed
  <2> QED BY <1>0, <1>2, <2>1, <2>2 DEF FrameStep, SendHello, CloseConnection, RequestLostCase,
             SendCaseStart, SendRequest, AskMobile, history
<1>3. CASE MobileReuses
  BY <1>0, <1>1, <1>3, ResumeTells DEF MobileReuses, Reusable
<1>4. CASE PlayedRefused
  <2>1. Leaves /\ Call1.op = "played"
    BY <1>4 DEF PlayedRefused, Starting, Skips, Leaves
  <2>2. Call1.r \in Requests
    BY <2>1, LeavingCall DEF GoodCalls, CallOK
  <2> QED BY <1>0, <1>4, <2>2 DEF PlayedRefused
<1>5. CASE ReturnStep
  <2>1. Returns /\ Completes
    BY <1>5, ReturnSteps DEF Returns, Completes
  <2>2. txn.call \in GoodCalls
    BY <2>1, CompletingCall
  <2>3. CASE HelloReturns
    BY <1>0, <1>1, <2>3, ResumeTells DEF HelloReturns
  <2>4. CASE AdmissionReturns
    <3>1. txn.call.r \in Requests
      BY <2>2, <2>4, LaneAssumption DEF AdmissionReturns, Returned, Running, GoodCalls, CallOK
    <3> QED BY <1>0, <2>4, <3>1 DEF AdmissionReturns
  <2>5. CASE PlayedReturns
    <3>1. txn.call.r \in Requests
      BY <2>2, <2>5 DEF PlayedReturns, Returned, Running, GoodCalls, CallOK
    <3> QED BY <1>0, <2>5, <3>1 DEF PlayedReturns
  <2>6. CASE DeliverReturns
    <3>1. txn.call.op = "deliver" /\ (heard' = heard \/ (MediationCurrent(txn.call.l) /\ heard' = heard \cup {lanes[txn.call.l].req}))
      BY <2>6 DEF DeliverReturns, Returned, Running
    <3>2. MediationCurrent(txn.call.l) => lanes[txn.call.l].req \in Requests
      <4>1. txn.call.l \in LaneIds /\ LaneType
        BY <2>2, <3>1, CallKinds, WorkTypes DEF LaneOps
      <4> QED BY <4>1, LaneRecord DEF MediationCurrent, Live
    <3> QED BY <1>0, <2>6, <3>1, <3>2 DEF DeliverReturns
  <2>7. CASE FailReturns
    <3>1. txn.call.op = "fail" /\ TellFailure(dev.pending.req)
      BY <2>7 DEF FailReturns, Returned, Running
    <3>2. dev.pending # None
      BY <2>1, <3>1 DEF Completes, StoreInv, Effect, Same, LaneOps
    <3> QED BY <1>0, <1>1, <2>7, <3>1, <3>2, TellsFailure DEF FailReturns
  <2>8. CASE CaseReturns \/ OtherReturns \/ ResetReturns
    BY <1>0, <2>8 DEF CaseReturns, OtherReturns, ResetReturns, history
  <2> QED BY <1>5, <2>3, <2>4, <2>5, <2>6, <2>7, <2>8 DEF ReturnStep
<1>6. CASE UnwrittenAdmission
  <2>1. txn # None /\ (told' = told \/ ScheduleResume(txn.call.k, txn.back))
    BY <1>6 DEF UnwrittenAdmission, Unwritten, Running
  <2>2. txn.back.pending # None => txn.back.pending.req \in Requests
    BY <2>1, TxnFields, PendingRecord
  <2> QED BY <1>0, <1>6, <2>1, <2>2, ResumeTells DEF UnwrittenAdmission, Unwritten
<1>7. ASSUME ~FrameStep, ~MobileReuses, ~PlayedRefused, ~ReturnStep, ~UnwrittenAdmission
      PROVE  UNCHANGED <<accepted, heard, done, told>>
  <2>1. CASE StillStep \/ UNCHANGED vars
    BY <1>7, <2>1 DEF StillStep, ProviderStep, Answer, StaleAnswer, MediatorAnswers, SpeechAnswers, MobileRefused,
       LaneGivesUp, RefuseTransaction, BeginReset, TimerFires, CaseChanges, SubmitOther, history, vars
  <2>2. CASE Begin
    BY <2>2 DEF Begin, BeginHello, BeginOther, BeginCase, BeginPlayed, BeginRequest, BeginMobile, BeginDeliver,
       BeginFail, BeginReset, BeginAdmission, history
  <2>3. CASE FailStep \/ CommitFailsVisible
    BY <1>7, <2>3 DEF FailStep, UnwrittenHello, UnwrittenHalt, UnwrittenOther, Unwritten, CommitFailsVisible, history
  <2>4. CASE EndStep \/ RenameState \/ Stop \/ BeginExit \/ Recover
    BY <2>4 DEF EndStep, FinishExit, Crash, ForgetProcess, RenameState, Stop, BeginExit, Recover, history
  <2> QED BY <1>7, <2>1, <2>2, <2>3, <2>4, NextSteps DEF Begin
<1> QED BY <1>0, <1>2, <1>3, <1>4, <1>5, <1>6, <1>7

----------------------------------------------------------------------------
(* Together.                                                               *)

TypeOK == StoreType /\ LinkType /\ WorkType /\ SpentType /\ HistoryType

\* For any device.
LaneInv == StoreInv /\ ApartInv /\ OwnInv /\ OneLive /\ HelloInv /\ OpenInv /\ ProvidingInv

\* For an orderly one.
SnapInv == FramesInv /\ AdmissionInv /\ SnapsOK /\ HistoryInv

LEMMA FirstOfAll ==
  FirstCase \in Cases /\ FreshDevice(FirstCase) \in Snapshots
<1>1. \E c \in Cases : \A d \in Cases : ~(d < c)
  <2>1. PICK c \in Cases : TRUE
    BY LaneAssumption
  <2>2. Cases \subseteq Nat /\ Cases # {}
    BY LaneAssumption
  <2>3. IsWellFoundedOn(OpToRel(<, Nat), Nat)
    BY NatLessThanWellFounded
  <2>4. PICK x \in Cases : \A y \in Cases : ~(<<y, x>> \in OpToRel(<, Nat))
    BY <2>2, <2>3, WFMin
  <2> QED BY <2>2, <2>4 DEF OpToRel
<1>2. \E c \in Cases : \A d \in Cases : c <= d
  BY <1>1, LaneAssumption
<1>3. FirstCase \in Cases
  BY <1>2 DEF FirstCase
<1> QED BY <1>3 DEF FreshDevice, Snapshots

LEMMA InitTypes ==
  ASSUME Init
  PROVE  TypeOK
<1>1. StoreType
  BY FirstOfAll DEF Init, StoreType, TxnType
<1>2. LinkType
  BY DEF Init, LinkType, NoConn
<1>3. WorkType
  BY DEF Init, WorkType
<1> QED BY <1>1, <1>2, <1>3 DEF Init, TypeOK, SpentType, HistoryType

LEMMA InitInv ==
  ASSUME Init
  PROVE  LaneInv /\ SnapInv /\ ToldInv
<1>1. /\ txn = None /\ tail = <<>> /\ dev = disk /\ undo = None /\ exit = None
      /\ mode = "up" /\ writable = TRUE /\ accepted = {} /\ done = {} /\ told = {}
      /\ dev.acks = {} /\ dev.pending = None
      /\ \A l \in LaneIds : lanes[l] = None
  BY DEF Init, FreshDevice
<1>2. DOMAIN tail = {} /\ Snaps = {dev}
  BY <1>1 DEF Snaps
<1>3. StoreInv
  BY <1>1 DEF StoreInv
<1>4. ApartInv /\ OwnInv /\ HelloInv /\ FramesInv
  BY <1>1, <1>2 DEF ApartInv, OwnInv, HelloInv, FramesInv
<1>5. OneLive /\ OpenInv /\ ProvidingInv
  BY <1>1 DEF OneLive, OpenInv, ProvidingInv, Live
<1>6. AdmissionInv
  BY <1>2 DEF AdmissionInv, LastFirst, Unknown, CaseKept
<1>7. SnapsOK
  BY <1>1, <1>2 DEF SnapsOK, SnapOK, Served, IsPendingIn
<1>8. HistoryInv /\ ToldInv
  BY <1>1, <1>2 DEF HistoryInv, HistoryOK, ToldInv, ToldOK
<1> QED BY <1>3, <1>4, <1>5, <1>6, <1>7, <1>8 DEF LaneInv, SnapInv

LEMMA TypeStep ==
  ASSUME TypeOK, StoreInv, [Next]_vars
  PROVE  TypeOK'
<1>1. StoreType /\ LinkType /\ WorkType /\ SpentType /\ HistoryType
  BY DEF TypeOK
<1>2. QueueShape /\ ConnShape /\ LaneShape /\ TimerShape /\ CurrentShape /\ StoreStep
  BY <1>1, Shapes, TimerShapes, CurrentShapes, StoreSteps
<1>3. StoreType'
  BY <1>1, <1>2, StoreTypeStep
<1>4. WorkType'
  <2>1. LaneType' /\ tail' \in Seq(GoodCalls)
    BY <1>1, <1>2, LaneTypeStep, QueueTypeStep
  <2> QED BY <2>1 DEF WorkType, LaneType
<1>5. LinkType'
  <2>1. ConnType'
    BY <1>1, <1>2, ConnTypeStep
  <2>2. timer' \in Conns \cup {None}
    BY <1>1, <1>2 DEF TimerShape, Resumes, LinkType
  <2>3. current' \in Conns \cup {None}
    <3>1. CASE BeginHello
      <4>1. Begins /\ current' = Call1.k /\ Call1.op = "hello"
        BY <1>1, <3>1, BeginFrames DEF BeginHello, Starting
      <4>2. Call1.k \in Conns
        BY <4>1 DEF Begins, GoodCalls, CallOK
      <4> QED BY <4>1, <4>2
    <3> QED BY <1>1, <1>2, <3>1 DEF CurrentShape, LinkType
  <2> QED BY <2>1, <2>2, <2>3 DEF LinkType, ConnType, ConnRec
<1>6. SpentType'
  BY <1>1, SpentStep
<1>7. HistoryType'
  BY <1>1, HistoryTypeStep
<1> QED BY <1>3, <1>4, <1>5, <1>6, <1>7 DEF TypeOK

LEMMA LaneStep ==
  ASSUME TypeOK, LaneInv, [Next]_vars
  PROVE  LaneInv'
<1>1. StoreType /\ LinkType /\ WorkType /\ SpentType
  BY DEF TypeOK
<1>2. QueueShape /\ ConnShape /\ LaneShape /\ TimerShape /\ CurrentShape /\ StoreStep
  BY <1>1, Shapes, TimerShapes, CurrentShapes, StoreSteps
<1>3. LiveShape
  BY <1>1, <1>2, LiveShapes
<1>4. StoreInv /\ ApartInv /\ OwnInv /\ OneLive /\ HelloInv /\ OpenInv /\ ProvidingInv
  BY DEF LaneInv
<1>5. StoreInv'
  BY <1>1, <1>2, <1>4, StoreInvStep
<1>6. ApartInv'
  BY <1>1, <1>2, <1>4, ApartStep
<1>7. OwnInv'
  BY <1>1, <1>2, <1>4, OwnStep
<1>8. OneLive'
  BY <1>3, <1>4, OneLiveStep
<1>9. HelloInv'
  BY <1>1, <1>2, <1>3, <1>4, HelloStep
<1>10. OpenInv'
  BY <1>1, <1>2, <1>3, <1>4, OpenStep
<1>11. ProvidingInv'
  BY <1>1, <1>2, <1>3, <1>4, ProvidingStep
<1> QED BY <1>5, <1>6, <1>7, <1>8, <1>9, <1>10, <1>11 DEF LaneInv

LEMMA SnapStep ==
  ASSUME Orderly, TypeOK, LaneInv, SnapInv, [Next]_vars
  PROVE  SnapInv'
<1>1. StoreType /\ LinkType /\ WorkType /\ SpentType /\ TellsTruth
  BY DEF TypeOK, HistoryType, TellsTruth
<1>2. QueueShape /\ ConnShape /\ LaneShape /\ CurrentShape /\ StoreStep
  BY <1>1, Shapes, CurrentShapes, StoreSteps
<1>3. StoreInv /\ ApartInv /\ OwnInv /\ FramesInv /\ AdmissionInv /\ SnapsOK /\ HistoryInv
  BY DEF LaneInv, SnapInv
<1>4. FramesInv'
  BY <1>1, <1>2, <1>3, FramesStep
<1>5. AdmissionInv'
  <2>1. LastFirst /\ Unknown /\ CaseKept
    BY <1>3 DEF AdmissionInv
  <2>2. LastFirst'
    BY <1>1, <1>2, <1>3, <2>1, LastFirstStep
  <2>3. Unknown'
    BY <1>1, <1>2, <1>3, <2>1, UnknownStep
  <2>4. CaseKept'
    BY <1>1, <1>2, <1>3, <2>1, CaseKeptStep
  <2> QED BY <2>2, <2>3, <2>4 DEF AdmissionInv
<1>6. SnapsOK'
  BY <1>1, <1>3, SnapsOKStep
<1>7. HistoryInv'
  BY <1>1, <1>3, HistoryStep
<1> QED BY <1>4, <1>5, <1>6, <1>7 DEF SnapInv

LEMMA ToldNext ==
  ASSUME Orderly, ~Resends, TypeOK, LaneInv, SnapInv, SnapInv', ToldInv, [Next]_vars
  PROVE  ToldInv'
<1>1. StoreType /\ LinkType /\ WorkType /\ SpentType /\ TellsTruth
  BY DEF TypeOK, HistoryType, TellsTruth
<1>2. QueueShape
  BY <1>1, Shapes
<1>3. StoreInv /\ OwnInv /\ FramesInv /\ AdmissionInv /\ SnapsOK /\ AdmissionInv'
  BY DEF LaneInv, SnapInv
<1> QED BY <1>1, <1>2, <1>3, ToldStep

----------------------------------------------------------------------------
(* The theorems.                                                           *)

\* The types hold, and with them what the queue, the lanes and the connections say of each
\* other, of any device.
THEOREM LaneIsSound == Spec => [](TypeOK /\ LaneInv)
<1>1. Init => TypeOK /\ LaneInv
  BY InitTypes, InitInv
<1>2. TypeOK /\ LaneInv /\ [Next]_vars => (TypeOK /\ LaneInv)'
  <2> SUFFICES ASSUME TypeOK, LaneInv, [Next]_vars PROVE TypeOK' /\ LaneInv'
    OBVIOUS
  <2>1. TypeOK'
    BY TypeStep DEF LaneInv
  <2>2. LaneInv'
    BY LaneStep
  <2> QED BY <2>1, <2>2
<1> QED BY <1>1, <1>2, PTL DEF Spec, Safety

\* mediate: audio.end closes the stream that the device has open, whatever lanes another
\* request, case or connection made stale, and every state a restart may find then awaits
\* the playback.  Any device, orderly or not.
THEOREM AudioEndsIt == Spec => AudioEndsItsOwnStream
<1>1. TypeOK /\ LaneInv /\ [Next]_vars => [EndsOwnStream]_vars
  <2> SUFFICES ASSUME TypeOK, LaneInv, [Next]_vars PROVE EndsOwnStream
    OBVIOUS
  <2>1. ConnShape
    BY Shapes DEF TypeOK
  <2> QED BY <2>1, AudioStep DEF TypeOK, LaneInv
<1>2. AudioEndsItsOwnStream <=> [][EndsOwnStream]_vars
  BY DEF AudioEndsItsOwnStream, EndsOwnStream
<1>3. Spec => [](TypeOK /\ LaneInv)
  BY LaneIsSound
<1> QED BY <1>1, <1>2, <1>3, PTL DEF Spec, Safety

\* Of an orderly device: the frames that wait are of its current connection, a request
\* that waits is newer than any that is known, every state a restart may find is sound and
\* holds what somebody was told.
THEOREM OrderlyIsSound == Orderly => (Spec => []SnapInv)
<1> SUFFICES ASSUME Orderly PROVE Spec => []SnapInv
  OBVIOUS
<1>1. Init => SnapInv
  BY InitInv
<1>2. (TypeOK /\ LaneInv) /\ SnapInv /\ [Next]_vars => SnapInv'
  BY SnapStep
<1>3. Spec => [](TypeOK /\ LaneInv)
  BY LaneIsSound
<1> QED BY <1>1, <1>2, <1>3, PTL DEF Spec, Safety

\* restorePersistentState: of an orderly device every state that reaches the disk, or that
\* a power failure brings back, passes the checks on the pending mediation.
THEOREM SnapshotsRestore == Orderly => (Spec => []EverySnapshotRestores)
<1> SUFFICES ASSUME Orderly PROVE Spec => []EverySnapshotRestores
  OBVIOUS
<1>1. TypeOK /\ SnapInv => EverySnapshotRestores
  <2> SUFFICES ASSUME TypeOK, SnapInv, NEW snap \in OnDisk, snap.pending # None
               PROVE  CaseOf[snap.pending.req] = snap.case /\ Req(snap.pending.req) \in snap.acks
    BY DEF EverySnapshotRestores, Restorable
  <2>1. snap \in Snaps /\ snap \in Snapshots
    BY SnapsTyped DEF OnDisk, Snaps, TypeOK
  <2>2. snap.pending.req \in Requests
    BY <2>1, PendingRecord
  <2>3. SnapOK(snap, spent.made)
    BY <2>1 DEF SnapInv, SnapsOK
  <2> QED BY <2>2, <2>3 DEF SnapOK, Served, IsPendingIn
<1>2. Spec => []SnapInv
  BY OrderlyIsSound
<1>3. Spec => [](TypeOK /\ LaneInv)
  BY LaneIsSound
<1> QED BY <1>1, <1>2, <1>3, PTL

\* requestMediation and requestMobileMediation: what somebody was told is accepted is in
\* every state a restart may find until it is played or gives way to a newer one.
THEOREM AcceptedAreKept == Orderly => (Spec => []AcceptedIsKept)
<1> SUFFICES ASSUME Orderly PROVE Spec => []AcceptedIsKept
  OBVIOUS
<1>1. TypeOK /\ SnapInv => AcceptedIsKept
  <2> SUFFICES ASSUME TypeOK, SnapInv, NEW r \in accepted, NEW snap \in OnDisk
               PROVE  IsPendingIn(snap, r) \/ Played(r) \in snap.acks \/ Newer(snap, r)
    BY DEF AcceptedIsKept
  <2>1. r \in Requests /\ snap \in Snaps
    BY DEF TypeOK, HistoryType, OnDisk, Snaps
  <2>2. ServedFrom(snap, r) \/ snap.case > CaseOf[r]
    BY <2>1 DEF SnapInv, HistoryInv, HistoryOK
  <2>3. ASSUME NEW n \in Requests, n >= r, Served(snap, n), n # r PROVE Newer(snap, r)
    <3>1. n > r
      BY <2>1, <2>3, LaneAssumption
    <3> QED BY <2>3, <3>1 DEF Newer, Served
  <2> QED BY <2>2, <2>3 DEF ServedFrom, Served, Newer
<1>2. Spec => []SnapInv
  BY OrderlyIsSound
<1>3. Spec => [](TypeOK /\ LaneInv)
  BY LaneIsSound
<1> QED BY <1>1, <1>2, <1>3, PTL

\* confirmPlayback: what the device was told is confirmed is never pending again, in no
\* state a restart may find, and no provider works for it.
THEOREM PlayedAreFinal == Orderly => (Spec => []PlayedIsFinal)
<1> SUFFICES ASSUME Orderly PROVE Spec => []PlayedIsFinal
  OBVIOUS
<1>1. TypeOK /\ LaneInv /\ SnapInv => PlayedIsFinal
  <2> SUFFICES ASSUME TypeOK, LaneInv, SnapInv, NEW r \in done
               PROVE  /\ \A snap \in OnDisk : ~IsPendingIn(snap, r)
                      /\ \A l \in LaneIds : Live(l) /\ lanes[l].req = r => lanes[l].step \notin Providing
    BY DEF PlayedIsFinal
  <2>1. r \in Requests /\ CaseOf[r] \in Nat
    BY LaneAssumption DEF TypeOK, HistoryType
  <2>2. ASSUME NEW snap \in Snaps PROVE ~IsPendingIn(snap, r)
    <3> SUFFICES ASSUME IsPendingIn(snap, r) PROVE FALSE
      OBVIOUS
    <3>1. SnapOK(snap, spent.made) /\ HistoryOK(snap, accepted, done)
      BY <2>2 DEF SnapInv, SnapsOK, HistoryInv
    <3>2. Played(r) \notin snap.acks
      BY <3>1 DEF SnapOK, IsPendingIn
    <3>3. CaseOf[r] = snap.case
      BY <2>1, <3>1 DEF SnapOK, Served
    <3>4. snap.case > CaseOf[r]
      BY <3>1, <3>2 DEF HistoryOK
    <3> QED BY <2>1, <3>3, <3>4
  <2>3. ASSUME NEW l \in LaneIds, Live(l), lanes[l].req = r, lanes[l].step \in Providing PROVE FALSE
    <3>1. IsPendingIn(dev, r)
      BY <2>3 DEF LaneInv, ProvidingInv, Provides, IsPending, IsPendingIn
    <3> QED BY <2>2, <3>1 DEF Snaps
  <2> QED BY <2>2, <2>3 DEF OnDisk, Snaps
<1>2. Spec => []SnapInv
  BY OrderlyIsSound
<1>3. Spec => [](TypeOK /\ LaneInv)
  BY LaneIsSound
<1> QED BY <1>1, <1>2, <1>3, PTL

\* mediate and deliverPendingMediationFailure: after the device was told that a request
\* failed no provider is called for it again, also after a restart, if the device sends no
\* request again.  One that does is told while the failure is still being written.
THEOREM FailuresAreFinal == Orderly /\ ~Resends => (Spec => []FailureIsFinal)
<1> SUFFICES ASSUME Orderly, ~Resends PROVE Spec => []FailureIsFinal
  OBVIOUS
<1>1. Init => ToldInv
  BY InitInv
<1>2. (TypeOK /\ LaneInv) /\ SnapInv /\ SnapInv' /\ ToldInv /\ [Next]_vars => ToldInv'
  BY ToldNext
<1>3. LaneInv /\ ToldInv => FailureIsFinal
  <2> SUFFICES ASSUME LaneInv, ToldInv, NEW r \in told
               PROVE  /\ \A snap \in OnDisk : IsPendingIn(snap, r) => snap.pending.failed
                      /\ \A l \in LaneIds : Live(l) /\ lanes[l].req = r => lanes[l].step \notin Providing
    BY DEF FailureIsFinal
  <2>1. \A snap \in Snaps : IsPendingIn(snap, r) => snap.pending.failed
    BY DEF ToldInv, ToldOK
  <2>2. ASSUME NEW l \in LaneIds, Live(l), lanes[l].req = r, lanes[l].step \in Providing PROVE FALSE
    <3>1. IsPendingIn(dev, r) /\ ~dev.pending.failed
      BY <2>2 DEF LaneInv, ProvidingInv, Provides, IsPending, IsPendingIn
    <3> QED BY <2>1, <3>1 DEF Snaps
  <2> QED BY <2>1, <2>2 DEF OnDisk, Snaps
<1>4. Spec => [](TypeOK /\ LaneInv)
  BY LaneIsSound
<1>5. Spec => []SnapInv
  BY OrderlyIsSound
<1> QED BY <1>1, <1>2, <1>3, <1>4, <1>5, PTL DEF Spec, Safety
=============================================================================
