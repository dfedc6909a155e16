----------------------------- MODULE BridgePeer -----------------------------
(***************************************************************************)
(* The Bridge as one device sees it (bridge/src/device-gateway.mjs): what  *)
(* it answers to each message, on the connection that is current.  Its     *)
(* persistence, its jobs and its mediation lanes are in SegmentPipeline    *)
(* and MediationLane; here they succeed or fail at the end of their work.  *)
(*                                                                         *)
(* An answer is [b, out]: the Bridge after the message and the messages it *)
(* sends, as BridgeMessages describes them.                                *)
(***************************************************************************)
EXTENDS Naturals, Sequences, FiniteSets

CONSTANT Recordings

ASSUME RecordingsAssumption == IsFiniteSet(Recordings)

NoRow == [st |-> "none", pcm |-> <<>>, speaker |-> "none", text |-> "none"]

NoPending == [req |-> 0, phase |-> "none", delivered |-> FALSE]

\* owner: the recording of device.activeRecording, 0 for none; cached: it
\* only replays a stored one.  live: the recording whose end this connection
\* waits for, 0 for none.
FreshBridge ==
  [case |-> 0, rows |-> [s \in Recordings |-> NoRow], owner |-> 0,
   cached |-> FALSE, live |-> 0, pend |-> NoPending, played |-> {}]

Reply(b, out) == [b |-> b, out |-> out]

State(b, name) == [t |-> "state", case |-> b.case, state |-> name]

Error(b, seg, code, retry) ==
  [t |-> "error", case |-> b.case, seg |-> seg, code |-> code, retry |-> retry]

\* audio_stream_missing of a chunk names neither a case nor a recording.
NobodysError == [t |-> "error", case |-> 0, seg |-> 0, code |-> "audio", retry |-> TRUE]

Durable(b, s) ==
  [t |-> "durable", case |-> b.case, seg |-> s, bytes |-> Len(b.rows[s].pcm)]

InState(b, st) == {s \in Recordings : b.rows[s].st = st}
Committing(b) == InState(b, "committing")
Stored(b)     == InState(b, "stored")

\* #route: one message of a connection at a time; an end waits for its
\* commit, and so does the start of a recording that is being committed.
Busy(b, m) ==
  \/ b.live # 0
  \/ m.t = "start" /\ m.seg \in Committing(b)

----------------------------------------------------------------------------
(* #startCase; the ACK of a case that is known already is sent again.      *)
OnCase(b, m) ==
  LET ack == [t |-> "caseAck", case |-> m.case]
      next == [b EXCEPT !.case = m.case, !.owner = 0, !.pend = NoPending,
                        !.rows = FreshBridge.rows]
  IN IF m.case = b.case THEN Reply(b, <<ack>>)
     ELSE Reply(next, <<ack, State(next, "waiting")>>)

(* #startSpeech *)
OnStart(b, m) ==
  LET row == b.rows[m.seg]
      owned(x, cached) == [x EXCEPT !.owner = m.seg, !.cached = cached]
      opened == [b EXCEPT !.rows[m.seg] =
                   [NoRow EXCEPT !.st = "receiving", !.speaker = m.speaker]]
  IN CASE row.st = "receiving" -> Reply(owned(b, FALSE), <<>>)
       [] row.st = "stored"    -> Reply(owned(b, TRUE), <<>>)
       [] OTHER -> IF b.owner # 0
                   THEN Reply(b, <<Error(b, m.seg, "audio", TRUE)>>)
                   ELSE Reply(owned(opened, FALSE), <<>>)

\* The case is full: case_segment_limit_exceeded.
OnStartRefused(b, m) == Reply(b, <<Error(b, m.seg, "audio", FALSE)>>)

CanRefuse(b, m) ==
  m.t = "start" /\ b.rows[m.seg].st = "none" /\ b.owner = 0

(* #failRecording: the recording has to be sent again from its start.      *)
FailRecording(b) ==
  Reply([b EXCEPT !.rows[b.owner] = [NoRow EXCEPT !.st = "failed"], !.owner = 0],
        <<Error(b, b.owner, "audio", TRUE)>>)

(* #appendSpeech *)
OnChunk(b, m) ==
  LET got == b.rows[b.owner].pcm
      same == m.seq < Len(got) /\ got[m.seq + 1] = m.pcm
  IN CASE b.owner = 0 -> Reply(b, <<NobodysError>>)
       [] b.owner # 0 /\ b.cached -> Reply(b, <<>>)
       [] OTHER -> IF m.seq = Len(got)
                   THEN Reply([b EXCEPT !.rows[b.owner].pcm = Append(@, m.pcm)], <<>>)
                   ELSE IF same THEN Reply(b, <<>>) ELSE FailRecording(b)

(* #endSpeech: a stored recording has the durable ACK for its end message. *)
OnEnd(b, m) ==
  LET mine == b.owner = m.seg
  IN CASE m.seg \in Stored(b) ->
            Reply([b EXCEPT !.owner = IF mine /\ b.cached THEN 0 ELSE @],
                  <<Durable(b, m.seg)>>)
       [] m.seg \notin Stored(b) /\ b.owner = 0 ->
            Reply(b, <<Error(b, m.seg, "audio", TRUE)>>)
       [] m.seg \notin Stored(b) /\ b.owner # 0 /\ b.cached ->
            Reply(b, <<Error(b, m.seg, "audio", FALSE)>>)
       [] OTHER ->
            IF mine /\ m.complete /\ m.frames # 0 /\ m.frames = Len(b.rows[m.seg].pcm)
            THEN Reply([b EXCEPT !.rows[m.seg].st = "committing", !.live = m.seg], <<>>)
            ELSE FailRecording(b)

\* The end of the commit: the ACK goes to the connection that sent the end.
Ended(b, s) == [b EXCEPT !.owner = IF @ = s THEN 0 ELSE @,
                         !.live  = IF @ = s THEN 0 ELSE @]

Commit(b, s) ==
  LET kept == [Ended(b, s) EXCEPT !.rows[s].st = "stored", !.rows[s].text = "queued"]
  IN Reply(kept, IF b.live = s THEN <<Durable(kept, s)>> ELSE <<>>)

CommitFails(b, s) ==
  LET lost == [Ended(b, s) EXCEPT !.rows[s] = [NoRow EXCEPT !.st = "failed"]]
  IN Reply(lost, IF b.live = s THEN <<Error(b, s, "audio", TRUE)>> ELSE <<>>)

----------------------------------------------------------------------------
(* #deliverPendingTranscripts: every notice of the case, each time, in the *)
(* order of the recordings.                                                *)
Transcript(b, s) ==
  IF b.rows[s].text = "saved"
  THEN [t |-> "saved", case |-> b.case, seg |-> s, speaker |-> b.rows[s].speaker]
  ELSE Error(b, s, "transcription", TRUE)

Notices(b) ==
  LET told   == {s \in Recordings : b.rows[s].text \in {"saved", "failed"}}
      nth(n) == CHOOSE s \in told : Cardinality({r \in told : r < s}) = n
  IN [i \in 1..(2 * Cardinality(told)) |->
        IF i % 2 = 1 THEN Transcript(b, nth(i \div 2)) ELSE State(b, "waiting")]

Queued(b) == {s \in Recordings : b.rows[s].text = "queued"}

(* #transcribe, with its result. *)
Transcribe(b, s, text) ==
  LET done == [b EXCEPT !.rows[s].text = text] IN Reply(done, Notices(done))

(* canMediate of the case's snapshot. *)
CanMediate(b) ==
  /\ \A s \in Recordings : b.rows[s].st \notin {"receiving", "committing"}
                           /\ b.rows[s].text # "queued"
  /\ \A p \in {"A", "B"} :
       \E s \in Recordings : b.rows[s].speaker = p /\ b.rows[s].text = "saved"

(* #requestMediation; it takes the place of the request before.            *)
OnMediate(b, m) ==
  Reply([b EXCEPT !.pend = [req |-> m.req, phase |-> "working", delivered |-> FALSE]], <<>>)

(* #mediate up to the call of the model, *)
Mediating(b) ==
  LET again == [b EXCEPT !.pend.delivered = FALSE]
  IN IF CanMediate(b)
     THEN Reply([again EXCEPT !.pend.phase = "thinking"], <<State(b, "mediating")>>)
     ELSE Reply([again EXCEPT !.pend.phase = "idle"], <<Error(b, 0, "not_ready", TRUE)>>)

(* and after it. *)
Answer(b) ==
  LET audio(t) == [t |-> t, case |-> b.case, req |-> b.pend.req]
  IN Reply([b EXCEPT !.pend.phase = "idle", !.pend.delivered = TRUE],
           <<audio("astart"), audio("aend"), State(b, "waiting")>>)

MediationFailed(b) == <<Error(b, 0, "mediation", TRUE)>>

AnswerFails(b) == Reply([b EXCEPT !.pend.phase = "failed"], MediationFailed(b))

(* #confirmPlayback *)
OnPlayed(b, m) ==
  LET ack == <<[t |-> "playedAck", case |-> m.case, req |-> m.req]>>
      refuse(retry) == Reply(b, <<Error(b, 0, "other", retry)>>)
  IN CASE m.req \in b.played -> Reply(b, ack)
       [] m.req \notin b.played /\ m.req # b.pend.req -> refuse(FALSE)
       [] OTHER -> IF b.pend.delivered
                   THEN Reply([b EXCEPT !.pend = NoPending, !.played = @ \cup {m.req}], ack)
                   ELSE refuse(TRUE)

----------------------------------------------------------------------------
(* The socket closed: a recording that is not being committed fails, and   *)
(* the work of the mediation stops.                                        *)
Closed(b) ==
  LET lost == IF b.owner # 0 /\ ~b.cached /\ b.rows[b.owner].st = "receiving"
              THEN [b EXCEPT !.rows[b.owner] = [NoRow EXCEPT !.st = "failed"]] ELSE b
  IN [lost EXCEPT !.owner = 0, !.cached = FALSE, !.live = 0,
                  !.pend.phase = IF @ \in {"working", "thinking", "resume"} THEN "idle" ELSE @]

(* #authenticate: the stale connection goes first, the retained notices    *)
(* follow the ACK, and the mediation resumes 50 ms later.                  *)
Hello(b) ==
  LET c == Closed(b)
  IN Reply([c EXCEPT !.pend.phase = IF @ = "idle" THEN "resume" ELSE @],
           Notices(c) \o (IF c.pend.phase = "failed" THEN MediationFailed(c) ELSE <<>>))

Resume(b) == Reply([b EXCEPT !.pend.phase = "working"], <<>>)

OnMessage(b, m) ==
  CASE m.t = "case"    -> OnCase(b, m)
    [] m.t = "start"   -> OnStart(b, m)
    [] m.t = "chunk"   -> OnChunk(b, m)
    [] m.t = "end"     -> OnEnd(b, m)
    [] m.t = "mediate" -> OnMediate(b, m)
    [] m.t = "played"  -> OnPlayed(b, m)
=============================================================================
