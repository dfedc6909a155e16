--------------------------- MODULE MediationState ---------------------------
(***************************************************************************)
(* The device's user-interface state machine                               *)
(* (boards/rorolee-basic/mediation_state.cc).  Handle takes one event and  *)
(* returns the machine after it with the actions the board must carry out, *)
(* in order.  The board may stop in the middle of that list, when an       *)
(* action fails; the machine has then already moved.                       *)
(*                                                                         *)
(* Times are left out: whether kLongPressMs has passed since the case      *)
(* button went down is a parameter of the operators that ask.  The status  *)
(* that shows for kEndStatusMs after a statement changes only the display. *)
(***************************************************************************)
EXTENDS Naturals, Sequences

Speakers == {"A", "B"}

CONSTANT MaxCompleted   \* where the counters of finished statements saturate

ASSUME MaxCompletedAssumption == MaxCompleted \in Nat \ {0}

\* Handle(kBoot).
BootMachine ==
  [state |-> "Welcome", completed |-> [s \in Speakers |-> 0], gen |-> 0,
   hasCase |-> FALSE, down |-> FALSE, longFired |-> FALSE, shortOk |-> FALSE]

Recording(s) == IF s = "A" THEN "RecordingA" ELSE "RecordingB"

\* RecordingSpeaker.
IsRecording(m) == m.state \in {"RecordingA", "RecordingB"}

Speaking(m) == IF m.state = "RecordingA" THEN "A" ELSE "B"

ShortCaseAllowed(state) == state \in {"Welcome", "Waiting", "RecoverableError"}

Act(type)         == [type |-> type]
Show(status)      == [type |-> "ShowStatus", status |-> status]
Start(s)          == [type |-> "StartRecording", speaker |-> s]
NewCaseAct(g)     == [type |-> "NewCase", gen |-> g]
Mediate(g)        == [type |-> "RequestMediation", gen |-> g]
Buzz              == Act("Vibrate")

Result(m, acts) == [machine |-> m, acts |-> acts]

StartNewCase(m) ==
  LET g == m.gen + 1
  IN Result([m EXCEPT !.gen = g, !.hasCase = TRUE,
                      !.completed = [s \in Speakers |-> 0],
                      !.state = "Waiting"],
            <<NewCaseAct(g), Show("Waiting")>>)

StartOrStopSpeaker(m, s) ==
  CASE m.state = "Welcome" -> Result(m, <<Buzz, Show("NeedCase")>>)
    [] m.state = "Waiting" ->
         Result([m EXCEPT !.state = Recording(s)],
                <<Start(s), Show(Recording(s))>>)
    [] m.state = Recording(s) ->
         Result([m EXCEPT !.state = "Waiting"],
                <<Act("StopRecording"), Show("Waiting")>>)
    [] OTHER -> Result(m, <<Buzz>>)

\* HandleLongPress: stop the recording that is running, then ask for
\* mediation.  The statement just stopped counts as collected already.
HandleLongPress(m) ==
  LET stopping == IsRecording(m)
      stop     == IF stopping THEN <<Act("StopRecording")>> ELSE <<>>
      m1       == IF stopping THEN [m EXCEPT !.state = "Waiting"] ELSE m
      missing  == \E s \in Speakers :
                    m.completed[s] = 0 /\ ~(stopping /\ Speaking(m) = s)
  IN CASE ~m1.hasCase -> Result(m1, stop \o <<Buzz, Show("NeedCase")>>)
       [] m1.hasCase /\ m1.state = "Mediating" -> Result(m1, stop)
       [] m1.hasCase /\ m1.state \in {"Playing", "RecoverableError"} ->
            Result(m1, stop \o <<Buzz>>)
       [] m1.hasCase /\ m1.state = "Waiting" /\ missing ->
            Result(m1, stop \o <<Buzz, Show("NeedBothStatements")>>)
       [] OTHER -> Result([m1 EXCEPT !.state = "Mediating"],
                          stop \o <<Mediate(m.gen), Show("Mediating")>>)

\* HandleButtonPressed.
CasePressed(m) ==
  IF m.down THEN Result(m, <<>>)
  ELSE Result([m EXCEPT !.down = TRUE, !.longFired = FALSE,
                        !.shortOk = ShortCaseAllowed(m.state)], <<>>)

\* HandleButtonReleased: reachedLong says that the press was long,
\* allowNewCase that nothing is left to deliver of the case before.
CaseReleased(m, reachedLong, allowNewCase) ==
  LET up(x) == [x EXCEPT !.down = FALSE, !.longFired = FALSE, !.shortOk = FALSE]
      then(r) == [r EXCEPT !.machine = up(@)]
  IN CASE ~m.down -> Result(m, <<>>)
       [] m.down /\ m.longFired -> Result(up(m), <<>>)
       [] m.down /\ ~m.longFired /\ reachedLong -> then(HandleLongPress(m))
       [] OTHER ->
            IF m.shortOk /\ ShortCaseAllowed(m.state) /\ allowNewCase
            THEN then(StartNewCase(m)) ELSE Result(up(m), <<Buzz>>)

\* Handle(kTick): the long press fires.
LongPressTick(m) == HandleLongPress([m EXCEPT !.longFired = TRUE])

GenerationMatches(m, g) == m.hasCase /\ g = m.gen

\* Handle(kSegmentDurableAck).
SegmentDurable(m, s, g) ==
  IF ~GenerationMatches(m, g) THEN Result(m, <<>>)
  ELSE Result([m EXCEPT !.completed[s] = IF @ < MaxCompleted THEN @ + 1 ELSE @],
              IF m.state = "Waiting" THEN <<Show("StatementEnded")>> ELSE <<>>)

\* Handle(kAudioStart) and Handle(kAudioEnd).
AudioStarted(m, g) ==
  IF GenerationMatches(m, g) /\ m.state = "Mediating"
  THEN Result([m EXCEPT !.state = "Playing"], <<>>)
  ELSE Result(m, <<>>)

AudioEnded(m, g) ==
  IF GenerationMatches(m, g) /\ m.state = "Playing"
  THEN Result([m EXCEPT !.state = "Waiting"],
              <<Show("Waiting")>>)
  ELSE Result(m, <<>>)

\* Handle(kRecoverableError): a live recording is stopped, which saves it.
Faulted(m, g) ==
  IF m.hasCase /\ g # m.gen THEN Result(m, <<>>)
  ELSE Result([m EXCEPT !.state = "RecoverableError"],
              (IF IsRecording(m) THEN <<Act("StopRecording")>> ELSE <<>>)
              \o <<Buzz, Show("Error")>>)

\* Handle(kRecovered).
Recovered(m) ==
  IF m.state # "RecoverableError" THEN Result(m, <<>>)
  ELSE LET next == IF m.hasCase THEN "Waiting" ELSE "Welcome"
       IN Result([m EXCEPT !.state = next], <<Show(next)>>)
=============================================================================
