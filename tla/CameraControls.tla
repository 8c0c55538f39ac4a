---------------------------- MODULE CameraControls ----------------------------
(***************************************************************************)
(* The controls of the player view (P2PManager.m 846-1033, LibCoreWrap.m   *)
(* 168-240, PlayViewController.m 186-241): turning, mirroring, and the     *)
(* picture settings.  A touch puts a block on streamQueue, which is        *)
(* serial; that block puts a message on p2pIOControlManagerQueue, which is *)
(* serial too.  A setting takes a detour: it is stored by a block on the   *)
(* global concurrent queue, and the message is filled with what is read    *)
(* back at once, a setting at a time, whether that block has run or not.   *)
(*                                                                         *)
(* P2PManager outlives a play: its mirror tag and its stored settings are  *)
(* used for whatever camera is opened next.  The camera is external; a     *)
(* send that is not acknowledged may have arrived or not.                  *)
(***************************************************************************)
EXTENDS Integers, Sequences, FiniteSets, SequencesExt

CONSTANTS
    Settings,   \* brightness, contrast, saturation
    Values,     \* values of a setting
    Default,    \* DEFAULT_SETTING_VALUE
    Unknown,    \* what a camera was left in, which the program does not ask for
    Turns,      \* the turn buttons
    Stop,       \* CAMERA_TURN_TYPE_STOP
    MaxTouches, \* bound on what the user does
    MaxCameras  \* bound on the plays, each with another camera

ASSUME ControlsAssumption ==
    /\ IsFiniteSet(Settings)
    /\ Default \in Values /\ Unknown \notin Values /\ Stop \notin Turns
    /\ {MaxTouches, MaxCameras} \subseteq Nat

VARIABLES
    fingers,  \* turn buttons held down
    touches,  \* touches so far
    stream,   \* streamQueue: its blocks
    got,      \* what the settings block at its head has read so far
    writes,   \* global queue: setters' blocks that have not run
    control,  \* p2pIOControlManagerQueue: messages not yet sent
    stored,   \* brightness, contrast, saturation of P2PManager
    tag,      \* mirrorUpDownTag
    camera,   \* external: the camera of this play
    cameras,  \* plays so far
    seen      \* history: what the user asked for, and what was acknowledged

vars == <<fingers, touches, stream, got, writes, control, stored, tag, camera,
          cameras, seen>>

NotReading == [s \in {} |-> Default]

\* f, and g where f says nothing.
Over(f, g) == [x \in DOMAIN f \union DOMAIN g |-> IF x \in DOMAIN f THEN f[x] ELSE g[x]]

\* A camera that is opened may have been left mirrored, and in any settings.
FreshCamera == [turn : {Stop}, mirror : {0, 1}, set : [Settings -> {Unknown}]]

Init ==
    /\ fingers = {} /\ touches = 0
    /\ stream = <<>> /\ got = NotReading /\ writes = <<>> /\ control = <<>>
    /\ stored = [s \in Settings |-> Default]
    /\ tag = 1
    /\ camera \in FreshCamera /\ cameras = 1
    /\ seen = [turn |-> Stop, turnLost |-> FALSE, mirrored |-> FALSE,
               choice |-> stored, before |-> stored, paced |-> TRUE,
               setLost |-> TRUE]

Quiet == stream = <<>> /\ writes = <<>> /\ control = <<>>

-----------------------------------------------------------------------------
(* The main thread: the touches.                                            *)

Touch(op) ==
    /\ touches < MaxTouches
    /\ touches' = touches + 1
    /\ stream' = Append(stream, op)
    /\ UNCHANGED <<got, writes, control, stored, tag, camera, cameras>>

\* Buttons 6 and 7 turn while they are held: touch down starts.
PressTurn(t) ==
    /\ t \notin fingers
    /\ fingers' = fingers \union {t}
    /\ seen' = [seen EXCEPT !.turn = t]
    /\ Touch([kind |-> "turn", turn |-> t])

\* Touch up inside either button stops.
LiftInside(t) ==
    /\ t \in fingers
    /\ fingers' = fingers \ {t}
    /\ seen' = [seen EXCEPT !.turn = Stop]
    /\ Touch([kind |-> "turn", turn |-> Stop])

\* The view has no handler for a finger that leaves the button.
LiftOutside(t) ==
    /\ t \in fingers
    /\ fingers' = fingers \ {t}
    /\ UNCHANGED <<touches, stream, got, writes, control, stored, tag, camera,
                   cameras, seen>>

\* Buttons 4 and 5 both end in _setMirrorUpDown.
PressMirror ==
    /\ Touch([kind |-> "mirror"])
    /\ UNCHANGED <<fingers, seen>>

\* The slider sets one setting, button 13 all of them.
Choose(choice) ==
    /\ Touch([kind |-> "set", choice |-> choice])
    /\ seen' = [seen EXCEPT !.before = seen.choice, !.choice = Over(choice, seen.choice),
                            !.paced = @ /\ Quiet]
    /\ UNCHANGED fingers

MoveSlider == \E s \in Settings, v \in Values : Choose([x \in {s} |-> v])
PressDefaults == Choose([s \in Settings |-> Default])

-----------------------------------------------------------------------------
(* streamQueue: the blocks of LibCoreWrap, which call P2PManager.           *)

BlockEnds == stream' = Tail(stream)

\* turnWithSpeed:type: and setMirrorUpDown: one block for the control queue.
Forward ==
    /\ stream # <<>> /\ Head(stream).kind \in {"turn", "mirror"}
    /\ control' = Append(control, Head(stream))
    /\ BlockEnds
    /\ UNCHANGED <<fingers, touches, got, writes, stored, tag, camera, cameras, seen>>

AsWrites(choice) == SetToSeq({[of |-> s, value |-> choice[s]] : s \in DOMAIN choice})

\* setCameraBrightness: and its like: the setter only queues its block.
StoreSetting ==
    /\ stream # <<>> /\ Head(stream).kind = "set"
    /\ writes' = writes \o AsWrites(Head(stream).choice)
    /\ stream' = <<[kind |-> "read"]>> \o Tail(stream)
    /\ UNCHANGED <<fingers, touches, got, control, stored, tag, camera, cameras, seen>>

\* Mutant of ReadSetting: the getter does not wait for its block.
ReadSettingAsync(s) ==
    /\ stream # <<>> /\ Head(stream).kind = "read" /\ s \notin DOMAIN got
    /\ got' = Over(got, [x \in {s} |-> Default])
    /\ UNCHANGED <<fingers, touches, stream, writes, control, stored, tag, camera,
                   cameras, seen>>

\* The getters, in the order the compiler evaluates the arguments.
ReadSetting(s) ==
    /\ stream # <<>> /\ Head(stream).kind = "read" /\ s \notin DOMAIN got
    /\ got' = Over(got, [x \in {s} |-> stored[s]])
    /\ UNCHANGED <<fingers, touches, stream, writes, control, stored, tag, camera,
                   cameras, seen>>

\* Mutant of SendSettings: the message is sent with what has been read so far.
SendSettingsPartly ==
    /\ stream # <<>> /\ Head(stream).kind = "read" /\ got # NotReading
    /\ control' = Append(control, [kind |-> "set", set |-> got])
    /\ got' = NotReading
    /\ BlockEnds
    /\ UNCHANGED <<fingers, touches, writes, stored, tag, camera, cameras, seen>>

\* setBrightness:contrast:saturation:.
SendSettings ==
    /\ stream # <<>> /\ Head(stream).kind = "read" /\ DOMAIN got = Settings
    /\ control' = Append(control, [kind |-> "set", set |-> got])
    /\ got' = NotReading
    /\ BlockEnds
    /\ UNCHANGED <<fingers, touches, writes, stored, tag, camera, cameras, seen>>

-----------------------------------------------------------------------------
(* The global concurrent queue runs the setters' blocks in any order.       *)

RunWrite(i) ==
    /\ i \in DOMAIN writes
    /\ stored' = [stored EXCEPT ![writes[i].of] = writes[i].value]
    /\ writes' = RemoveAt(writes, i)
    /\ UNCHANGED <<fingers, touches, stream, got, control, tag, camera, cameras, seen>>

-----------------------------------------------------------------------------
(* p2pIOControlManagerQueue: avSendIOCtrl, one message at a time.           *)

\* What a message does to the camera.
Obeyed(m) ==
    CASE m.kind = "turn"   -> [camera EXCEPT !.turn = m.turn]
      [] m.kind = "mirror" -> [camera EXCEPT !.mirror = tag]
      [] m.kind = "set"    -> [camera EXCEPT !.set = m.set]

\* Mutant of Sendable: a control queue that is concurrent, as the initializer
\* makes it when it is given a queue (P2PManager.m 96).
SendableInAnyOrder(i) == i \in DOMAIN control

\* The control queue made by the initializer is serial.
Sendable(i) == i = 1 /\ control # <<>>

\* Mutant of TagAfter: the tag changes in any case.
TagAfterAlways(m, acked) == IF m.kind = "mirror" THEN 1 - tag ELSE tag

\* The tag changes for the next press only when this one was acknowledged.
TagAfter(m, acked) == IF acked /\ m.kind = "mirror" THEN 1 - tag ELSE tag

Noted(m, acked, arrived) ==
    CASE m.kind = "turn"   -> [seen EXCEPT !.turnLost = ~acked]
      [] m.kind = "mirror" -> [seen EXCEPT !.mirrored = acked \/ (@ /\ ~arrived)]
      [] m.kind = "set"    -> [seen EXCEPT !.setLost = ~acked]

SendMessage ==
    \E i \in DOMAIN control, acked, arrived \in BOOLEAN :
        /\ Sendable(i) /\ (acked => arrived)
        /\ camera' = IF arrived THEN Obeyed(control[i]) ELSE camera
        /\ tag' = TagAfter(control[i], acked)
        /\ seen' = Noted(control[i], acked, arrived)
        /\ control' = RemoveAt(control, i)
        /\ UNCHANGED <<fingers, touches, stream, got, writes, stored, cameras>>

-----------------------------------------------------------------------------
(* The user leaves the view and opens the play of another camera.           *)

OpenAnother ==
    /\ cameras < MaxCameras
    /\ cameras' = cameras + 1
    /\ camera' \in FreshCamera
    /\ fingers' = {}
    /\ seen' = [seen EXCEPT !.turnLost = TRUE, !.mirrored = FALSE, !.setLost = TRUE]
    /\ UNCHANGED <<touches, stream, got, writes, control, stored, tag>>

User ==
    \/ \E t \in Turns : PressTurn(t) \/ LiftInside(t) \/ LiftOutside(t)
    \/ PressMirror \/ MoveSlider \/ PressDefaults \/ OpenAnother

StreamQueue ==
    Forward \/ StoreSetting \/ (\E s \in Settings : ReadSetting(s)) \/ SendSettings

GlobalQueue == \E i \in DOMAIN writes : RunWrite(i)

Next == User \/ StreamQueue \/ GlobalQueue \/ SendMessage

Spec == Init /\ [][Next]_vars

-----------------------------------------------------------------------------
Ops == [kind : {"turn"}, turn : Turns \union {Stop}]
         \union [kind : {"mirror", "read"}]
         \union UNION {[kind : {"set"}, choice : [D -> Values]] : D \in SUBSET Settings}

\* Every variable has its type: among the rest, what is sent to the camera as
\* settings names all of them (P2PManager.m 1004-1030).
ControlsTypeOK ==
    /\ fingers \subseteq Turns /\ touches \in 0 .. MaxTouches
    /\ stream \in Seq(Ops)
    /\ DOMAIN got \subseteq Settings /\ Range(got) \subseteq Values
    /\ writes \in Seq([of : Settings, value : Values])
    /\ control \in Seq([kind : {"turn"}, turn : Turns \union {Stop}]
                        \union [kind : {"mirror"}]
                        \union [kind : {"set"}, set : [Settings -> Values]])
    /\ stored \in [Settings -> Values] /\ tag \in {0, 1}
    /\ camera \in [turn : Turns \union {Stop}, mirror : {0, 1},
                   set : [Settings -> Values \union {Unknown}]]

\* A press of mirror turns the picture round: once this camera has acknowledged
\* one, the next will ask for the opposite of what the camera shows, however
\* many are lost on the way.  Only a press that arrives without being
\* acknowledged is repeated in vain (P2PManager.m 876-890).
NextPressMirrors == seen.mirrored => camera.mirror = 1 - tag

\* A choice made in peace reaches the camera with the next: when each touch of
\* a setting found everything quiet and the last message was acknowledged, the
\* camera shows every setting the last touch did not change as it was chosen.
\* The value the last touch chose itself may still be missing
\* (P2PManager.m 971-995).
PacedChoiceArrives ==
    Quiet /\ seen.paced /\ ~seen.setLost =>
        \A s \in Settings :
            seen.before[s] = seen.choice[s] => camera.set[s] = seen.choice[s]

\* With the queues empty the camera turns as the user asked last, or the message
\* that said so failed: a start overtaken by its own stop would leave a camera
\* turning with nothing under way to end it (P2PManager.m 918-970).
LastTurnArrived == Quiet => seen.turnLost \/ camera.turn = seen.turn
=============================================================================
