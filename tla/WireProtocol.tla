---------------------------- MODULE WireProtocol ----------------------------
(***************************************************************************)
(* Control protocol v1, which two programs implement on their own: the     *)
(* runtime (ClawHudControlCodec.cpp, RuntimeControlWireMapping.cpp) and    *)
(* the Settings front end (ControlCodec.cs).  A behaviour is one exchange: *)
(* a request frame, what the runtime makes of it, the response frame; on   *)
(* the way a frame may be altered, as one of another program would be.     *)
(*                                                                         *)
(* A frame is a sequence of bytes.  A 32-bit number is read as the signed  *)
(* number with the same bits, so an unsigned one above 2^31 is negative    *)
(* here.  Flags are 0 and 1.                                               *)
(*                                                                         *)
(* The runtime's enumerations, and its opacity, a fraction, are named here *)
(* by the numbers that stand for them on the wire: the switches and the    *)
(* rounding of RuntimeControlWireMapping.cpp are the identity on the values*)
(* sent, and an error in one of them would not be seen.                    *)
(***************************************************************************)
EXTENDS Integers, Sequences

CONSTANTS
    Texts,      \* bound: the texts a result may carry, as bytes
    Damages     \* bound: the values an altered byte may take

Byte == 0..255

ASSUME BytesAssumption == Texts \subseteq Seq(Byte) /\ Damages \subseteq Byte

VARIABLES
    phase,      \* "request", "response", "read"
    frame,      \* the bytes on the pipe
    asked,      \* the request of the front end
    settings,   \* the settings of the runtime
    did,        \* what the runtime answered, or that it answered nothing
    altered     \* a frame was altered

wireVars == <<phase, frame, asked, settings, did, altered>>

-----------------------------------------------------------------------------
(* Numbers and texts on the wire: Writer and Reader.                       *)

LE(v, width) ==
    SubSeq(<<v % 256, (v \div 256) % 256, (v \div 65536) % 256, (v \div 16777216) % 256>>, 1, width)

Num(b, at, width) ==
    CASE width = 1 -> b[at]
      [] width = 2 -> b[at] + 256 * b[at + 1]
      [] width = 4 -> b[at] + 256 * b[at + 1] + 65536 * b[at + 2]
                        + 16777216 * (IF b[at + 3] < 128 THEN b[at + 3] ELSE b[at + 3] - 256)

MaxStringBytes == 4096
MaxPayloadBytes == 16384
HeaderSize == 24
ProtocolVersion == 1
Magic == <<67, 72, 85, 68>>

(* Strict UTF-8 without NUL: no stray or missing continuation byte, no     *)
(* overlong form, no surrogate, nothing above 0x10FFFF.                    *)
IsFirstByte(c) == c \notin 128..191
Follow(c) == CASE c < 128 -> 0 [] c \in 192..223 -> 1 [] c \in 224..239 -> 2
               [] c \in 240..247 -> 3 [] OTHER -> 4
CodePoint(t, i) ==
    LET rest(k) == t[i + k] - 128
    IN  CASE Follow(t[i]) = 0 -> t[i]
          [] Follow(t[i]) = 1 -> (t[i] - 192) * 64 + rest(1)
          [] Follow(t[i]) = 2 -> ((t[i] - 224) * 64 + rest(1)) * 64 + rest(2)
          [] OTHER -> (((t[i] - 240) * 64 + rest(1)) * 64 + rest(2)) * 64 + rest(3)
IsAllowed(code, follow) ==
    /\ follow = 1 => code >= 128
    /\ follow = 2 => code >= 2048 /\ code \notin 55296..57343
    /\ follow = 3 => code >= 65536 /\ code <= 1114111
IsCharacter(t, i) ==
    /\ t[i] # 0 /\ Follow(t[i]) # 4 /\ i + Follow(t[i]) <= Len(t)
    /\ \A k \in (i + 1)..(i + Follow(t[i])) : ~IsFirstByte(t[k])
    /\ IsAllowed(CodePoint(t, i), Follow(t[i]))
IsStrictUtf8(t) ==
    \A i \in DOMAIN t :
        IF IsFirstByte(t[i]) THEN IsCharacter(t, i)
        ELSE \E j \in 1..(i - 1) : IsFirstByte(t[j]) /\ i <= j + Follow(t[j])

IsValidWireString(t) == Len(t) <= MaxStringBytes /\ IsStrictUtf8(t)

Text(t) == LE(Len(t), 2) \o t

(* The text at a position, and where what follows it begins.               *)
TextAt(b, at) == SubSeq(b, at + 2, at + 1 + Num(b, at, 2))
ReadText(b, at) ==
    LET length == Num(b, at, 2)
    IN  IF /\ at + 1 <= Len(b)
           /\ length <= MaxStringBytes /\ at + 1 + length <= Len(b)
           /\ IsValidWireString(TextAt(b, at))
        THEN [ok |-> TRUE, at |-> at + 2 + length, text |-> TextAt(b, at)]
        ELSE [ok |-> FALSE, at |-> at, text |-> <<>>]

(* The five texts of a result.                                             *)
ReadTexts(b, at) ==
    LET t1 == ReadText(b, at)
        t2 == ReadText(b, t1.at)
        t3 == ReadText(b, t2.at)
        t4 == ReadText(b, t3.at)
        t5 == ReadText(b, t4.at)
    IN  [ok |-> t1.ok /\ t2.ok /\ t3.ok /\ t4.ok /\ t5.ok, at |-> t5.at,
         texts |-> <<t1.text, t2.text, t3.text, t4.text, t5.text>>]

-----------------------------------------------------------------------------
(* The runtime's side: ClawHudControlProtocol.h and ClawHudControlCodec.cpp*)

Operation == [GetRuntimeInfo |-> 1, GetSettingsSnapshot |-> 2, SetStartWithWindows |-> 10,
              SetHudEnabled |-> 11, SetHudVisibilityMode |-> 12, SetHudSizeOffset |-> 13,
              SetHudFont |-> 14, SetHudAlignment |-> 15, SetHudBackgroundMode |-> 16,
              PreviewHudOpacity |-> 17, CommitHudOpacity |-> 18,
              SetIntelVrrRangeFixEnabled |-> 19, RequestShutdown |-> 20]
Status == [Ok |-> 0, InvalidFrame |-> 1, UnsupportedVersion |-> 2, UnknownOperation |-> 3,
           InvalidPayload |-> 4, InvalidValue |-> 5, RuntimeUnavailable |-> 6,
           OperationFailed |-> 7, ShuttingDown |-> 8]

IsKnownOperation(op) == \E name \in DOMAIN Operation : Operation[name] = op
IsKnownStatus(status) == status \in 0..8

Bool == {0, 1}
IsValid == [startWithWindows |-> Bool, hudEnabled |-> Bool, hudSizeOffset |-> -2..2,
            hudFont |-> 1..2, visibilityMode |-> 1..2, alignment |-> 1..3,
            backgroundMode |-> 1..2, backgroundOpacityPercent |-> {5 * k : k \in 10..20},
            intelVrrRangeFixEnabled |-> Bool]

\* Mutant: the operation ids of font and alignment are exchanged.
SettingSwapped(op) ==
    CASE op = 10 -> "startWithWindows" [] op = 11 -> "hudEnabled"
      [] op = 12 -> "visibilityMode"   [] op = 13 -> "hudSizeOffset"
      [] op = 15 -> "hudFont"          [] op = 14 -> "alignment"
      [] op = 16 -> "backgroundMode"   [] op \in {17, 18} -> "backgroundOpacityPercent"
      [] op = 19 -> "intelVrrRangeFixEnabled"
      [] OTHER -> "none"

(* The setting an operation carries a value for, and its width on the wire.*)
Setting(op) ==
    CASE op = 10 -> "startWithWindows" [] op = 11 -> "hudEnabled"
      [] op = 12 -> "visibilityMode"   [] op = 13 -> "hudSizeOffset"
      [] op = 14 -> "hudFont"          [] op = 15 -> "alignment"
      [] op = 16 -> "backgroundMode"   [] op \in {17, 18} -> "backgroundOpacityPercent"
      [] op = 19 -> "intelVrrRangeFixEnabled"
      [] OTHER -> "none"
ShapeOf(op) == CASE Setting(op) = "none" -> 0 [] op = 13 -> 4 [] op \in {17, 18} -> 2 [] OTHER -> 1

ResponseCarriesSnapshot(op) == op = 2 \/ Setting(op) # "none"

NoResult == [status |-> 0, texts |-> <<>>]
NoInfo == [version |-> <<>>, minimum |-> 0, maximum |-> 0, launchMode |-> 0, runtimeState |-> 0]

EncodeResult(result) ==
    IF result = NoResult THEN <<0>>
    ELSE <<1, result.status>> \o Text(result.texts[1]) \o Text(result.texts[2])
         \o Text(result.texts[3]) \o Text(result.texts[4]) \o Text(result.texts[5])

\* Mutant: the visibility mode is written before the font.
EncodeSnapshotSwapped(s) ==
    LE(s.startWithWindows, 1) \o LE(s.hudEnabled, 1) \o LE(s.hudSizeOffset, 4)
    \o LE(s.visibilityMode, 1) \o LE(s.hudFont, 1) \o LE(s.alignment, 1)
    \o LE(s.backgroundMode, 1) \o LE(s.backgroundOpacityPercent, 2)
    \o LE(s.intelVrrRangeFixEnabled, 1)
    \o EncodeResult(s.result)

EncodeSnapshotPayload(s) ==
    LE(s.startWithWindows, 1) \o LE(s.hudEnabled, 1) \o LE(s.hudSizeOffset, 4)
    \o LE(s.hudFont, 1) \o LE(s.visibilityMode, 1) \o LE(s.alignment, 1)
    \o LE(s.backgroundMode, 1) \o LE(s.backgroundOpacityPercent, 2)
    \o LE(s.intelVrrRangeFixEnabled, 1)
    \o EncodeResult(s.result)

EncodeRuntimeInfoPayload(info) ==
    Text(info.version) \o LE(info.minimum, 2) \o LE(info.maximum, 2)
    \o <<info.launchMode, info.runtimeState>>

WriteHeader(kind, op, id, status, size) ==
    Magic \o LE(ProtocolVersion, 2) \o LE(HeaderSize, 2) \o LE(kind, 2) \o LE(op, 2)
    \o LE(id, 4) \o LE(status, 4) \o LE(size, 4)

\* Mutant: the status of a request, which is reserved, is not looked at.
ParseHeaderAnyStatus(b) ==
    IF Len(b) < HeaderSize \/ SubSeq(b, 1, 4) # Magic THEN Status.InvalidFrame
    ELSE IF Num(b, 5, 2) # ProtocolVersion THEN Status.UnsupportedVersion
    ELSE IF \/ Num(b, 7, 2) # HeaderSize \/ Num(b, 9, 2) # 1
            \/ Num(b, 13, 4) = 0
            \/ Num(b, 21, 4) \notin 0..MaxPayloadBytes
            \/ Len(b) # HeaderSize + Num(b, 21, 4)
    THEN Status.InvalidFrame
    ELSE Status.Ok

(* ParseHeader of a request: what is wrong with it, if anything.           *)
ParseHeader(b) ==
    IF Len(b) < HeaderSize \/ SubSeq(b, 1, 4) # Magic THEN Status.InvalidFrame
    ELSE IF Num(b, 5, 2) # ProtocolVersion THEN Status.UnsupportedVersion
    ELSE IF \/ Num(b, 7, 2) # HeaderSize \/ Num(b, 9, 2) # 1
            \/ Num(b, 13, 4) = 0 \/ Num(b, 17, 4) # 0
            \/ Num(b, 21, 4) \notin 0..MaxPayloadBytes
            \/ Len(b) # HeaderSize + Num(b, 21, 4)
    THEN Status.InvalidFrame
    ELSE Status.Ok

NoIdentity == [operation |-> 0, id |-> 0]

RequestError(op, size, value) ==
    IF ~IsKnownOperation(op) THEN Status.UnknownOperation
    ELSE IF size # ShapeOf(op) THEN Status.InvalidPayload
    ELSE IF ShapeOf(op) # 0 /\ value \notin IsValid[Setting(op)] THEN Status.InvalidValue
    ELSE Status.Ok

DecodeControlRequest(b) ==
    LET op == Num(b, 11, 2)
        value == IF ShapeOf(op) = 0 THEN 0 ELSE Num(b, 25, ShapeOf(op))
        error == RequestError(op, Len(b) - HeaderSize, value)
    IN  IF ParseHeader(b) # Status.Ok
        THEN [error |-> ParseHeader(b), identity |-> NoIdentity, value |-> 0]
        ELSE [error |-> error, identity |-> [operation |-> op, id |-> Num(b, 13, 4)],
              value |-> IF error = Status.Ok THEN value ELSE 0]

(* EncodeControlResponse: no frame for a response that the decoder of the  *)
(* protocol would refuse.                                                  *)
ResponsePayload(r) ==
    IF r.status # Status.Ok THEN <<>>
    ELSE IF r.operation = 1 THEN EncodeRuntimeInfoPayload(r.info)
    ELSE IF ResponseCarriesSnapshot(r.operation) THEN EncodeSnapshotPayload(r.snapshot)
    ELSE <<>>

EncodeControlResponse(r) ==
    IF \/ r.id = 0 \/ ~IsKnownStatus(r.status)
       \/ ~IsKnownOperation(r.operation) /\ r.status # Status.UnknownOperation
       \/ Len(ResponsePayload(r)) > MaxPayloadBytes
    THEN <<>>
    ELSE WriteHeader(2, r.operation, r.id, r.status, Len(ResponsePayload(r))) \o ResponsePayload(r)

(* The encoder of the protocol for requests, which the runtime's tests use.*)
EncodeControlRequest(op, id, value) ==
    IF \/ ~IsKnownOperation(op) \/ id = 0
       \/ ShapeOf(op) # 0 /\ value \notin IsValid[Setting(op)]
    THEN <<>>
    ELSE WriteHeader(1, op, id, Status.Ok, ShapeOf(op)) \o LE(value, ShapeOf(op))

(* RuntimeControlWireMapping.cpp: the settings as a snapshot, if each has  *)
(* a value the protocol allows.  The runtime takes any opacity from its    *)
(* file between the bounds; the protocol has the steps of the slider only. *)
ToWireSnapshot(s) ==
    IF /\ \A f \in DOMAIN IsValid : s[f] \in IsValid[f]
       /\ \A i \in DOMAIN s.result.texts : IsValidWireString(s.result.texts[i])
    THEN <<s>> ELSE <<>>

StatusResponse(identity, status) ==
    [operation |-> identity.operation, id |-> identity.id, status |-> status,
     info |-> NoInfo, snapshot |-> settings]

SnapshotResponse(identity, s) ==
    IF ToWireSnapshot(s) = <<>>
    THEN StatusResponse(identity, Status.OperationFailed)
    ELSE [StatusResponse(identity, Status.Ok) EXCEPT !.snapshot = s]

RuntimeInfo == [NoInfo EXCEPT !.version = <<49>>, !.minimum = ProtocolVersion,
                              !.maximum = ProtocolVersion, !.launchMode = 1, !.runtimeState = 2]

(* ExecuteControlResponse: setters with a result can refuse, the others    *)
(* can leave what they could not change.                                   *)
CanRefuse(op) == op \in {10, 11, 17, 18}
ExecuteControlResponse(identity, value) ==
    LET op == identity.operation
        changed == [settings EXCEPT ![Setting(op)] = value]
    IN  CASE op = 1 ->
               /\ did' = [StatusResponse(identity, Status.Ok) EXCEPT !.info = RuntimeInfo]
               /\ UNCHANGED settings
          [] op = 20 -> did' = StatusResponse(identity, Status.Ok) /\ UNCHANGED settings
          [] op = 2 -> did' = SnapshotResponse(identity, settings) /\ UNCHANGED settings
          [] OTHER -> \/ settings' = changed /\ did' = SnapshotResponse(identity, changed)
                      \/ /\ UNCHANGED settings
                         /\ did' = IF CanRefuse(op)
                                   THEN StatusResponse(identity, Status.OperationFailed)
                                   ELSE SnapshotResponse(identity, settings)

-----------------------------------------------------------------------------
(* The front end's side: ControlProtocol.cs and ControlCodec.cs.           *)

ControlOperation ==
    [GetRuntimeInfo |-> 1, GetSettingsSnapshot |-> 2, SetStartWithWindows |-> 10,
     SetHudEnabled |-> 11, SetHudVisibilityMode |-> 12, SetHudSizeOffset |-> 13,
     SetHudFont |-> 14, SetHudAlignment |-> 15, SetHudBackgroundMode |-> 16,
     PreviewHudOpacity |-> 17, CommitHudOpacity |-> 18, SetIntelVrrRangeFixEnabled |-> 19]
ControlStatuses == 0..8
WireValue == [flag |-> {0, 1}, visibilityMode |-> {1, 2}, alignment |-> {1, 2, 3}, font |-> {1, 2},
              backgroundMode |-> {1, 2}, hudSizeOffset |-> {-2, -1, 0, 1, 2},
              opacityPercent |-> {50, 55, 60, 65, 70, 75, 80, 85, 90, 95, 100},
              intelVrrStatus |-> 1..9, launchMode |-> {1, 2}, runtimeState |-> {1, 2, 3}]

(* The kind of value each operation sends.                                 *)
Carries ==
    [SetStartWithWindows |-> "flag", SetHudEnabled |-> "flag", SetIntelVrrRangeFixEnabled |-> "flag",
     SetHudVisibilityMode |-> "visibilityMode", SetHudFont |-> "font",
     SetHudAlignment |-> "alignment", SetHudBackgroundMode |-> "backgroundMode",
     SetHudSizeOffset |-> "hudSizeOffset", PreviewHudOpacity |-> "opacityPercent",
     CommitHudOpacity |-> "opacityPercent"]

Requests ==
    {[name |-> name, id |-> 1, value |-> 0] : name \in {"GetRuntimeInfo", "GetSettingsSnapshot"}}
    \cup UNION {{[name |-> name, id |-> 258, value |-> v] : v \in WireValue[Carries[name]]} :
                name \in DOMAIN Carries}

EncodeRequest(r) ==
    LET payload == IF r.name \notin DOMAIN Carries THEN <<>>
                   ELSE CASE Carries[r.name] = "hudSizeOffset" -> LE(r.value, 4)
                          [] Carries[r.name] = "opacityPercent" -> LE(r.value, 2)
                          [] OTHER -> <<r.value>>
    IN  Magic \o LE(ProtocolVersion, 2) \o LE(HeaderSize, 2) \o LE(1, 2)
        \o LE(ControlOperation[r.name], 2) \o LE(r.id, 4) \o LE(0, 4) \o LE(Len(payload), 4)
        \o payload

Malformed == [outcome |-> "Malformed", status |-> 1, info |-> NoInfo, snapshot |-> <<>>]

(* DecodeRuntimeInfo, to the end of the payload.                           *)
InfoAt(p, at) ==
    [version |-> ReadText(p, 1).text, minimum |-> Num(p, at, 2), maximum |-> Num(p, at + 2, 2),
     launchMode |-> p[at + 4], runtimeState |-> p[at + 5]]

IsInfo(p, at) ==
    /\ ReadText(p, 1).ok /\ Len(p) = at + 5
    /\ p[at + 4] \in WireValue.launchMode /\ p[at + 5] \in WireValue.runtimeState

DecodeRuntimeInfo(p) ==
    LET at == ReadText(p, 1).at
    IN  IF IsInfo(p, at)
        THEN [Malformed EXCEPT !.outcome = "Ok", !.status = 0, !.info = InfoAt(p, at)]
        ELSE Malformed

(* DecodeSnapshot: thirteen bytes of settings, then a result or none.      *)
FieldsOf(p) ==
    [startWithWindows |-> p[1], hudEnabled |-> p[2], hudSizeOffset |-> Num(p, 3, 4),
     hudFont |-> p[7], visibilityMode |-> p[8], alignment |-> p[9], backgroundMode |-> p[10],
     backgroundOpacityPercent |-> Num(p, 11, 2), intelVrrRangeFixEnabled |-> p[13],
     result |-> NoResult]

FieldsAreValid(f) ==
    /\ f.startWithWindows \in WireValue.flag
    /\ f.hudEnabled \in WireValue.flag
    /\ f.hudSizeOffset \in WireValue.hudSizeOffset
    /\ f.hudFont \in WireValue.font
    /\ f.visibilityMode \in WireValue.visibilityMode
    /\ f.alignment \in WireValue.alignment
    /\ f.backgroundMode \in WireValue.backgroundMode
    /\ f.backgroundOpacityPercent \in WireValue.opacityPercent
    /\ f.intelVrrRangeFixEnabled \in WireValue.flag

Snapshot(p, result) ==
    [Malformed EXCEPT !.outcome = "Ok", !.status = 0,
                      !.snapshot = <<[FieldsOf(p) EXCEPT !.result = result]>>]

HasResult(p) ==
    /\ Len(p) >= 15 /\ p[14] = 1 /\ p[15] \in WireValue.intelVrrStatus
    /\ ReadTexts(p, 16).ok /\ ReadTexts(p, 16).at = Len(p) + 1

DecodeSnapshot(p) ==
    IF Len(p) < 14 \/ ~FieldsAreValid(FieldsOf(p)) THEN Malformed
    ELSE IF p[14] = 0 /\ Len(p) = 14 THEN Snapshot(p, NoResult)
    ELSE IF HasResult(p) THEN Snapshot(p, [status |-> p[15], texts |-> ReadTexts(p, 16).texts])
    ELSE Malformed

(* DecodeResponse: anything that is not the answer to this request is      *)
(* malformed.                                                              *)
IsAnswer(b, id, op) ==
    /\ Len(b) >= HeaderSize /\ SubSeq(b, 1, 4) = Magic /\ Num(b, 5, 2) = ProtocolVersion
    /\ Num(b, 7, 2) = HeaderSize /\ Num(b, 9, 2) = 2
    /\ Num(b, 13, 4) # 0 /\ Num(b, 13, 4) = id /\ Num(b, 11, 2) = op
    /\ Num(b, 17, 4) \in ControlStatuses
    /\ Num(b, 21, 4) \in 0..MaxPayloadBytes /\ Len(b) = HeaderSize + Num(b, 21, 4)

DecodeResponse(b, id, op) ==
    LET status == Num(b, 17, 4)
        payload == SubSeq(b, HeaderSize + 1, Len(b))
    IN  IF ~IsAnswer(b, id, op) THEN Malformed
        ELSE IF status # 0
        THEN IF payload = <<>> THEN [Malformed EXCEPT !.outcome = "ProtocolError", !.status = status]
             ELSE Malformed
        ELSE IF op = ControlOperation.GetRuntimeInfo THEN DecodeRuntimeInfo(payload)
        ELSE IF \E name \in DOMAIN ControlOperation : ControlOperation[name] = op
        THEN DecodeSnapshot(payload)
        ELSE Malformed

-----------------------------------------------------------------------------
Results == {NoResult, [status |-> 7, texts |-> <<<<>>, <<65>>, <<195, 169>>, <<>>, <<65, 66>>>>]}
           \cup {[status |-> 1, texts |-> [i \in 1..5 |-> IF i = 3 THEN t ELSE <<>>]] : t \in Texts}

(* The opacity 62 comes from a settings file written by hand or by an      *)
(* earlier version.                                                        *)
WireSettings == [startWithWindows : {1}, hudEnabled : {0}, hudSizeOffset : {-1}, hudFont : {2},
             visibilityMode : {1}, alignment : {3}, backgroundMode : {2},
             backgroundOpacityPercent : {62, 70}, intelVrrRangeFixEnabled : {1}, result : Results]

Nothing == [operation |-> 0, id |-> 0, status |-> 0, info |-> NoInfo, snapshot |-> settings]

WireInit ==
    /\ phase = "request"
    /\ asked \in Requests
    /\ settings \in WireSettings
    /\ frame = EncodeRequest(asked)
    /\ did = Nothing
    /\ altered = "no"

(* A byte of the frame is another, or the frame is longer or shorter.      *)
Alter ==
    /\ altered = "no" /\ frame # <<>>
    /\ settings.backgroundOpacityPercent = 70
    /\ altered' = phase
    /\ \/ \E i \in DOMAIN frame, b \in Damages : frame' = [frame EXCEPT ![i] = b]
       \/ frame' = SubSeq(frame, 1, Len(frame) - 1)
       \/ frame' = Append(frame, 0)
    /\ frame' # frame
    /\ UNCHANGED <<phase, asked, settings, did>>

(* RuntimeControlPipeServer::ServeClient: a frame that cannot be answered  *)
(* ends the connection; an error is answered with the identity it has.     *)
HandleFrame ==
    LET d == DecodeControlRequest(frame)
    IN  /\ phase = "request"
        /\ IF d.error # Status.Ok
           THEN /\ did' = IF d.identity = NoIdentity THEN Nothing
                          ELSE StatusResponse(d.identity, d.error)
                /\ UNCHANGED settings
           ELSE ExecuteControlResponse(d.identity, d.value)
        /\ phase' = "response"
        /\ frame' = IF did'.id = 0 THEN <<>> ELSE EncodeControlResponse(did')
        /\ UNCHANGED <<asked, altered>>

WireNext == Alter \/ HandleFrame

WireSpec == WireInit /\ [][WireNext]_wireVars

(***************************************************************************)
(* Properties.                                                             *)
(***************************************************************************)

AnsweredIntact == phase = "response" /\ altered # "response" /\ did.id # 0 /\ did.operation # 20

(* The two programs understand one another: an answer of the runtime,      *)
(* errors included, is never malformed for the front end that knows its    *)
(* operation and number; it gets the status that was meant, and as         *)
(* snapshot the settings the runtime has.                                  *)
AnswerIsUnderstood ==
    LET understood(c) ==
            /\ c.outcome = (IF did.status = 0 THEN "Ok" ELSE "ProtocolError")
            /\ c.status = did.status
            /\ did.status = 0 => IF did.operation = 1 THEN c.info = RuntimeInfo
                                 ELSE c.snapshot = <<settings>>
    IN  AnsweredIntact => understood(DecodeResponse(frame, did.id, did.operation))

(* The setting the front end means by a request.                           *)
Meant(name) ==
    CASE name = "SetStartWithWindows" -> {"startWithWindows"}
      [] name = "SetHudEnabled" -> {"hudEnabled"}
      [] name = "SetHudVisibilityMode" -> {"visibilityMode"}
      [] name = "SetHudSizeOffset" -> {"hudSizeOffset"}
      [] name = "SetHudFont" -> {"hudFont"}
      [] name = "SetHudAlignment" -> {"alignment"}
      [] name = "SetHudBackgroundMode" -> {"backgroundMode"}
      [] name = "SetIntelVrrRangeFixEnabled" -> {"intelVrrRangeFixEnabled"}
      [] name \in {"PreviewHudOpacity", "CommitHudOpacity"} -> {"backgroundOpacityPercent"}
      [] OTHER -> {}

TakesEffect ==
    /\ did'.status \in {Status.Ok, Status.OperationFailed}
    /\ [operation |-> did'.operation, id |-> did'.id] =
           [operation |-> ControlOperation[asked.name], id |-> asked.id]
    /\ settings' \in {settings} \cup
                     {[settings EXCEPT ![f] = asked.value] : f \in Meant(asked.name)}

(* An intact request takes effect on the setting the front end means, with *)
(* its value, and on nothing else.                                         *)
EffectIsAsAsked ==
    [][phase' = "response" /\ altered = "no" => TakesEffect]_wireVars

(* Neither side accepts a frame that is not, byte for byte, the frame of   *)
(* the message it takes it for: nothing is ignored, cut off or repaired.   *)
OnlyExactFrames ==
    LET op == ControlOperation[asked.name]
        requestIsExact(d) ==
            d.error = Status.Ok =>
                frame = EncodeControlRequest(d.identity.operation, d.identity.id, d.value)
        responseIsExact(c) ==
            c.outcome # "Malformed" =>
                frame = EncodeControlResponse(
                    [operation |-> op, id |-> asked.id, status |-> c.status, info |-> c.info,
                     snapshot |-> IF c.snapshot = <<>> THEN settings ELSE c.snapshot[1]])
    IN  /\ phase = "request" => requestIsExact(DecodeControlRequest(frame))
        /\ phase = "response" => responseIsExact(DecodeResponse(frame, asked.id, op))

\* The two implementations of the codec agree: what one encodes the other reads
\* as it was meant, and nothing that is not an exact frame is accepted.
WireIsFaithful == AnswerIsUnderstood /\ OnlyExactFrames
=============================================================================
