------------------------- MODULE TemperatureCamera -------------------------
(***************************************************************************)
(* modules/temperature_service and the thermal camera of Hikvision that it  *)
(* opens: a thread tries until the camera is open and starts another one,   *)
(* which captures pictures; a thread of the SDK calls back with measured    *)
(* temperatures, five values which are stored one by one and loaded one by  *)
(* one into the image.  There is one image for all pictures, each signal    *)
(* holds a pointer to it, and nothing locks it: a slot reads while the next *)
(* picture is written.                                                      *)
(*                                                                          *)
(* start() and stop() run on the module's thread, and so do the slots of    *)
(* the signal, which are not in the sources: they read each part once or    *)
(* more.  Assumed of the SDK: no callback is running once StopRemoteConfig  *)
(* has returned, and nothing of a user remains after Cleanup.               *)
(***************************************************************************)
EXTENDS Integers, Sequences

CONSTANTS Count,      \* measured values
          MaxStarts, MaxLogins, MaxMeasured, MaxPictures    \* bounds

TemperatureAssumption == /\ Count \in Nat \ {0}
                         /\ {MaxStarts, MaxLogins, MaxMeasured, MaxPictures} \subseteq Nat

VARIABLES irtype,       \* 0 when the configuration wants measurements
          main,         \* "idle", "read" in a slot, or what start() or stop() does next
          starts,
          m_startFlag,  \* of the service
          connector,    \* its thread: "none", "loop", "login", "config" or "grab"
          m_initFlag,
          opened,       \* m_startFlag of the camera
          m_captureFlag,
          capturer,     \* its thread: "none", "loop", "load", "emit" or the part it writes
          loading,      \* the value to be loaded
          sdk,          \* [up, users, remote]: as the SDK knows, users as they were counted
          m_lUserID,
          refused,      \* thermometry was refused
          measured,     \* value -> the measurement it is of
          storing,      \* the value to be stored, or 0
          buffer,       \* of the image: the measurement each value is of
          parts,        \* of the image: the pictures that what is in each part is of
          captured,     \* pictures
          posted,       \* signals on the way, with the picture that each was for
          connections,
          seen          \* what the last slot was told of, and what it has read

threadVars  == <<irtype, main, starts, m_startFlag, connector>>
openVars    == <<m_initFlag, opened, sdk, m_lUserID, refused>>
measureVars == <<measured, storing>>
imageVars   == <<m_captureFlag, capturer, loading, buffer, parts, captured>>
signalVars  == <<posted, connections, seen>>
temperatureVars == <<threadVars, openVars, measureVars, imageVars, signalVars>>

\* Numbers of the measured values, in the order they are stored.
ValueNumbers == 1..Count

\* The width and height; the length and bytes of the picture; the temperature of
\* each point; and the measured values.
CopiedParts == {"numbers", "jpeg", "temps"}
Parts       == CopiedParts \cup {"values"}

NoMeasure == [v \in ValueNumbers |-> 0]

Init == /\ irtype \in {0, 1}
        /\ main = "idle" /\ starts = 0 /\ m_startFlag = FALSE /\ connector = "none"
        /\ m_initFlag = FALSE /\ opened = FALSE /\ m_lUserID = 0 /\ refused = FALSE
        /\ sdk = [up |-> FALSE, users |-> {}, remote |-> FALSE]
        /\ measured = NoMeasure /\ storing = 0
        /\ m_captureFlag = FALSE /\ capturer = "none" /\ loading = 1 /\ captured = 0
        /\ buffer = NoMeasure /\ parts = [p \in Parts |-> {0}]
        /\ posted = <<>> /\ connections = 0 /\ seen = [for |-> 0, parts |-> [p \in Parts |-> {0}]]

-----------------------------------------------------------------------------
(* The service. The image is connected after the thread was started, again  *)
(* with each start.                                                         *)

Start == /\ main = "idle" /\ ~m_startFlag /\ starts < MaxStarts
         /\ m_startFlag' = TRUE /\ connector' = "loop" /\ main' = "connect" /\ starts' = starts + 1
         /\ UNCHANGED <<irtype, openVars, measureVars, imageVars, signalVars>>

Connect == /\ main = "connect" /\ main' = "idle" /\ connections' = connections + 1
           /\ UNCHANGED <<irtype, starts, m_startFlag, connector, openVars, measureVars, imageVars, posted, seen>>

Stop == /\ main = "idle" /\ starts > 0 /\ m_startFlag' = FALSE /\ main' = "join"
        /\ UNCHANGED <<irtype, starts, connector, openVars, measureVars, imageVars, signalVars>>

\* Mutant of ConnectorEnded: the thread is not joined.
ConnectorLeft == main = "join"

ConnectorEnded == main = "join" /\ connector = "none"

JoinConnector == /\ ConnectorEnded /\ main' = "stopGrab"
                 /\ UNCHANGED <<irtype, starts, m_startFlag, connector, openVars, measureVars, imageVars, signalVars>>

StopGrab == /\ main = "stopGrab" /\ m_captureFlag' = FALSE /\ main' = "joinCapture"
            /\ UNCHANGED <<irtype, starts, m_startFlag, connector, openVars, measureVars, capturer, loading,
                           buffer, parts, captured, signalVars>>

JoinCapture == /\ main = "joinCapture" /\ capturer = "none" /\ main' = "close"
               /\ UNCHANGED <<irtype, starts, m_startFlag, connector, openVars, measureVars, imageVars, signalVars>>

\* The SDK is left, and m_initFlag still says that it was entered.
CloseCamera == /\ main = "close" /\ main' = "idle" /\ opened' = FALSE
               /\ opened => storing = 0
               /\ sdk' = IF opened THEN [up |-> FALSE, users |-> {}, remote |-> FALSE] ELSE sdk
               /\ UNCHANGED <<irtype, starts, m_startFlag, connector, m_initFlag, m_lUserID, refused,
                              measureVars, imageVars, signalVars>>

-----------------------------------------------------------------------------
(* The thread that opens the camera, which tries again whatever has failed. *)

Connector(from, to) == /\ connector = from /\ connector' = to
                       /\ UNCHANGED <<irtype, main, starts, m_startFlag, measureVars, signalVars>>

ConnectorEnds == /\ Connector("loop", "none") /\ ~m_startFlag
                 /\ UNCHANGED <<openVars, imageVars>>

\* An init() that fails is tried again, as if nothing had happened.
Enter == /\ Connector("loop", "login") /\ m_startFlag
         /\ m_initFlag' = TRUE
         /\ sdk' = IF m_initFlag THEN sdk ELSE [sdk EXCEPT !.up = TRUE]
         /\ UNCHANGED <<opened, m_lUserID, refused, imageVars>>

\* NET_DVR_Login_V40 gives an id; it fails on an SDK that was left.
Login == /\ Connector("login", "config") /\ sdk.up /\ m_lUserID < MaxLogins
         /\ m_lUserID' = m_lUserID + 1 /\ sdk' = [sdk EXCEPT !.users = @ \cup {m_lUserID'}]
         /\ UNCHANGED <<m_initFlag, opened, refused, imageVars>>

LoginFails == /\ Connector("login", "loop") /\ UNCHANGED <<openVars, imageVars>>

\* The user stays logged in when thermometry is refused.
GetTemperatureByCallback ==
  /\ irtype = 0
  /\ \/ /\ Connector("config", "grab") /\ sdk' = [sdk EXCEPT !.remote = TRUE] /\ opened' = TRUE
        /\ UNCHANGED <<m_initFlag, m_lUserID, refused, imageVars>>
     \/ /\ Connector("config", "loop") /\ refused' = TRUE
        /\ UNCHANGED <<m_initFlag, opened, sdk, m_lUserID, imageVars>>

NoThermometry == /\ irtype # 0 /\ Connector("config", "grab") /\ opened' = TRUE
                 /\ UNCHANGED <<m_initFlag, sdk, m_lUserID, refused, imageVars>>

StartGrab == /\ Connector("grab", "none") /\ m_captureFlag' = TRUE /\ capturer' = "loop"
             /\ UNCHANGED <<openVars, loading, buffer, parts, captured>>

-----------------------------------------------------------------------------
(* The callback with measured values.                                       *)

HandleCallbackData ==
  /\ IF storing = 0 THEN sdk.remote /\ measured[1] < MaxMeasured ELSE TRUE
  /\ LET v == IF storing = 0 THEN 1 ELSE storing
     IN /\ measured' = [measured EXCEPT ![v] = IF v = 1 THEN @ + 1 ELSE measured[1]]
        /\ storing' = IF v + 1 \in ValueNumbers THEN v + 1 ELSE 0
  /\ UNCHANGED <<threadVars, openVars, imageVars, signalVars>>

-----------------------------------------------------------------------------
(* The thread that captures.                                                *)

Capturer(from, to) == /\ capturer = from /\ capturer' = to
                      /\ UNCHANGED <<threadVars, openVars, measureVars, m_captureFlag>>

CapturerEnds == Capturer("loop", "none") /\ ~m_captureFlag
                /\ UNCHANGED <<loading, buffer, parts, captured, signalVars>>

Capture == /\ Capturer("loop", "numbers") /\ m_captureFlag /\ captured < MaxPictures
           /\ captured' = captured + 1 /\ UNCHANGED <<loading, buffer, parts, signalVars>>

\* A part is written word by word: until it is whole it is of both pictures.
BeginPart(p) == /\ Capturer(p, p) /\ captured \notin parts[p]
                /\ parts' = [parts EXCEPT ![p] = @ \cup {captured}]
                /\ UNCHANGED <<loading, buffer, captured, signalVars>>

\* Mutant of After: the signal is emitted before the temperatures are copied.
AfterEarly == [numbers |-> "load", jpeg |-> "emit", temps |-> "emit"]

After == [numbers |-> "load", jpeg |-> "temps", temps |-> "emit"]

EndPart(p) == /\ Capturer(p, After[p]) /\ captured \in parts[p]
              /\ parts' = [parts EXCEPT ![p] = {captured}]
              /\ UNCHANGED <<loading, buffer, captured, signalVars>>

\* Mutant of Loaded: the values are loaded in the other order.
LoadedBackwards == Count + 1 - loading

Loaded == loading

Load == /\ capturer = "load"
        /\ buffer' = [buffer EXCEPT ![Loaded] = measured[Loaded]]
        /\ IF loading + 1 \in ValueNumbers
           THEN /\ Capturer("load", "load") /\ loading' = loading + 1
                /\ parts' = [parts EXCEPT !["values"] = @ \cup {captured}]
           ELSE /\ Capturer("load", "jpeg") /\ loading' = 1
                /\ parts' = [parts EXCEPT !["values"] = {captured}]
        /\ UNCHANGED <<captured, signalVars>>

Emit == /\ Capturer("emit", "loop")
        /\ posted' = posted \o [c \in 1..connections |-> captured]
        /\ UNCHANGED <<loading, buffer, parts, captured, connections, seen>>

-----------------------------------------------------------------------------
(* A slot.                                                                  *)

IRImageReady == /\ main = "idle" /\ posted # <<>> /\ posted' = Tail(posted) /\ main' = "read"
                /\ seen' = [for |-> Head(posted), parts |-> [p \in Parts |-> {}]]
                /\ UNCHANGED <<irtype, starts, m_startFlag, connector, openVars, measureVars, imageVars, connections>>

ReadPart(p) == /\ main = "read"
               /\ seen' = [seen EXCEPT !.parts[p] = @ \cup parts[p]]
               /\ UNCHANGED <<threadVars, openVars, measureVars, imageVars, posted, connections>>

SlotEnds == /\ main = "read" /\ main' = "idle" /\ \A p \in Parts : seen.parts[p] # {}
            /\ UNCHANGED <<irtype, starts, m_startFlag, connector, openVars, measureVars, imageVars, signalVars>>

Service   == Start \/ Connect \/ Stop \/ JoinConnector \/ StopGrab \/ JoinCapture \/ CloseCamera
Opening   == \/ ConnectorEnds \/ Enter \/ Login \/ LoginFails \/ GetTemperatureByCallback
             \/ NoThermometry \/ StartGrab
Capturing == \/ CapturerEnds \/ Capture \/ Load \/ Emit
             \/ \E p \in CopiedParts : BeginPart(p) \/ EndPart(p)
Slot      == IRImageReady \/ (\E p \in Parts : ReadPart(p)) \/ SlotEnds

Next == Service \/ Opening \/ HandleCallbackData \/ Capturing \/ Slot

Spec == Init /\ [][Next]_temperatureVars

-----------------------------------------------------------------------------
\* The values of an image may be of several measurements, but none is older by more
\* than one than any that is loaded before it (HikTemperatureCamera.cpp:168, :421).
ValuesNearlyOfOneTime ==
  capturer \in {"jpeg", "temps", "emit"} =>
     \A v, w \in ValueNumbers : v < w => buffer[w] >= buffer[v] - 1

\* Nothing that a slot reads is older than the picture it was told of, so that it has
\* the whole of it unless a later one was begun before it ended: then what it reads
\* may be of several, and a part torn, as the parts are written one by one and without
\* a lock (HikTemperatureCamera.cpp:419-430).
PictureAsTold == \A p \in Parts : seen.parts[p] \subseteq seen.for..captured

\* stop() leaves no thread and nobody logged in, but for users whom thermometry was
\* refused to before the camera could be opened (HikTemperatureCamera.cpp:84, :142).
StopClosesAll == main = "idle" /\ ~m_startFlag =>
                   /\ connector = "none" /\ capturer = "none" /\ ~opened
                   /\ sdk.users # {} => refused
=============================================================================
