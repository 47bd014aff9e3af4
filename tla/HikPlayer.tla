----------------------------- MODULE HikPlayer -----------------------------
(***************************************************************************)
(* The cameras of Hikvision: CameraHik, which CameraUser makes, starts and  *)
(* destroys, and HikCamera, which HikManager starts and closes.  Threads of *)
(* the SDK call back with the data of a camera, and give it to a decoder    *)
(* (PlayM4) whose thread calls back with images.  A decoder has a port, a   *)
(* number that goes round; bInit, static in the callback, says for all      *)
(* cameras that there is a decoder.                                         *)
(*                                                                          *)
(* The image of a decoder goes to one camera of the class: to g_pUser, that *)
(* of the last data (CameraHik), or to g_mapPortUser of the port.  The      *)
(* members of HikBase that HikCamera declares again have no first value.    *)
(*                                                                          *)
(* Assumed of the SDK: StopRealPlay and Logout fail only on what is not     *)
(* running, and no data comes once StopRealPlay has returned.               *)
(***************************************************************************)
EXTENDS Integers, Sequences, FiniteSets

CONSTANTS Players,   \* cameras of the configuration
          NoPlayer,
          Ports      \* bound: numbers of ports

PlayerAssumption == NoPlayer \notin Players /\ Ports \subseteq Nat

VARIABLES kind,      \* "CameraHik" or "HikCamera"
          life,      \* "new", "opening", "live", "failed", "closed" or "gone"
          calls,     \* what the main thread is to do for the camera in work
          inWork,
          ending,    \* stop() has come
          m_lUserID, m_lRealPlayHandle, m_lPort,
          logged,    \* user ids of the SDK
          playing,   \* handle -> the camera whose data come
          taken,     \* ports of PlayM4
          decoders,  \* of which with a stream
          fed,       \* port -> the data not decoded yet
          callback,  \* cameras whose callback has opened a stream and is not done
          bInit, g_pUser, g_mapPortUser,
          image,     \* the latest image delivered
          had,       \* port -> cameras that have had its number
          opened     \* camera -> the port it has opened a stream on, or -1

mainVars   == <<life, calls, inWork, ending>>
memberVars == <<m_lUserID, m_lRealPlayHandle, m_lPort>>
sdkVars    == <<logged, playing>>
playVars   == <<taken, decoders, fed>>
staticVars == <<callback, bInit, g_pUser, g_mapPortUser>>
playerVars == <<kind, mainVars, memberVars, sdkVars, playVars, staticVars, image, had, opened>>

Ids     == 0..Cardinality(Players) - 1
NoImage == [shown |-> NoPlayer, told |-> NoPlayer, others |-> FALSE, port |-> -1]
NoData  == [shown |-> NoPlayer, others |-> FALSE]

Init == /\ kind \in {"CameraHik", "HikCamera"}
        /\ life = [c \in Players |-> "new"] /\ calls = <<>> /\ inWork = NoPlayer /\ ending = FALSE
        /\ LET Uninitialised == IF kind = "HikCamera" THEN {-1, 0} ELSE {-1}
           IN /\ m_lUserID \in [Players -> Uninitialised]
              /\ m_lRealPlayHandle \in [Players -> Uninitialised]
              /\ m_lPort \in [Players -> Uninitialised]
        /\ logged = {} /\ playing = [h \in Ids |-> NoPlayer]
        /\ taken = {} /\ decoders = {} /\ fed = [p \in Ports |-> NoData]
        /\ callback = {} /\ bInit = FALSE /\ g_pUser = NoPlayer
        /\ g_mapPortUser = [p \in Ports |-> NoPlayer]
        /\ image = NoImage
        /\ had = [p \in Ports |-> {c \in Players : m_lPort[c] = p}]
        /\ opened = [c \in Players |-> -1]

-----------------------------------------------------------------------------
(* The main thread: calls for one camera after the other.                   *)

\* stopGrab and closeCamera; calls in a row whose guards are those of Call below.
StopGrab       == <<"StopRealPlay", "FreePort">>
CloseCamera(c) == (IF m_lUserID[c] >= 0 THEN StopGrab \o <<"Logout">> ELSE <<>>)
                    \o <<"CloseStream", "FreePort">>

Begin(c, todo) == /\ inWork = NoPlayer /\ inWork' = c /\ calls' = todo
                  /\ UNCHANGED <<kind, memberVars, sdkVars, playVars, staticVars, image, had, opened>>

\* CameraHik gets a port in startGrab, HikCamera in init: both after the login.
Open(c) == /\ ~ending /\ life[c] = "new"
           /\ kind = "CameraHik" => \A d \in Players : life[d] # "failed"
           /\ Begin(c, <<"Login", "GetPort", "RealPlay">>)
           /\ life' = [life EXCEPT ![c] = "opening"]
           /\ UNCHANGED ending

\* CameraUser lets go of a camera that does not start, also for want of a
\* recorder after its data come (CameraCtrl.cpp:92-100), and of all in stop().
Destroy(c) ==
  /\ kind = "CameraHik" /\ life[c] \in {"live", "failed"} /\ (ending \/ life[c] = "failed")
  /\ Begin(c, StopGrab \o CloseCamera(c))
  /\ life' = [life EXCEPT ![c] = "closed"]
  /\ UNCHANGED ending

\* HikManager keeps all its cameras and closes them in stop().
Close(c) == /\ kind = "HikCamera" /\ ending /\ life[c] # "closed"
            /\ Begin(c, CloseCamera(c))
            /\ life' = [life EXCEPT ![c] = "closed"]
            /\ UNCHANGED ending

Stop == /\ inWork = NoPlayer /\ ~ending /\ ending' = TRUE
        /\ \A c \in Players : life[c] \notin {"new", "opening"}
        /\ UNCHANGED <<kind, life, calls, inWork, memberVars, sdkVars, playVars, staticVars, image, had, opened>>

\* The camera in work makes a call and leaves it and the next n - 1.
Call(name, n) == /\ calls # <<>> /\ Head(calls) = name
                 /\ calls' = SubSeq(calls, n + 1, Len(calls))
                 /\ UNCHANGED <<kind, ending, image, opened>>

\* The start ends here.
Fails(c) == /\ life' = [life EXCEPT ![c] = "failed"] /\ calls' = <<>>

\* "Camera already connected!": what m_lUserID holds is no user.
AlreadyConnected ==
  /\ calls # <<>> /\ Head(calls) = "Login" /\ m_lUserID[inWork] >= 0 /\ Fails(inWork)
  /\ UNCHANGED <<kind, inWork, ending, memberVars, sdkVars, playVars, staticVars, image, had, opened>>

Login == /\ m_lUserID[inWork] < 0 /\ Call("Login", 1)
         /\ LET id == CHOOSE i \in Ids : i \notin logged
            IN /\ m_lUserID' = [m_lUserID EXCEPT ![inWork] = id]
               /\ logged' = logged \cup {id}
         /\ UNCHANGED <<life, inWork, m_lRealPlayHandle, m_lPort, playing, playVars, staticVars, had>>

LoginFails ==
  /\ calls # <<>> /\ Head(calls) = "Login" /\ m_lUserID[inWork] < 0 /\ Fails(inWork)
  /\ m_lUserID' = [m_lUserID EXCEPT ![inWork] = -1]
  /\ UNCHANGED <<kind, inWork, ending, m_lRealPlayHandle, m_lPort, sdkVars, playVars, staticVars, image, had, opened>>

TakePort(c, p) == /\ p \notin taken /\ \A q \in Ports \ taken : p <= q
                  /\ taken' = taken \cup {p}
                  /\ m_lPort' = [m_lPort EXCEPT ![c] = p]
                  /\ had' = [had EXCEPT ![p] = @ \cup {c}]

GetPort == /\ Call("GetPort", 1)
           /\ \E p \in Ports : TakePort(inWork, p)
           /\ UNCHANGED <<life, inWork, m_lUserID, m_lRealPlayHandle, sdkVars, decoders, fed, staticVars>>

\* No port: the start goes on with the number that is there.
GetPortFails ==
  /\ Call("GetPort", 1)
  /\ UNCHANGED <<life, inWork, memberVars, sdkVars, playVars, staticVars, had>>

RealPlay == /\ Call("RealPlay", 1)
            /\ LET h == CHOOSE i \in Ids : playing[i] = NoPlayer
               IN /\ m_lRealPlayHandle' = [m_lRealPlayHandle EXCEPT ![inWork] = h]
                  /\ playing' = [playing EXCEPT ![h] = inWork]
            /\ life' = [life EXCEPT ![inWork] = "live"]
            /\ UNCHANGED <<inWork, m_lUserID, m_lPort, logged, playVars, staticVars, had>>

RealPlayFails ==
  /\ calls # <<>> /\ Head(calls) = "RealPlay" /\ Fails(inWork)
  /\ m_lRealPlayHandle' = [m_lRealPlayHandle EXCEPT ![inWork] = -1]
  /\ UNCHANGED <<kind, inWork, ending, m_lUserID, m_lPort, sdkVars, playVars, staticVars, image, had, opened>>

\* initSaveVideo fails, after the data come.
NoRecorder == /\ kind = "CameraHik" /\ life[inWork] = "live" /\ calls = <<>>
              /\ Fails(inWork)
              /\ UNCHANGED <<kind, inWork, ending, memberVars, sdkVars, playVars, staticVars, image, had, opened>>

\* It waits for a callback that has begun.
StopRealPlay ==
  LET h == m_lRealPlayHandle[inWork]
  IN /\ h >= 0 /\ playing[h] # NoPlayer /\ playing[h] \notin callback
     /\ Call("StopRealPlay", 1)
     /\ playing' = [playing EXCEPT ![h] = NoPlayer]
     /\ m_lRealPlayHandle' = [m_lRealPlayHandle EXCEPT ![inWork] = -1]
     /\ UNCHANGED <<life, inWork, m_lUserID, m_lPort, logged, playVars, staticVars, had>>

\* Nothing to stop: the port is freed all the same.
NotPlaying == /\ m_lRealPlayHandle[inWork] < 0 /\ Call("StopRealPlay", 1)
              /\ UNCHANGED <<life, inWork, memberVars, sdkVars, playVars, staticVars, had>>

\* Nothing runs under the handle: stopGrab returns before it frees the port.
StopRealPlayFails ==
  /\ m_lRealPlayHandle[inWork] >= 0
  /\ playing[m_lRealPlayHandle[inWork]] = NoPlayer
  /\ Call("StopRealPlay", 2)
  /\ UNCHANGED <<life, inWork, memberVars, sdkVars, playVars, staticVars, had>>

\* The number stays in m_lPort, and is freed again; a port with a stream may
\* be refused.
FreePort == /\ Call("FreePort", 1)
            /\ LET p == m_lPort[inWork]
               IN \/ /\ taken' = taken \ {p} /\ decoders' = decoders \ {p}
                     /\ fed' = [q \in Ports |-> IF q = p THEN NoData ELSE fed[q]]
                  \/ p \in decoders /\ UNCHANGED playVars
            /\ UNCHANGED <<life, inWork, memberVars, sdkVars, staticVars, had>>

CloseStream == /\ Call("CloseStream", 1)
               /\ decoders' = decoders \ {m_lPort[inWork]}
               /\ fed' = [q \in Ports |-> IF q = m_lPort[inWork] THEN NoData ELSE fed[q]]
               /\ UNCHANGED <<life, inWork, memberVars, sdkVars, taken, staticVars, had>>

Logout == /\ m_lUserID[inWork] \in logged /\ Call("Logout", 1)
          /\ logged' = logged \ {m_lUserID[inWork]}
          /\ m_lUserID' = [m_lUserID EXCEPT ![inWork] = -1]
          /\ UNCHANGED <<life, inWork, m_lRealPlayHandle, m_lPort, playing, playVars, staticVars, had>>

\* closeCamera returns: the stream stays open.
LogoutFails == /\ m_lUserID[inWork] \notin logged /\ Call("Logout", 3)
               /\ UNCHANGED <<life, inWork, memberVars, sdkVars, playVars, staticVars, had>>

Done == /\ calls = <<>> /\ inWork' = NoPlayer
        /\ UNCHANGED <<kind, life, calls, ending, memberVars, sdkVars, playVars, staticVars, image, had, opened>>

-----------------------------------------------------------------------------
(* RealDataCallBack, on a thread of the SDK.                                *)

Plays(c) == \E h \in Ids : playing[h] = c

\* Mutant of Called: images go to the camera whose data came first.
CalledFirst(c) == /\ Plays(c) /\ c \notin callback
                  /\ g_pUser' = IF g_pUser = NoPlayer THEN c ELSE g_pUser
                  /\ g_mapPortUser' = g_mapPortUser
                  /\ UNCHANGED <<kind, mainVars, m_lUserID, m_lRealPlayHandle, sdkVars, image>>

\* Every data of a camera: it is the one that images go to, and what others
\* have fed is late.
Called(c) == /\ Plays(c) /\ c \notin callback
             /\ g_pUser' = c
             /\ g_mapPortUser' = IF bInit /\ m_lPort[c] \in Ports
                                 THEN [g_mapPortUser EXCEPT ![m_lPort[c]] = c]
                                 ELSE g_mapPortUser
             /\ UNCHANGED <<kind, mainVars, m_lUserID, m_lRealPlayHandle, sdkVars, image>>

Overtaken(c) == [p \in Ports |-> IF fed[p] = NoData THEN NoData
                                 ELSE [fed[p] EXCEPT !.others = @ \/ fed[p].shown # c]]

\* The head of a stream: a second port is got, the first is never freed.  The
\* stream may be refused.
Head1(c) == /\ ~bInit /\ Called(c)
            /\ \E p \in Ports : TakePort(c, p)
            /\ \/ /\ decoders' = decoders \cup {m_lPort'[c]} /\ callback' = callback \cup {c}
                  /\ opened' = [opened EXCEPT ![c] = m_lPort'[c]]
               \/ UNCHANGED <<decoders, callback, opened>>
            /\ fed' = Overtaken(c)
            /\ UNCHANGED bInit

\* PlayM4_Play, bInit = true.  Another camera may have come as far.
Head2(c) == /\ c \in callback /\ callback' = callback \ {c} /\ bInit' = TRUE
            /\ UNCHANGED <<kind, mainVars, memberVars, sdkVars, playVars, g_pUser, g_mapPortUser, image, had, opened>>

\* Data that no decoder takes: before bInit, on a port without a stream, or a
\* head when there is a decoder.
DataLost(c) == /\ Called(c) /\ fed' = Overtaken(c)
               /\ UNCHANGED <<m_lPort, taken, decoders, callback, bInit, had, opened>>

\* PlayM4_InputData; the decoder's buffer is one frame here.
InputData(c) == /\ bInit /\ Called(c)
                /\ m_lPort[c] \in decoders /\ fed[m_lPort[c]] = NoData
                /\ fed' = [Overtaken(c) EXCEPT ![m_lPort[c]] = [shown |-> c, others |-> FALSE]]
                /\ UNCHANGED <<m_lPort, taken, decoders, callback, bInit, had, opened>>

\* DecCBFun, on a thread of the decoder; nobody yet: the image is lost.
Decode(p) == /\ p \in decoders /\ fed[p] # NoData
             /\ fed' = [fed EXCEPT ![p] = NoData]
             /\ LET to == IF kind = "CameraHik" THEN g_pUser ELSE g_mapPortUser[p]
                IN image' = IF to = NoPlayer THEN image
                            ELSE [shown |-> fed[p].shown, told |-> to,
                                  others |-> fed[p].others, port |-> p]
             /\ UNCHANGED <<kind, mainVars, memberVars, sdkVars, taken, decoders, staticVars, had, opened>>

MainCall == /\ inWork # NoPlayer
            /\ \/ AlreadyConnected \/ Login \/ LoginFails \/ GetPort \/ GetPortFails
               \/ RealPlay \/ RealPlayFails \/ NoRecorder
               \/ StopRealPlay \/ NotPlaying \/ StopRealPlayFails \/ FreePort
               \/ CloseStream \/ Logout \/ LogoutFails \/ Done

Next == \/ Stop \/ MainCall
        \/ \E c \in Players : \/ Open(c) \/ Destroy(c) \/ Close(c)
                              \/ Head1(c) \/ Head2(c) \/ DataLost(c) \/ InputData(c)
        \/ \E p \in Ports : Decode(p)

Spec == Init /\ [][Next]_playerVars

-----------------------------------------------------------------------------
\* An image is delivered under the name of the camera it shows, unless another
\* camera's data came since it was taken (CameraHik.cpp:251) or, of HikCamera,
\* another camera has had the number of its port (HikCamera.cpp:183).
ImageOfItsCamera ==
  \/ image.told = image.shown
  \/ kind = "CameraHik" /\ image.others
  \/ kind = "HikCamera" /\ had[image.port] # {image.shown}

\* While cameras start and fail, the decoder of one that runs is closed only if
\* another one has had the number of its port, and frees it again
\* (CameraHik.cpp:91, :100, :162).
DecodersStay ==
  \A c \in Players : ~ending /\ life[c] = "live" /\ opened[c] # -1 =>
     opened[c] \in decoders \/ had[opened[c]] # {c}
=============================================================================
