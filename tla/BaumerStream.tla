---------------------------- MODULE BaumerStream ----------------------------
(***************************************************************************)
(* A camera of kits/camera/baumer from the search that finds it to its end: *)
(* the stream with its buffers, which the driver fills and the handler      *)
(* queues again, the pool of images, the name that BaumerManager gives it   *)
(* once it runs, and what is closed when a step throws.                     *)
(*                                                                          *)
(* The search, the starter and the driver run on threads of their own; who  *)
(* removes a camera while the starter names it is in CameraManager.  What   *)
(* the driver does is a choice of outcomes; its StopAcquisition and Close   *)
(* wait for the handler if they do not throw.                               *)
(***************************************************************************)
EXTENDS Integers

CONSTANT Buffers    \* 5, or 10 of a BaumerArc

StreamAssumption == Buffers \in Nat \ {0}

VARIABLES at,            \* of the search: "search", "device", "stream", "acquire", "success",
                         \* "pool", "map", "failed", "stopped", "revoked"
          deviceOpen, streamOpen,     \* as the driver knows them
          m_pDevice, m_pStream,       \* that they are not null
          acquiring,
          queued, busy, lost,         \* buffers
          m_ImageBufferPools, m_name, connections,
          owner,         \* the camera that the handler is registered with exists
          starter,       \* "wait", "connect" or "ended"
          unheard,       \* an image was sent that nobody receives
          failed,        \* what has not worked
          crashed        \* what was used that is not there, or ""

streamVars == <<at, deviceOpen, streamOpen, m_pDevice, m_pStream, acquiring, queued, busy, lost,
                m_ImageBufferPools, m_name, connections, owner, starter, unheard, failed, crashed>>
driverVars == <<deviceOpen, streamOpen, acquiring>>
bufferVars == <<queued, busy, lost>>
cameraVars == <<m_ImageBufferPools, m_name, connections, owner>>
otherVars  == <<starter, unheard>>

Init == /\ at = "search" /\ deviceOpen = FALSE /\ streamOpen = FALSE
        /\ m_pDevice = FALSE /\ m_pStream = FALSE /\ acquiring = FALSE
        /\ queued = 0 /\ busy = 0 /\ lost = 0
        /\ m_ImageBufferPools = FALSE /\ m_name = FALSE /\ connections = 0 /\ owner = FALSE
        /\ starter = "wait" /\ unheard = FALSE /\ failed = {} /\ crashed = ""

Go(from, to) == crashed = "" /\ at = from /\ at' = to

-----------------------------------------------------------------------------
(* The search. A device that is open is not free, and is passed over.       *)

OpenDevice == /\ Go("search", "device") /\ ~deviceOpen
              /\ deviceOpen' = TRUE /\ m_pDevice' = TRUE
              /\ UNCHANGED <<streamOpen, acquiring, m_pStream, bufferVars, cameraVars, otherVars, failed, crashed>>

NoStream == /\ Go("device", "failed") /\ failed' = failed \cup {"stream"}
            /\ UNCHANGED <<driverVars, m_pDevice, m_pStream, bufferVars, cameraVars, otherVars, crashed>>

\* A stream that a close has left open is taken, and not started.
AlreadyOpen == /\ Go("device", "failed") /\ streamOpen /\ m_pStream' = TRUE
               /\ UNCHANGED <<driverVars, m_pDevice, bufferVars, cameraVars, otherVars, failed, crashed>>

OpenStream == /\ Go("device", "stream") /\ ~streamOpen
              /\ m_pStream' = TRUE /\ streamOpen' = TRUE /\ queued' = Buffers /\ owner' = TRUE
              /\ UNCHANGED <<deviceOpen, acquiring, m_pDevice, busy, lost, m_ImageBufferPools, m_name, connections,
                             otherVars, failed, crashed>>

StartAcquisition == /\ Go("stream", "acquire") /\ acquiring' = TRUE
                    /\ UNCHANGED <<deviceOpen, streamOpen, m_pDevice, m_pStream, bufferVars,
                                   cameraVars, otherVars, failed, crashed>>

Success == /\ Go("acquire", "success")
           /\ UNCHANGED <<driverVars, m_pDevice, m_pStream, bufferVars, cameraVars, otherVars, failed, crashed>>

\* The catch of openDataStream: the device is closed first, then the stream, and
\* either may throw, which ends the search and so the camera.
Throws ==
  /\ at \in {"device", "stream", "acquire"} /\ Go(at, "failed")
  /\ \/ /\ busy = 0 /\ deviceOpen' = FALSE /\ m_pDevice' = FALSE
        /\ streamOpen' = (streamOpen /\ ~m_pStream) /\ m_pStream' = FALSE
        /\ acquiring' = FALSE /\ UNCHANGED failed
     \/ failed' = failed \cup {"close"} /\ UNCHANGED <<driverVars, m_pDevice, m_pStream>>
     \/ /\ m_pStream /\ deviceOpen' = FALSE /\ m_pDevice' = FALSE
        /\ failed' = failed \cup {"close"} /\ UNCHANGED <<streamOpen, acquiring, m_pStream>>
  /\ UNCHANGED <<bufferVars, cameraVars, otherVars, crashed>>

MakePool == /\ Go("success", "pool") /\ m_ImageBufferPools' = TRUE
            /\ UNCHANGED <<driverVars, m_pDevice, m_pStream, bufferVars, m_name, connections, owner,
                           otherVars, failed, crashed>>

\* The camera does not tell its address: the search ends.
NoAddress == /\ Go("success", "failed")
             /\ UNCHANGED <<driverVars, m_pDevice, m_pStream, bufferVars, cameraVars, otherVars, failed, crashed>>

\* Mutant of EnterCamera: the camera is entered before it is connected.
EnterUnconnected == /\ Go("pool", "map") /\ connections' = 0
                    /\ UNCHANGED <<driverVars, m_pDevice, m_pStream, bufferVars, m_ImageBufferPools, m_name, owner,
                                   otherVars, failed, crashed>>

EnterCamera == /\ Go("pool", "map") /\ connections' = 1
               /\ UNCHANGED <<driverVars, m_pDevice, m_pStream, bufferVars, m_ImageBufferPools, m_name, owner,
                              otherVars, failed, crashed>>

-----------------------------------------------------------------------------
(* The starter looks once at the cameras that are there, names them and     *)
(* connects them again: their images come twice.                            *)

NameCamera == /\ crashed = "" /\ starter = "wait" /\ at = "map" /\ m_name' = TRUE /\ starter' = "connect"
              /\ UNCHANGED <<at, driverVars, m_pDevice, m_pStream, bufferVars, m_ImageBufferPools,
                             connections, owner, unheard, failed, crashed>>

ConnectAgain == /\ crashed = "" /\ starter = "connect" /\ starter' = "ended" /\ connections' = connections + 1
                /\ UNCHANGED <<at, driverVars, m_pDevice, m_pStream, bufferVars, m_ImageBufferPools,
                               m_name, owner, unheard, failed, crashed>>

NotThere == /\ crashed = "" /\ starter = "wait" /\ at # "map" /\ starter' = "ended"
            /\ UNCHANGED <<at, driverVars, m_pDevice, m_pStream, bufferVars, cameraVars, unheard, failed, crashed>>

-----------------------------------------------------------------------------
(* The driver's thread.                                                     *)

Handler == /\ crashed = ""
           /\ UNCHANGED <<at, driverVars, m_pDevice, m_pStream, cameraVars, starter, failed>>

\* The handler is called with a camera that may be gone.
Fill == /\ Handler /\ acquiring /\ queued > 0 /\ busy = 0 /\ busy' = 1 /\ queued' = queued - 1
        /\ crashed' = IF owner THEN "" ELSE "camera"
        /\ UNCHANGED <<lost, unheard>>

QueueBuffer == busy > 0 /\ busy' = 0 /\ queued' = queued + 1 /\ UNCHANGED lost

\* Mutant of Incomplete: a buffer that is not complete is left.
IncompleteLeft == Handler /\ busy > 0 /\ busy' = 0 /\ UNCHANGED <<queued, lost, unheard, crashed>>

Incomplete == Handler /\ QueueBuffer /\ UNCHANGED <<unheard, crashed>>

\* Without a name nothing is sent.
StoreImg == /\ Handler /\ QueueBuffer
            /\ crashed' = IF m_name /\ ~m_ImageBufferPools THEN "pool" ELSE ""
            /\ unheard' = (unheard \/ (m_name /\ connections = 0))

\* What throws in the handler of a BaumerCamera leaves the buffer out of the queue.
HandlerThrows == /\ Handler /\ busy > 0 /\ busy' = 0 /\ lost' = lost + 1
                 /\ UNCHANGED <<queued, unheard, crashed>>

-----------------------------------------------------------------------------
(* The end: of a camera that was not started, that was removed, or at stop. *)

Leaves == at = "failed" \/ (at = "map" /\ starter # "connect")

StopAcquisition ==
  /\ Leaves /\ Go(at, "stopped")
  /\ IF m_pStream
     THEN \/ busy = 0 /\ acquiring' = FALSE /\ UNCHANGED failed
          \/ failed' = failed \cup {"stop"} /\ UNCHANGED acquiring
     ELSE UNCHANGED <<acquiring, failed>>
  /\ UNCHANGED <<deviceOpen, streamOpen, m_pDevice, m_pStream, bufferVars, cameraVars, otherVars, crashed>>

\* The buffers are revoked and deleted, also the one the handler has.
RevokeBuffers ==
  /\ Go("stopped", "revoked")
  /\ crashed' = IF m_pStream /\ busy > 0 THEN "buffer" ELSE ""
  /\ queued' = IF m_pStream THEN 0 ELSE queued
  /\ lost' = IF m_pStream THEN 0 ELSE lost
  /\ UNCHANGED <<driverVars, m_pDevice, m_pStream, busy, cameraVars, otherVars, failed>>

NoCamera == /\ m_pDevice' = FALSE /\ m_pStream' = FALSE /\ m_ImageBufferPools' = FALSE
            /\ m_name' = FALSE /\ connections' = 0 /\ owner' = FALSE /\ UNCHANGED otherVars

\* Mutant of CloseStream: the device is not closed with the stream.
CloseStreamOnly ==
  /\ Go("revoked", "search") /\ NoCamera /\ m_pStream
  /\ streamOpen' = FALSE /\ acquiring' = FALSE /\ busy' = 0 /\ UNCHANGED <<deviceOpen, failed, crashed, queued, lost>>

\* The stream, then the device, even if the catch before has made it null.
CloseStream ==
  /\ Go("revoked", "search") /\ NoCamera /\ m_pStream
  /\ streamOpen' = FALSE /\ acquiring' = FALSE /\ busy' = 0 /\ UNCHANGED <<failed, queued, lost>>
  /\ crashed' = IF m_pDevice THEN "" ELSE "device"
  /\ deviceOpen' = FALSE

CloseThrows ==
  /\ at \in {"stopped", "revoked"} /\ Go(at, "search") /\ NoCamera /\ m_pStream
  /\ failed' = failed \cup {"close"}
  /\ UNCHANGED <<driverVars, bufferVars, crashed>>

\* Without a stream only the acquisition is stopped; buffers of a stream that the
\* catch has closed are nobody's.
NothingToClose ==
  /\ Go("revoked", "search") /\ NoCamera /\ ~m_pStream
  /\ queued' = 0 /\ busy' = 0 /\ lost' = 0
  /\ UNCHANGED <<driverVars, failed, crashed>>

Search  == \/ OpenDevice \/ NoStream \/ AlreadyOpen \/ OpenStream \/ StartAcquisition \/ Success
           \/ Throws \/ MakePool \/ NoAddress \/ EnterCamera
Starter == NameCamera \/ ConnectAgain \/ NotThere
Driver  == Fill \/ Incomplete \/ StoreImg \/ HandlerThrows
Close   == StopAcquisition \/ RevokeBuffers \/ CloseStream \/ CloseThrows \/ NothingToClose

Next == Search \/ Starter \/ Driver \/ Close

Spec == Init /\ [][Next]_streamVars

-----------------------------------------------------------------------------
\* An image that is sent has a buffer and a receiver, although the driver sends
\* before either exists (BaumerCamera.cpp:33-72, BaumerManager.cpp:207-220); what
\* else ends the process needs a close or a stop that failed (:130-140, :184-218).
ImagesHavePlace == /\ crashed # "pool" /\ ~unheard
                   /\ crashed = "device" => "close" \in failed
                   /\ crashed \in {"buffer", "camera"} => "stop" \in failed

\* The stream has its buffers, but for those whose handler threw
\* (BaumerCamera.cpp:89-113, :143-160).
BuffersComeBack == at \in {"stream", "acquire", "success", "pool", "map"} =>
                     queued + busy + lost = Buffers

\* A device stays open after its camera only if it had no stream or a close
\* failed; from then on the search passes it over (BaumerCamera.cpp:74-142).
DeviceIsFree == at = "search" /\ deviceOpen => failed \cap {"stream", "close"} # {}
=============================================================================
