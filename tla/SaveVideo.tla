----------------------------- MODULE SaveVideo -----------------------------
(***************************************************************************)
(* The recorder of kits/camera_service without a cache: SaveVideo with its  *)
(* encoder (encodevideoffmpeg.cpp) and its muxer (muxingvideo.cpp).  The    *)
(* owner starts and stops recordings while a thread takes images from a     *)
(* queue, encodes them and hands the packets to the muxer.  m_write_mutex   *)
(* keeps an encoding apart from the release of the encoder; nothing keeps   *)
(* it apart from the start of the encoder and of the muxer, which are steps *)
(* here.  How the thread waits is in Consumers (class recorder); there is   *)
(* one thread, since all of them work under the queue's mutex.              *)
(***************************************************************************)
EXTENDS Integers, Sequences

CONSTANTS MaxImages,  \* bound: images pushed
          MaxStarts,  \* bound: recordings started
          Keep,       \* images left queued: 20
          Delay       \* frames the codec keeps before it gives the first packet

SaveVideoAssumption == {MaxImages, MaxStarts, Keep, Delay} \subseteq Nat

VARIABLES images,     \* pushed so far
          m_queue_record,   \* how many images
          recorder,   \* the thread: "idle", "encode", "packet", "ended" or "crashed"
          owner,      \* "idle", or the next step: "endEncode", "finish",
                      \* "encoder", "context", "stream", "file", "header", "join", "gone"
          starting,   \* the stop is the first part of a start
          starts,
          m_isrecordvideo,
          encoder,    \* "closed", "open", or m_initialized although OpenVideo failed:
                      \* "noFrame" or "noBuffer"
          inside,     \* frames the codec holds
          context, m_outputstream, m_initialized,  \* the muxer's; streams as a number
          failed,     \* the last start of the muxer failed
          headers, trailers  \* files begun and ended

recorderVars == <<images, m_queue_record, recorder, owner, starting, starts, m_isrecordvideo,
                  encoder, inside, context, m_outputstream, m_initialized, failed, headers,
                  trailers>>
encoderVars == <<encoder, inside>>
muxerVars   == <<context, m_outputstream, m_initialized, headers, trailers>>

Init == /\ images = 0 /\ m_queue_record = 0 /\ recorder = "idle"
        /\ owner = "idle" /\ starting = FALSE /\ starts = 0 /\ m_isrecordvideo = TRUE
        /\ encoder = "closed" /\ inside = 0
        /\ context = FALSE /\ m_outputstream = 0 /\ m_initialized = FALSE
        /\ failed = FALSE /\ headers = 0 /\ trailers = 0

-----------------------------------------------------------------------------
(* The owner: CameraCtrl.                                                   *)

Owner(from, to) == /\ owner = from /\ owner' = to
                   /\ UNCHANGED <<images, m_queue_record, recorder>>

\* Mutant of StartRecord: the recording before is not stopped.
StartRecordOnly == /\ m_isrecordvideo /\ starts < MaxStarts
                   /\ Owner("idle", "encoder")
                   /\ starts' = starts + 1 /\ starting' = TRUE
                   /\ UNCHANGED <<m_isrecordvideo, failed, encoderVars, muxerVars>>

StartRecord == /\ m_isrecordvideo /\ starts < MaxStarts
               /\ Owner("idle", "endEncode")
               /\ starts' = starts + 1 /\ starting' = TRUE
               /\ UNCHANGED <<m_isrecordvideo, failed, encoderVars, muxerVars>>

StopRecord == /\ Owner("idle", "endEncode") /\ starting' = FALSE
              /\ UNCHANGED <<starts, m_isrecordvideo, failed, encoderVars, muxerVars>>

\* Mutant of EndEncode: what is encoded now is not awaited.
EndEncodeNow == /\ Owner("endEncode", "finish")
                /\ encoder' = "closed" /\ inside' = 0
                /\ UNCHANGED <<starting, starts, m_isrecordvideo, failed, muxerVars>>

\* The encoder is released under m_write_mutex; the frames it holds are lost.
EndEncode == /\ recorder # "packet"
             /\ Owner("endEncode", "finish")
             /\ encoder' = "closed" /\ inside' = 0
             /\ UNCHANGED <<starting, starts, m_isrecordvideo, failed, muxerVars>>

\* finished: a muxer that was not started completely is left as it is.
Finished == /\ Owner("finish", IF starting THEN "encoder" ELSE "idle")
            /\ IF m_initialized
               THEN /\ trailers' = trailers + 1
                    /\ context' = FALSE /\ m_outputstream' = 0 /\ m_initialized' = FALSE
               ELSE UNCHANGED <<context, m_outputstream, m_initialized, trailers>>
            /\ UNCHANGED <<starting, starts, m_isrecordvideo, failed, headers, encoderVars>>

\* Initencoder: no codec, or m_initialized whatever OpenVideo did.
InitEncoder ==
  /\ \E result \in {"closed", "open", "noFrame", "noBuffer"} :
       /\ Owner("encoder", IF result = "closed" THEN "idle" ELSE "context")
       /\ encoder' = result
  /\ failed' = FALSE
  /\ UNCHANGED <<starting, starts, m_isrecordvideo, inside, muxerVars>>

\* The steps of MuxingVideo::Init.  A step that fails ends the start.
Mux(from, to) == /\ \/ Owner(from, to) /\ failed' = failed
                    \/ Owner(from, "idle") /\ failed' = TRUE
                 /\ UNCHANGED <<starting, starts, m_isrecordvideo, encoderVars>>

\* The context of a start that failed is not freed.
AllocContext == /\ Mux("context", "stream")
                /\ context' = ~failed'
                /\ UNCHANGED <<m_outputstream, m_initialized, headers, trailers>>

\* Neither is its stream, which stays the first.
AddStream == /\ Owner("stream", "file")
             /\ m_outputstream' = m_outputstream + 1
             /\ UNCHANGED <<starting, starts, m_isrecordvideo, failed, encoderVars,
                            context, m_initialized, headers, trailers>>

OpenFile == Mux("file", "header") /\ UNCHANGED muxerVars

WriteHeader == /\ Mux("header", "idle")
               /\ m_initialized' = ~failed'
               /\ headers' = IF failed' THEN headers ELSE headers + 1
               /\ UNCHANGED <<context, m_outputstream, trailers>>

\* ~SaveVideo, after the owner has stopped the recording.
ClearFlag == /\ encoder = "closed" /\ Owner("idle", "join")
             /\ m_isrecordvideo' = FALSE
             /\ UNCHANGED <<starting, starts, failed, encoderVars, muxerVars>>

Join == /\ recorder = "ended" /\ Owner("join", "gone")
        /\ UNCHANGED <<starting, starts, m_isrecordvideo, failed, encoderVars, muxerVars>>

-----------------------------------------------------------------------------
(* Producers and the thread.                                                *)

Others == <<owner, starting, starts, m_isrecordvideo, encoder, failed, muxerVars>>

\* The mutex of the queue is free while the thread does not work.
PushImage == /\ m_isrecordvideo /\ recorder = "idle" /\ images < MaxImages
             /\ images' = images + 1 /\ m_queue_record' = m_queue_record + 1
             /\ UNCHANGED <<recorder, inside, Others>>

Record(from, to) == recorder = from /\ recorder' = to /\ UNCHANGED <<images, Others>>

TakeImage == /\ m_isrecordvideo /\ m_queue_record > 0
             /\ Record("idle", "encode")
             /\ m_queue_record' = IF m_queue_record > Keep THEN Keep ELSE m_queue_record - 1
             /\ UNCHANGED inside

\* An encoder that is closed or has no buffer writes nothing, and the frame may
\* be refused; without a frame the thread reads through a null pointer.
NotEncoded == /\ encoder # "noFrame" /\ Record("encode", "idle")
              /\ UNCHANGED <<m_queue_record, inside>>

NoFrame == /\ encoder = "noFrame" /\ Record("encode", "crashed")
           /\ UNCHANGED <<m_queue_record, inside>>

\* Under m_write_mutex; the first packets come when the codec is full.
WriteRGBData == /\ encoder = "open"
                /\ Record("encode", IF inside < Delay THEN "idle" ELSE "packet")
                /\ inside' = inside + 1
                /\ UNCHANGED m_queue_record

\* Still under it.
WriteVideo == /\ Record("packet", "idle")
              /\ inside' = inside - 1
              /\ UNCHANGED m_queue_record

ThreadEnds == /\ ~m_isrecordvideo /\ Record("idle", "ended")
              /\ UNCHANGED <<m_queue_record, inside>>

Next == \/ StartRecord \/ StopRecord \/ EndEncode \/ Finished \/ InitEncoder
        \/ AllocContext \/ AddStream \/ OpenFile \/ WriteHeader \/ ClearFlag \/ Join
        \/ PushImage \/ TakeImage \/ NotEncoded \/ NoFrame \/ WriteRGBData \/ WriteVideo
        \/ ThreadEnds

Spec == Init /\ [][Next]_recorderVars

-----------------------------------------------------------------------------
\* A packet goes to a file whose header is written, and never to a context that
\* is closed under it: the encoder is released first, under the mutex of the
\* write (SaveVideo.cpp:56-57).  But the encoder is open before the muxer: a
\* packet may come while the muxer starts, or after it failed (SaveVideo.cpp:68).
PacketsHaveFile ==
  recorder = "packet" => m_initialized \/ failed \/ owner \in {"context", "stream", "file", "header"}

\* Every file that was begun is ended before the next one is begun, and at the
\* end of the object (SaveVideo.cpp:65), whatever failed in between.
FilesAreEnded == headers = trailers + (IF m_initialized THEN 1 ELSE 0)
=============================================================================
