--------------------------- MODULE SaveVideoCache ---------------------------
(***************************************************************************)
(* kits/common/save_video_by_ffmpeg/SaveVideoCache.cpp: a camera thread     *)
(* pushes frames all the time; startRecord starts a save thread that writes *)
(* one short video, the frames cached before the call and the frames of the *)
(* seconds after it; stopRecord ends the encoder and joins the thread.      *)
(*                                                                          *)
(* The three flags are atomics that pushOriginalImage reads without a lock, *)
(* so every read and every store of one is a step of its own; a step under  *)
(* a mutex is one step unless a flag stored in it may be read meanwhile.    *)
(* Where the code takes no lock around the encoder, the muxer or a clear(), *)
(* two threads in it at once are modelled as one after the other.           *)
(* Frames are numbered in the order in which the camera delivers them.      *)
(***************************************************************************)
EXTENDS Integers, Sequences, FiniteSets

CONSTANTS CacheLimit,    \* m_videoinputinfo.fps * 5
          MaxFrames,     \* bound: number of frames the camera delivers
          MaxRecordings  \* bound: number of videos started

ASSUME VideoAssumption == /\ CacheLimit \in Nat \ {0}
                          /\ MaxFrames \in Nat /\ MaxRecordings \in Nat

VARIABLES frame, ppc,       \* the camera thread: its latest frame and where it is
          pre, post,        \* m_pre_original_record, m_post_original_record
          recording, isPre, isBefore,  \* m_isRecording, m_isPreRecording, m_isBeforeRecording
          encoder, muxer,   \* initialised: m_initialized of the encoder and of the muxer
          cpc,              \* the thread that calls startRecord and stopRecord
          spc,              \* the save thread
          preFrames, postFrames, \* its two copies
          left,             \* frames of the copy it has not encoded yet
          video,            \* frames in the file of the current recording
          begun, answered \* number of recordings started and of callbacks made

camera == <<frame, ppc>>
flags  == <<recording, isPre, isBefore>>
file   == <<encoder, muxer>>
copies == <<preFrames, postFrames>>
counts == <<begun, answered>>
saverVars == <<frame, ppc, pre, post, recording, isPre, isBefore, encoder, muxer, cpc, spc,
               preFrames, postFrames, left, video, begun, answered>>

SaverInit == /\ frame = 0 /\ ppc = "idle"
             /\ pre = <<>> /\ post = <<>>
             /\ recording = FALSE /\ isPre = FALSE /\ isBefore = FALSE
             /\ encoder = FALSE /\ muxer = FALSE
             /\ cpc = "idle" /\ spc = "none"
             /\ preFrames = <<>> /\ postFrames = <<>> /\ left = <<>> /\ video = <<>>
             /\ begun = 0 /\ answered = 0

-----------------------------------------------------------------------------
(* pushOriginalImage, on the camera thread.                                *)

\* A new frame: m_isPreRecording is read without the lock.
Push == /\ ppc = "idle" /\ frame < MaxFrames
        /\ frame' = frame + 1
        /\ ppc' = IF isPre THEN "second" ELSE "pre"
        /\ UNCHANGED <<pre, post, flags, file, cpc, spc, copies, left, video, counts>>

\* Under m_preCacheMutex; the oldest frames beyond the limit are dropped.
PushPre == /\ ppc = "pre" /\ spc # "locked"
           /\ pre' = IF Len(pre) < CacheLimit THEN Append(pre, frame)
                     ELSE Append(Tail(pre), frame)
           /\ ppc' = "second"
           /\ UNCHANGED <<frame, post, flags, file, cpc, spc, copies, left, video, counts>>

\* m_isBeforeRecording is read without the lock.
ReadBefore == /\ ppc = "second"
              /\ ppc' = IF isBefore THEN "post" ELSE "idle"
              /\ UNCHANGED <<frame, pre, post, flags, file, cpc, spc, copies, left, video, counts>>

\* Mutant of PushPost: the camera drops the frame when the mutex is taken.
PushPostTryLock == /\ ppc = "post"
                   /\ post' \in {post, Append(post, frame)}
                   /\ ppc' = "idle"
                   /\ UNCHANGED <<frame, pre, flags, file, cpc, spc, copies, left, video, counts>>

\* Under m_mutex_record; nothing limits this cache.
PushPost == /\ ppc = "post"
            /\ post' = Append(post, frame)
            /\ ppc' = "idle"
            /\ UNCHANGED <<frame, pre, flags, file, cpc, spc, copies, left, video, counts>>

Camera == Push \/ PushPre \/ ReadBefore \/ PushPost

-----------------------------------------------------------------------------
(* startRecord and stopRecord, on the controller's thread.                 *)

\* A recording in progress makes startRecord return 3 and change nothing.
StartRecord == /\ cpc = "idle" /\ ~recording /\ begun < MaxRecordings
               /\ recording' = TRUE
               /\ cpc' = "start"
               /\ UNCHANGED <<camera, pre, post, isPre, isBefore, file, spc, copies, left, video, counts>>

\* The former thread is joined, the new one starts.
SpawnSaver == /\ cpc = "start" /\ spc \in {"none", "ended"}
              /\ spc' = "begin"
              /\ video' = <<>>
              /\ begun' = begun + 1
              /\ cpc' = "idle"
              /\ UNCHANGED <<camera, pre, post, flags, file, copies, left, answered>>

StopRecord == /\ cpc = "idle"
              /\ recording' = FALSE
              /\ cpc' = "endEncode"
              /\ UNCHANGED <<camera, pre, post, isPre, isBefore, file, spc, copies, left, video, counts>>

StopEncoder == /\ cpc = "endEncode"
               /\ encoder' = FALSE
               /\ cpc' = "finish"
               /\ UNCHANGED <<camera, pre, post, flags, muxer, spc, copies, left, video, counts>>

StopMuxer == /\ cpc = "finish"
             /\ muxer' = FALSE
             /\ cpc' = "join"
             /\ UNCHANGED <<camera, pre, post, flags, encoder, spc, copies, left, video, counts>>

Join == /\ cpc = "join" /\ spc \in {"none", "ended"}
        /\ spc' = "none"
        /\ cpc' = "idle"
        /\ UNCHANGED <<camera, pre, post, flags, file, copies, left, video, counts>>

Controller == StartRecord \/ SpawnSaver \/ StopRecord \/ StopEncoder \/ StopMuxer \/ Join

-----------------------------------------------------------------------------
(* The save thread.                                                        *)

\* It takes m_preCacheMutex and stores the first flag ...
SetPre == /\ spc = "begin"
          /\ isPre' = TRUE
          /\ spc' = "locked"
          /\ UNCHANGED <<camera, pre, post, recording, isBefore, file, cpc, copies, left, video, counts>>

\* ... then the second one, copies the cache and unlocks.
CopyPre == /\ spc = "locked"
           /\ isBefore' = TRUE
           /\ preFrames' = pre /\ left' = pre /\ postFrames' = <<>>
           /\ spc' = "initEncoder"
           /\ UNCHANGED <<camera, pre, post, recording, isPre, file, cpc, video, counts>>

\* Every early end resets the flags and clears the second cache.
Abandon == /\ recording' = FALSE /\ isPre' = FALSE /\ isBefore' = FALSE
           /\ post' = <<>> /\ left' = <<>>
           /\ spc' = "callback"

InitEncoder == /\ spc = "initEncoder"
               /\ \/ /\ encoder' = TRUE /\ spc' = "initMuxer"
                     /\ UNCHANGED <<post, flags, left>>
                  \/ Abandon /\ UNCHANGED encoder
               /\ UNCHANGED <<camera, pre, muxer, cpc, copies, video, counts>>

\* The encoder stays initialised when the muxer fails.
InitMuxer == /\ spc = "initMuxer"
             /\ \/ /\ muxer' = TRUE /\ spc' = "encodePre"
                   /\ UNCHANGED <<post, flags, left>>
                \/ Abandon /\ UNCHANGED muxer
             /\ UNCHANGED <<camera, pre, encoder, cpc, copies, video, counts>>

\* WriteRGBData fails, and its result is ignored, once the encoder is ended.
Encode == /\ left # <<>>
          /\ video' = IF encoder /\ muxer THEN Append(video, Head(left)) ELSE video
          /\ left' = Tail(left)

EncodePre == /\ spc = "encodePre" /\ Encode
             /\ UNCHANGED <<camera, pre, post, flags, file, cpc, spc, copies, counts>>

PreDone == /\ spc = "encodePre" /\ left = <<>>
           /\ isPre' = FALSE
           /\ spc' = "wait"
           /\ UNCHANGED <<camera, pre, post, recording, isBefore, file, cpc, copies, left, video, counts>>

\* Mutant of CopyPost: the wait has no timeout.
CopyPostWhenFull == /\ spc = "wait" /\ Len(post) >= CacheLimit
                    /\ isBefore' = FALSE
                    /\ postFrames' = post /\ left' = post
                    /\ spc' = "encodePost"
                    /\ UNCHANGED <<camera, pre, post, recording, isPre, file, cpc, preFrames, video, counts>>

\* wait_for ends with enough frames or after 5 s; the flag and the copy are
\* made under m_mutex_record.
CopyPost == /\ spc = "wait"
            /\ isBefore' = FALSE
            /\ postFrames' = post /\ left' = post
            /\ spc' = "encodePost"
            /\ UNCHANGED <<camera, pre, post, recording, isPre, file, cpc, preFrames, video, counts>>

EncodePost == /\ spc = "encodePost" /\ Encode
              /\ UNCHANGED <<camera, pre, post, flags, file, cpc, spc, copies, counts>>

ClearPost == /\ spc = "encodePost" /\ left = <<>>
             /\ post' = <<>>
             /\ spc' = "endEncode"
             /\ UNCHANGED <<camera, pre, flags, file, cpc, copies, left, video, counts>>

EndEncode == /\ spc = "endEncode"
             /\ encoder' = FALSE
             /\ spc' = "finish"
             /\ UNCHANGED <<camera, pre, post, flags, muxer, cpc, copies, left, video, counts>>

Finished == /\ spc = "finish"
            /\ muxer' = FALSE
            /\ spc' = "done"
            /\ UNCHANGED <<camera, pre, post, flags, encoder, cpc, copies, left, video, counts>>

\* Mutant of RecordDone: the flag is left set.
RecordDoneFlagKept == /\ spc = "done"
                      /\ spc' = "callback"
                      /\ UNCHANGED <<camera, pre, post, flags, file, cpc, copies, left, video, counts>>

RecordDone == /\ spc = "done"
              /\ recording' = FALSE
              /\ spc' = "callback"
              /\ UNCHANGED <<camera, pre, post, isPre, isBefore, file, cpc, copies, left, video, counts>>

\* A frame may throw (no memory); the handler falls through to the callback.
Crash == /\ spc \in {"encodePre", "encodePost"} /\ left # <<>>
         /\ Abandon
         /\ UNCHANGED <<camera, pre, file, cpc, copies, video, counts>>

Callback == /\ spc = "callback"
            /\ answered' = answered + 1
            /\ spc' = "ended"
            /\ UNCHANGED <<camera, pre, post, flags, file, cpc, copies, left, video, begun>>

SaveThread == \/ SetPre \/ CopyPre \/ InitEncoder \/ InitMuxer \/ EncodePre \/ PreDone
              \/ CopyPost \/ EncodePost \/ ClearPost \/ EndEncode \/ Finished
              \/ RecordDone \/ Crash \/ Callback

SaverNext == Camera \/ Controller \/ SaveThread

SaverSpec == SaverInit /\ [][SaverNext]_saverVars

\* Threads that have something to do go on; nothing forces the camera to
\* deliver a frame or the controller to start or stop.
SaverFairSpec == /\ SaverSpec
                 /\ WF_saverVars(SaveThread)
                 /\ WF_saverVars(SpawnSaver \/ StopEncoder \/ StopMuxer \/ Join)
                 /\ WF_saverVars(PushPre \/ ReadBefore \/ PushPost)
-----------------------------------------------------------------------------
Ascending(s) == \A i, j \in DOMAIN s : i < j => s[i] < s[j]
FramesOf(s) == {s[i] : i \in DOMAIN s}

\* The shape of the state; the first cache never exceeds its limit.
SaverTypeOK == /\ frame \in 0..MaxFrames
               /\ ppc \in {"idle", "pre", "second", "post"}
               /\ \A s \in {pre, post, preFrames, postFrames, left, video} : FramesOf(s) \subseteq 1..MaxFrames
               /\ Len(pre) <= CacheLimit
               /\ {recording, isPre, isBefore, encoder, muxer} \subseteq BOOLEAN
               /\ cpc \in {"idle", "start", "endEncode", "finish", "join"}
               /\ spc \in {"none", "begin", "locked", "initEncoder", "initMuxer", "encodePre", "wait",
                            "encodePost", "endEncode", "finish", "done", "callback", "ended"}
               /\ begun \in 0..MaxRecordings /\ answered \in 0..begun

\* Between two recordings the second cache holds at most the one frame whose
\* push was under way when the cache was cleared: no video starts with the
\* end of an earlier one.
PostCacheDrained ==
  spc \notin {"initEncoder", "initMuxer", "encodePre", "wait", "encodePost"} => Len(post) <= 1

\* After the first of them, the frames after the call are consecutive: the slow
\* encoding of the frames before the call loses none of them.
PostIsContiguous ==
  \A i \in 2..(Len(postFrames) - 1) : postFrames[i + 1] = postFrames[i] + 1

\* Every recording that was started is answered by exactly one callback, on
\* success, on both failures and after an exception.
OneAnswer == answered = IF spc \in {"none", "ended"} THEN begun ELSE begun - 1

\* What a recording leaves behind does not reach the next one, what it was
\* given is complete, and it has answered.
RecordingsApart == PostCacheDrained /\ PostIsContiguous /\ OneAnswer

\* A recording ends even if the camera delivers nothing.
RecordingEnds == recording ~> ~recording

\* stopRecord returns: the thread it joins ends.
StopReturns == cpc = "endEncode" ~> cpc = "idle"

\* SaveVideoCache.h:36: a video holds the frames before the call and the
\* frames after it, so no frame appears twice or after a later one.  Does not
\* hold (README), no run checks it.
VideoInOrder == Ascending(video)
=============================================================================
