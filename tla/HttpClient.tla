----------------------------- MODULE HttpClient -----------------------------
(***************************************************************************)
(* kits/communication/http_client: requests of one client and the list of   *)
(* their replies.  Everything happens on the client's thread; a request of  *)
(* another thread is posted to it.  abort() of a reply emits finished at    *)
(* once, and so handleResponse takes the reply out of the list that         *)
(* cancelAllRequests walks through: the elements behind it move up by one,  *)
(* the walk goes on at the next place, up to the end as it was at first,    *)
(* and behind the new end it finds what was there before.                   *)
(***************************************************************************)
EXTENDS Integers, SequencesExt

CONSTANTS MaxReplies  \* bound: requests sent

HttpAssumption == MaxReplies \in Nat

VARIABLES posted,   \* requests of other threads that are not sent yet
          replies,  \* replies made so far; a reply is its number
          running,  \* replies that are neither finished nor aborted
          m_currentReplies,
          answers,  \* how often each reply was told, as finished or as an error
          skipped,  \* replies that a cancellation left running
          alive     \* the client is not destroyed

httpVars == <<posted, replies, running, m_currentReplies, answers, skipped, alive>>

Init == /\ posted = 0 /\ replies = 0 /\ running = {} /\ m_currentReplies = <<>>
        /\ answers = [r \in 1..MaxReplies |-> 0] /\ skipped = {} /\ alive = TRUE

\* sendRequest and uploadFile of another thread.
Post == /\ alive /\ replies + posted < MaxReplies
        /\ posted' = posted + 1
        /\ UNCHANGED <<replies, running, m_currentReplies, answers, skipped, alive>>

\* sendRawData and doUploadFile: a reply is made and listed.  An upload whose
\* file cannot be opened makes none, and changes nothing here.
SendRawData(taken) ==
  /\ alive /\ posted' = posted - taken
  /\ replies + posted' < MaxReplies
  /\ replies' = replies + 1
  /\ running' = running \cup {replies'}
  /\ m_currentReplies' = Append(m_currentReplies, replies')
  /\ UNCHANGED <<answers, skipped, alive>>

SendRequest == SendRawData(0)
SendPosted  == posted > 0 /\ SendRawData(1)

-----------------------------------------------------------------------------
\* What handleResponse changes: s is the state of the walk below.  What removeAll
\* leaves is a recursive function, so that proofs can unfold it.
Removed(list, r) ==
  LET upTo[i \in 0..Len(list)] == IF i = 0 THEN <<>>
                                  ELSE IF list[i] = r THEN upTo[i - 1]
                                  ELSE Append(upTo[i - 1], list[i])
  IN upTo[Len(list)]

\* Mutant of HandleResponse: the reply stays in the list.
HandleResponseKept(s, r) == [s EXCEPT !.running = @ \ {r}, !.answers[r] = @ + 1]

HandleResponse(s, r) == [s EXCEPT !.running = @ \ {r},
                                  !.answers[r] = @ + 1,
                                  !.list = Removed(@, r)]

\* A reply comes, or an error or the timeout of the request.
OnFinished == /\ alive
              /\ \E r \in running :
                   LET s == HandleResponse([running |-> running, answers |-> answers,
                                            list |-> m_currentReplies], r)
                   IN /\ running' = s.running /\ answers' = s.answers
                      /\ m_currentReplies' = s.list
              /\ UNCHANGED <<posted, replies, skipped, alive>>

\* Mutant of Visit: the walk ends with the list.
VisitListed(s, i) ==
  IF i > Len(s.list) \/ s.list[i] \notin s.running THEN s
  ELSE HandleResponse(s, s.list[i])

\* One place of the walk.  memory is the array of the list: its elements and
\* those left behind its end.
Visit(s, i) ==
  LET r    == s.memory[i]
      next == HandleResponse(s, r)
  IN IF r \notin s.running THEN s
     ELSE [next EXCEPT !.memory = next.list \o SubSeq(s.memory, Len(next.list) + 1, Len(s.memory))]

\* cancelAllRequests: every place is visited, then the list is cleared.
CancelAll ==
  LET begun == [running |-> running, answers |-> answers, list |-> m_currentReplies,
                memory |-> m_currentReplies]
      after[i \in 0..Len(m_currentReplies)] == IF i = 0 THEN begun ELSE Visit(after[i - 1], i)
      s == after[Len(m_currentReplies)]
  IN /\ running' = s.running /\ answers' = s.answers
     /\ skipped' = skipped \cup (s.running \cap ToSet(m_currentReplies))
     /\ m_currentReplies' = <<>>

CancelAllRequests == alive /\ CancelAll /\ UNCHANGED <<posted, replies, alive>>

\* ~HttpClient: what still runs goes with the client's manager.
Destroy == /\ alive /\ alive' = FALSE
           /\ CancelAll
           /\ UNCHANGED <<posted, replies>>

Next == Post \/ SendRequest \/ SendPosted \/ OnFinished \/ CancelAllRequests \/ Destroy

Spec == Init /\ [][Next]_httpVars

-----------------------------------------------------------------------------
\* A reply is told once, when it ends; the list never holds one that has ended,
\* whose object is deleted soon (HttpClient.cpp:236-248).
EachToldOnce ==
  /\ \A r \in 1..MaxReplies : answers[r] = IF r \in (1..replies) \ running THEN 1 ELSE 0
  /\ ToSet(m_currentReplies) = running \ skipped

\* A cancellation ends the first and the last reply of the list, and of two
\* neighbours at least one (HttpClient.cpp:110-114); not every reply, as its name
\* says.
CancelSkipsSingly ==
  \A i \in DOMAIN m_currentReplies :
    m_currentReplies[i] \in skipped' \ skipped =>
      /\ 1 < i /\ i < Len(m_currentReplies)
      /\ m_currentReplies[i + 1] \notin skipped'

RepliesAreTold == [][EachToldOnce' /\ CancelSkipsSingly]_httpVars
=============================================================================
