----------------------------- MODULE ExecClient -----------------------------
(***************************************************************************)
(* pkg/exec/exec.go: the client a reconcile runs its commands with, one    *)
(* after the other.  Each command is streamed in a goroutine of its own,   *)
(* which hands over the error and then the completion through two channels *)
(* that the caller reads in the other order.                               *)
(***************************************************************************)
EXTENDS Naturals, Sequences

CONSTANTS
  Errors,     \* how a command can fail
  NoError,    \* of a command that went well
  MaxRequests \* bound: commands of one client

ASSUME ExecAssumption == NoError \notin Errors /\ MaxRequests \in Nat

VARIABLES
  execComplete, execErr, \* the channels
  err,        \* the variable runPodExec shares with its goroutine
  caller,     \* where the caller is in runPodExec
  streams,    \* where each goroutine is, by request
  ended,      \* history: how each stream ended
  answers     \* history: what each request returned

clientVars == <<execComplete, execErr, err, caller, streams, ended, answers>>

Capacity_Unbuffered == 0                               \* mutant
Capacity == 1

\* A goroutine sends into a channel with room, or to a caller that waits.
CanSend(channel, waits) == Len(channel) < Capacity \/ waits

Outcomes == Errors \cup {NoError}
Request  == Len(streams)

\* MakeRequest up to the go statement; before it the request can fail.
Start ==
  /\ caller = "idle" /\ Request < MaxRequests
  /\ \/ /\ streams' = Append(streams, "streaming")
        /\ err' = NoError
        /\ caller' = "awaits"
        /\ UNCHANGED <<ended, answers>>
     \/ \E e \in Errors :
          /\ streams' = Append(streams, "gone")
          /\ ended' = Append(ended, e)
          /\ answers' = Append(answers, e)
          /\ err' = e
          /\ UNCHANGED caller
  /\ UNCHANGED <<execComplete, execErr>>

\* The goroutine of a request.
EndStream(n) ==
  /\ streams[n] = "streaming"
  /\ \E e \in Outcomes :
       /\ ended' = Append(ended, e)
       /\ err' = e
  /\ streams' = [streams EXCEPT ![n] = "ended"]
  /\ UNCHANGED <<execComplete, execErr, caller, answers>>

SendErr(n) ==
  /\ streams[n] = "ended"
  /\ CanSend(execErr, caller = "reads")
  /\ execErr' = Append(execErr, err)
  /\ streams' = [streams EXCEPT ![n] = "reported"]
  /\ UNCHANGED <<execComplete, err, caller, ended, answers>>

SendComplete(n) ==
  /\ streams[n] = "reported"
  /\ CanSend(execComplete, caller = "awaits")
  /\ execComplete' = Append(execComplete, TRUE)
  /\ streams' = [streams EXCEPT ![n] = "gone"]
  /\ UNCHANGED <<execErr, err, caller, ended, answers>>

\* The caller waits for the completion and reads the error.
Await ==
  /\ caller = "awaits" /\ execComplete # <<>>
  /\ execComplete' = Tail(execComplete)
  /\ caller' = "reads"
  /\ UNCHANGED <<execErr, err, streams, ended, answers>>

Answer_Nil(e) == NoError                                  \* mutant
Answer(e) == e

ReadErr ==
  /\ caller = "reads" /\ execErr # <<>>
  /\ execErr' = Tail(execErr)
  /\ err' = Head(execErr)
  /\ answers' = Append(answers, Answer(Head(execErr)))
  /\ caller' = "idle"
  /\ UNCHANGED <<execComplete, streams, ended>>

\* InitKubeGoClient.
ClientInit ==
  /\ execComplete = <<>> /\ execErr = <<>>
  /\ err = NoError /\ caller = "idle"
  /\ streams = <<>> /\ ended = <<>> /\ answers = <<>>

\* The steps that only need goroutines to be scheduled, as long as the streams
\* end, which is the pod's part.
Goroutine == \E n \in DOMAIN streams :
               EndStream(n) \/ SendErr(n) \/ SendComplete(n)

ClientNext == Start \/ Await \/ ReadErr \/ Goroutine

ClientSpec == ClientInit /\ [][ClientNext]_clientVars

---------------------------------------------------------------------------
(* Properties.                                                             *)

\* Every request returns how its own stream ended (exec.go:125-141), never
\* what an earlier one left in a channel.
AnswerIsOwn ==
  \A n \in DOMAIN answers : n \in DOMAIN ended /\ answers[n] = ended[n]

\* Why: only the last stream can be on its way, and only if the caller waits
\* for it; the channels hold what it said and nothing else.
ClientTypeOK ==
  /\ streams \in Seq({"streaming", "ended", "reported", "gone"})
  /\ ended \in Seq(Outcomes) /\ answers \in Seq(Outcomes)
  /\ err \in Outcomes /\ caller \in {"idle", "awaits", "reads"}

AtRest ==
  /\ Len(answers) = Request /\ Len(ended) = Request
  /\ execErr = <<>> /\ execComplete = <<>>
  /\ \A n \in 1..Request : streams[n] = "gone"

UnderWay ==
  /\ Request > 0 /\ Len(answers) = Request - 1
  /\ \A n \in 1..Request - 1 : streams[n] = "gone"
  /\ caller = "reads" => streams[Request] = "gone"
  /\ Len(ended) = IF streams[Request] = "streaming" THEN Request - 1 ELSE Request
  /\ streams[Request] = "ended" => err = ended[Request]
  /\ execErr = IF streams[Request] \in {"streaming", "ended"} THEN <<>>
               ELSE <<ended[Request]>>
  /\ execComplete = IF caller = "awaits" /\ streams[Request] = "gone"
                      THEN <<TRUE>> ELSE <<>>

ClientInv ==
  /\ ClientTypeOK /\ AnswerIsOwn
  /\ IF caller = "idle" THEN AtRest ELSE UnderWay

=============================================================================
