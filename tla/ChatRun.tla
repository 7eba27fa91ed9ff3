------------------------------ MODULE ChatRun ------------------------------
(***************************************************************************)
(* A chat with host tools (internal/gateway/chat_run.go, search.go,        *)
(* host_tools.go, runs.go): the request hands over to a run and then       *)
(* follows it, while the run's consumer calls the model, runs its tools    *)
(* and streams deltas through a bounded channel.  The two meet only in the *)
(* delivery (ready, deltas, done) and in the stored run.  The friend may   *)
(* leave at any time, the run may be cancelled or given up by the joiner,  *)
(* and every record may be refused.  Searches of all chats of a key share  *)
(* its day meter.                                                          *)
(***************************************************************************)
EXTENDS Naturals, FiniteSets

CONSTANTS
    Chats,           \* chats followed in full; others of the key show in its search meter
    MaxToolRounds,   \* maxToolRounds (3)
    MaxSearchCalls,  \* maxSearchCalls (2)
    SearchLimit,     \* searches a day the key may make
    DeltaCap,        \* deltas the channel holds (32)
    MaxDeltas        \* bound on the deltas of a chat

ASSUME ChatAssumption ==
    {MaxToolRounds, MaxSearchCalls, SearchLimit, DeltaCap, MaxDeltas} \subseteq Nat \ {0}

VARIABLES
    follower,   \* the request: none, routed, following, confirming, leaving, ended
    told,       \* how its response ended: none, done, error
    got,        \* deltas written to the friend
    listed,     \* the delivery is in chatDeliveries
    ready, deltas, finished, chatErr,  \* the delivery
    consumer,   \* none, start, wait, step, stream, tool, search, searching, image, close, return, finish, gone
    asked,      \* the tool the model asked for
    outcome,    \* what the tool gave: none, ran, failed, fatal
    round, searches, answerOnly, emitted,
    opened,     \* tool steps recorded as running before their tool ran
    batches,    \* image batches submitted
    chatState,  \* Run.State
    asking,     \* CancelRequested
    halted,    \* the worker's context is cancelled
    searchedToday, searchReserved,  \* the key's search meter
    elsewhere   \* searches under way in the key's other chats

delivery == <<listed, ready, deltas, finished, chatErr>>
loop == <<asked, outcome, round, searches, answerOnly, emitted, opened, batches>>
ledgerRow == <<chatState, asking, halted>>
meter == <<searchedToday, searchReserved, elsewhere>>
chatVars == <<follower, told, got, delivery, consumer, loop, ledgerRow, meter>>

Over == {"done", "failed", "cancelled"}

ChatInit ==
    /\ follower = [c \in Chats |-> "none"] /\ told = [c \in Chats |-> "none"]
    /\ got = [c \in Chats |-> 0] /\ emitted = [c \in Chats |-> 0]
    /\ listed = {} /\ ready = {} /\ finished = {} /\ chatErr = {}
    /\ deltas = [c \in Chats |-> 0]
    /\ consumer = [c \in Chats |-> "none"]
    /\ asked = [c \in Chats |-> "none"] /\ outcome = [c \in Chats |-> "none"]
    /\ round = [c \in Chats |-> 0] /\ searches = [c \in Chats |-> 0] /\ answerOnly = {}
    /\ opened = [c \in Chats |-> 0] /\ batches = [c \in Chats |-> 0]
    /\ chatState = [c \in Chats |-> "none"]
    /\ asking = {} /\ halted = {}
    /\ searchedToday = 0 /\ searchReserved = 0 /\ elsewhere = 0

FollowerAt(c, s) == follower' = [follower EXCEPT ![c] = s]
ConsumerAt(c, s) == consumer' = [consumer EXCEPT ![c] = s]
Fails(c) == ConsumerAt(c, "return") /\ chatErr' = chatErr \cup {c}

----------------------------------------------------------------------------
(* The request. *)

\* routeHostTools: the delivery is listed, the run submitted (or refused) and its id noted
\* under the delivery's lock; the worker starts at once.
Route(c) ==
    /\ follower[c] = "none"
    /\ \/ /\ FollowerAt(c, "routed") /\ ConsumerAt(c, "start")
          /\ listed' = listed \cup {c}
          /\ chatState' = [chatState EXCEPT ![c] = "running"]
          /\ UNCHANGED told
       \/ /\ FollowerAt(c, "ended") /\ told' = [told EXCEPT ![c] = "error"]
          /\ UNCHANGED <<consumer, listed, chatState>>
    /\ UNCHANGED <<got, ready, deltas, finished, chatErr, loop, asking, halted, meter>>

\* followChat begins once the request has given back its admission.
Follow(c) ==
    /\ follower[c] = "routed"
    /\ FollowerAt(c, "following") /\ ready' = ready \cup {c}
    /\ UNCHANGED <<told, got, listed, deltas, finished, chatErr, consumer, loop, ledgerRow, meter>>

TakeDelta(c) ==
    /\ follower[c] = "following" /\ deltas[c] > 0
    /\ deltas' = [deltas EXCEPT ![c] = @ - 1]
    /\ got' = [got EXCEPT ![c] = @ + 1]
    /\ UNCHANGED <<follower, told, listed, ready, finished, chatErr, consumer, loop, ledgerRow, meter>>

Tell(c, how) == FollowerAt(c, "leaving") /\ told' = [told EXCEPT ![c] = how]

\* The state poll ends the response of a run that failed or was cancelled, but leaves a
\* consumer that has returned to be drained; the record may be gone or unreadable.
PollState(c) ==
    /\ follower[c] = "following" /\ c \notin finished
    /\ chatState[c] \in {"failed", "cancelled"}
    /\ Tell(c, "error")
    /\ UNCHANGED <<got, delivery, consumer, loop, ledgerRow, meter>>

\* Mutant: what is still in the channel is left there.
SeeDoneUndrained(c) ==
    /\ follower[c] = "following" /\ c \in finished
    /\ FollowerAt(c, "confirming")
    /\ UNCHANGED <<told, got, listed, ready, deltas, finished, chatErr, consumer, loop, ledgerRow, meter>>

\* The consumer has returned: the channel is drained, then the stored state is awaited.
SeeDone(c) ==
    /\ follower[c] = "following" /\ c \in finished
    /\ FollowerAt(c, "confirming")
    /\ got' = [got EXCEPT ![c] = @ + deltas[c]]
    /\ deltas' = [deltas EXCEPT ![c] = 0]
    /\ UNCHANGED <<told, listed, ready, finished, chatErr, consumer, loop, ledgerRow, meter>>

Confirm(c) ==
    /\ follower[c] = "confirming" /\ chatState[c] \in Over
    /\ Tell(c, IF chatState[c] = "done" /\ c \notin chatErr THEN "done" ELSE "error")
    /\ UNCHANGED <<got, delivery, consumer, loop, ledgerRow, meter>>

\* The store cannot be read, or 30 seconds pass without a terminal state.
Unconfirmed(c) ==
    /\ follower[c] \in {"following", "confirming"}
    /\ Tell(c, "error")
    /\ UNCHANGED <<got, delivery, consumer, loop, ledgerRow, meter>>

\* The friend's connection is gone, seen by the context or by a failing write.
FriendLeaves(c) ==
    /\ follower[c] \in {"following", "confirming"}
    /\ FollowerAt(c, "leaving")
    /\ UNCHANGED <<told, got, delivery, consumer, loop, ledgerRow, meter>>

\* Manager.Cancel: a run with a worker keeps its state until the worker or the joiner ends it.
Cancelling(c) ==
    /\ asking' = IF chatState[c] \in Over THEN asking ELSE asking \cup {c}
    /\ halted' = halted \cup {c}
    /\ chatState' = [chatState EXCEPT ![c] = IF @ \notin Over /\ consumer[c] = "gone" THEN "cancelled" ELSE @]

\* Mutant: a disconnected chat is left to run.
LeaveRunning(c) ==
    /\ follower[c] = "leaving"
    /\ FollowerAt(c, "ended") /\ listed' = listed \ {c}
    /\ UNCHANGED <<told, got, ready, deltas, finished, chatErr, consumer, loop, ledgerRow, meter>>

\* The deferred calls: Stop the run, forget the delivery.
Leave(c) ==
    /\ follower[c] = "leaving"
    /\ FollowerAt(c, "ended") /\ listed' = listed \ {c}
    /\ Cancelling(c)
    /\ UNCHANGED <<told, got, ready, deltas, finished, chatErr, consumer, loop, meter>>

\* DELETE /v1/runs/{id} by the friend or the owner.
DeleteRun(c) ==
    /\ chatState[c] = "running" /\ c \notin asking
    /\ Cancelling(c)
    /\ UNCHANGED <<follower, told, got, delivery, consumer, loop, meter>>

----------------------------------------------------------------------------
(* The consumer. *)

\* chatRun claims its delivery; a run without one is never replayed.
Claim(c) ==
    /\ consumer[c] = "start"
    /\ IF c \in listed THEN listed' = listed \ {c} /\ ConsumerAt(c, "wait") /\ UNCHANGED chatErr
       ELSE ConsumerAt(c, "finish") /\ chatErr' = chatErr \cup {c} /\ UNCHANGED listed
    /\ UNCHANGED <<follower, told, got, ready, deltas, finished, loop, ledgerRow, meter>>

AwaitReady(c) ==
    /\ consumer[c] = "wait"
    /\ \/ c \in ready /\ ConsumerAt(c, "step") /\ UNCHANGED chatErr
       \/ c \in halted /\ Fails(c)
    /\ UNCHANGED <<follower, told, got, listed, ready, deltas, finished, loop, ledgerRow, meter>>

\* Work.Step: refused by the context or by the store, or the model starts to answer.
BeginStep(c) ==
    /\ consumer[c] = "step"
    /\ \/ c \notin halted /\ ConsumerAt(c, "stream") /\ UNCHANGED chatErr
       \/ Fails(c)
    /\ UNCHANGED <<follower, told, got, listed, ready, deltas, finished, loop, ledgerRow, meter>>

\* The observer passes a delta on, or fails the step when the reader does not keep up.
Emit(c) ==
    /\ consumer[c] = "stream" /\ emitted[c] < MaxDeltas
    /\ emitted' = [emitted EXCEPT ![c] = @ + 1]
    /\ \/ /\ deltas[c] < DeltaCap
          /\ deltas' = [deltas EXCEPT ![c] = @ + 1]
          /\ UNCHANGED <<consumer, chatErr>>
       \/ /\ deltas[c] = DeltaCap \/ c \in halted
          /\ Fails(c) /\ UNCHANGED deltas
    /\ UNCHANGED <<follower, told, got, listed, ready, finished, asked, outcome, round, searches, answerOnly, opened, batches, ledgerRow, meter>>

\* The stream ends: badly, with an answer, or with a call of a tool.
StreamEnds(c) ==
    /\ consumer[c] = "stream"
    /\ \/ Fails(c) /\ UNCHANGED asked
       \/ c \notin halted /\ ConsumerAt(c, "return") /\ UNCHANGED <<chatErr, asked>>
       \/ /\ c \notin halted /\ ConsumerAt(c, "tool")
          /\ \E t \in {"search", "image", "refused"} :
               asked' = [asked EXCEPT ![c] = IF c \in answerOnly THEN "refused" ELSE t]
          /\ UNCHANGED chatErr
    /\ UNCHANGED <<follower, told, got, listed, ready, deltas, finished, outcome, round, searches, answerOnly, emitted, opened, batches, ledgerRow, meter>>

\* chatTool, searchTool: capacity is leased and the step recorded as running before anything
\* happens; either may be refused, and both are once the run has ended or is being cancelled.
OpenTool(c) ==
    /\ consumer[c] = "tool"
    /\ \/ /\ chatState[c] = "running" /\ c \notin asking
          /\ opened' = [opened EXCEPT ![c] = @ + 1]
          /\ ConsumerAt(c, IF asked[c] = "refused" THEN "close" ELSE asked[c])
          /\ outcome' = [outcome EXCEPT ![c] = "failed"]
          /\ UNCHANGED chatErr
       \/ Fails(c) /\ UNCHANGED <<opened, outcome>>
    /\ UNCHANGED <<follower, told, got, listed, ready, deltas, finished, asked, round, searches, answerOnly, emitted, batches, ledgerRow, meter>>

\* One batch of image runs, or a result that says why there is none.
SubmitImages(c) ==
    /\ consumer[c] = "image"
    /\ ConsumerAt(c, "close")
    /\ \/ /\ c \notin halted
          /\ batches' = [batches EXCEPT ![c] = @ + 1]
          /\ outcome' = [outcome EXCEPT ![c] = "ran"]
       \/ UNCHANGED <<batches, outcome>>
    /\ UNCHANGED <<follower, told, got, delivery, asked, round, searches, answerOnly, emitted, opened, ledgerRow, meter>>

\* Mutant: searches under way are not counted.
SearchRoomNow == searchedToday < SearchLimit
SearchRoom == searchedToday + searchReserved < SearchLimit

\* searchTool and search: past the turn's limit, or with bad arguments, nothing is sent; a
\* budget or key refusal ends the chat; otherwise one search is reserved.
ReserveSearch(c) ==
    /\ consumer[c] = "search"
    /\ \/ /\ searches[c] < MaxSearchCalls /\ SearchRoom
          /\ searchReserved' = searchReserved + 1
          /\ ConsumerAt(c, "searching")
          /\ UNCHANGED outcome
       \/ /\ ConsumerAt(c, "close")
          /\ outcome' \in {[outcome EXCEPT ![c] = "failed"]}
                          \cup (IF searches[c] < MaxSearchCalls THEN {[outcome EXCEPT ![c] = "fatal"]} ELSE {})
          /\ UNCHANGED searchReserved
    /\ UNCHANGED <<follower, told, got, delivery, asked, round, searches, answerOnly, emitted, opened, batches, ledgerRow, searchedToday, elsewhere>>

\* The search settles its own reservation: charged when it was sent, whatever came back.
SettleSearch(c) ==
    /\ consumer[c] = "searching"
    /\ searchReserved' = searchReserved - 1
    /\ ConsumerAt(c, "close")
    /\ \/ /\ searchedToday' = searchedToday + 1
          /\ searches' = [searches EXCEPT ![c] = @ + 1]
          /\ outcome' = [outcome EXCEPT ![c] = "ran"]
       \/ /\ c \in halted /\ outcome' = [outcome EXCEPT ![c] = "fatal"]
          /\ UNCHANGED <<searchedToday, searches>>
    /\ UNCHANGED <<follower, told, got, delivery, asked, round, answerOnly, emitted, opened, batches, ledgerRow, elsewhere>>

\* The step is recorded with its result, which may be refused; then the next round, which is
\* the last when the tool failed or the rounds are used up.
CloseTool(c) ==
    /\ consumer[c] = "close"
    /\ \/ Fails(c) /\ UNCHANGED <<round, answerOnly>>
       \/ /\ chatState[c] = "running" /\ outcome[c] # "fatal" /\ c \notin answerOnly
          /\ ConsumerAt(c, "step") /\ UNCHANGED chatErr
          /\ round' = [round EXCEPT ![c] = @ + 1]
          /\ answerOnly' = answerOnly \cup (IF outcome[c] = "failed" \/ round[c] + 1 = MaxToolRounds THEN {c} ELSE {})
    /\ UNCHANGED <<follower, told, got, listed, ready, deltas, finished, asked, outcome, searches, emitted, opened, batches, ledgerRow, meter>>

\* chatRun returns and closes done; only then does the manager record the result.
Return(c) ==
    /\ consumer[c] = "return"
    /\ ConsumerAt(c, "finish") /\ finished' = finished \cup {c}
    /\ UNCHANGED <<follower, told, got, listed, ready, deltas, chatErr, loop, ledgerRow, meter>>

\* Manager.finish; a terminal run stays as it is, and the record may fail for want of room.
FinishChat(c) ==
    /\ consumer[c] = "finish"
    /\ ConsumerAt(c, "gone")
    /\ \E st \in {"failed"} \cup (IF c \in asking THEN {"cancelled"} ELSE IF c \in chatErr THEN {} ELSE {"done"}) :
         chatState' = [chatState EXCEPT ![c] = IF @ \in Over THEN @ ELSE st]
    /\ UNCHANGED <<follower, told, got, delivery, loop, asking, halted, meter>>

\* The joiner gives a cancelled consumer up; what it still does is late.
JoinExpires(c) ==
    /\ c \in asking /\ chatState[c] = "running" /\ consumer[c] # "gone"
    /\ chatState' = [chatState EXCEPT ![c] = "cancelled"]
    /\ UNCHANGED <<follower, told, got, delivery, consumer, loop, asking, halted, meter>>

SearchDayTurns ==
    /\ searchedToday > 0 /\ searchedToday' = 0
    /\ UNCHANGED <<follower, told, got, delivery, consumer, loop, ledgerRow, searchReserved, elsewhere>>

\* Another chat of the key searches: the same reservation and the same settlement.
SearchElsewhere ==
    /\ \/ /\ SearchRoom
          /\ searchReserved' = searchReserved + 1 /\ elsewhere' = elsewhere + 1
          /\ UNCHANGED searchedToday
       \/ /\ elsewhere > 0
          /\ searchReserved' = searchReserved - 1 /\ elsewhere' = elsewhere - 1
          /\ searchedToday' \in {searchedToday, searchedToday + 1}
    /\ UNCHANGED <<follower, told, got, delivery, consumer, loop, ledgerRow>>

FollowerNext(c) == Route(c) \/ Follow(c) \/ TakeDelta(c) \/ PollState(c) \/ SeeDone(c) \/ Confirm(c) \/ Leave(c)
ConsumerNext(c) ==
    \/ Claim(c) \/ AwaitReady(c) \/ BeginStep(c) \/ Emit(c) \/ StreamEnds(c) \/ OpenTool(c) \/ SubmitImages(c)
    \/ ReserveSearch(c) \/ SettleSearch(c) \/ CloseTool(c) \/ Return(c) \/ FinishChat(c)
ChatNext ==
    \/ SearchDayTurns \/ SearchElsewhere
    \/ \E c \in Chats : FollowerNext(c) \/ ConsumerNext(c) \/ Unconfirmed(c) \/ FriendLeaves(c) \/ DeleteRun(c) \/ JoinExpires(c)

\* The request's goroutine goes on and the join bound passes; nothing is assumed of the
\* consumer, which may hang in a model call or a tool.
ChatFairness == \A c \in Chats : WF_chatVars(FollowerNext(c)) /\ WF_chatVars(JoinExpires(c))
ChatSpec == ChatInit /\ [][ChatNext]_chatVars /\ ChatFairness

----------------------------------------------------------------------------
(* Properties. *)

\* A friend told that the answer is complete has every delta of it, and the run is stored as
\* done: the consumer returns before its result is recorded and with deltas in the channel.
AnswerComplete == \A c \in Chats : told[c] = "done" => got[c] = emitted[c] /\ chatState[c] = "done"

\* The searches charged today and those under way never exceed the key's day limit, however
\* many chats search at once and whenever the day turns.
SearchCeiling == searchedToday + searchReserved <= SearchLimit

\* Every image batch has a step in its chat's record that was stored before it was submitted,
\* so no image exists that a restart or a refused record would leave unexplained.
SubmissionHasTrace == \A c \in Chats : batches[c] <= opened[c] /\ batches[c] <= MaxToolRounds

\* A chat whose friend has left, or has been answered, ends even when its consumer hangs:
\* nothing runs on for nobody.
ChatEnds == \A c \in Chats : (follower[c] = "leaving") ~> (chatState[c] \in Over)

\* What the friend is told and what the record says is what happened.
ChatIsFaithful == AnswerComplete /\ SubmissionHasTrace
=============================================================================
