------------------------------ MODULE AgentRun ------------------------------
(***************************************************************************)
(* An agent run (internal/agent/adapter.go, adapter_runtime.go, runtime.go *)
(* and the plugin assets/adapter.mjs): the run's consumer starts a child   *)
(* process in a workspace of its own and answers its frames, while a       *)
(* goroutine calls the model for it.  The child asks before every model    *)
(* call, tool and approval, and sends with each question the events since *)
(* the last one.  The child may hang or die, the store may refuse, the     *)
(* friend may cancel and the host may close,                               *)
(* each at any time; the consumer looks at its channels in any order.      *)
(***************************************************************************)
EXTENDS Naturals, Sequences, FiniteSets

CONSTANTS
    MaxAsks,   \* bound on the child's questions
    FrameCap   \* frames the session holds (256); a model call and its cancellation fit

ASSUME AgentAssumption == MaxAsks \in Nat /\ FrameCap \in Nat \ {0, 1}

VARIABLES
    host,       \* the consumer: start, wait, loop, join, approval, ending, closing, over
    stop,       \* why its context is cancelled: cancel, abort, close
    seen,       \* the loop has seen that
    failure,    \* the first failure it met
    callModel,  \* the model goroutine: idle, running, ok, failed
    turnLease,  \* who holds the run's lease in the store: none, host, step, final
    workspace,  \* the workspace exists
    lost,       \* session.lost is closed
    toHost, toChild,
    proc,       \* the child process: none, starting, healthy, dead
    turn,       \* the plugin: none, think, granted, tool, settled, or the question it waits for
    asks,       \* questions so far, which number them
    pend, made, \* events not yet sent, events so far
    spoilt,     \* run.failed in the plugin
    kept,       \* events in the run's record
    noted,      \* the one note after a cancel is spent
    ruling,    \* the stored approval: none, pending, allow, deny
    agentRow    \* Run.State: running, done, failed, cancelled

consumerVars == <<host, stop, seen, failure, callModel, turnLease, workspace>>
wireVars == <<lost, toHost, toChild>>
childVars == <<proc, turn, asks, pend, made, spoilt>>
recordVars == <<kept, noted, ruling, agentRow>>
agentVars == <<consumerVars, wireVars, childVars, recordVars>>

AgentInit ==
    /\ host = "start" /\ stop = {} /\ seen = FALSE /\ failure = FALSE
    /\ callModel = "idle" /\ turnLease = "none" /\ workspace = FALSE
    /\ lost = FALSE /\ toHost = <<>> /\ toChild = <<>>
    /\ proc = "none" /\ turn = "none" /\ asks = 0 /\ pend = 0 /\ made = 0 /\ spoilt = FALSE
    /\ kept = 0 /\ noted = FALSE /\ ruling = "none" /\ agentRow = "running"

Alive == proc \in {"starting", "healthy"}
Stopped == stop # {}
Frame(type, stage, id, n) == [type |-> type, stage |-> stage, id |-> id, n |-> n]
\* What the plugin does while a checkpoint of a stage is out.
Waits == [model |-> "ask_model", tool |-> "ask_tool", approval |-> "ask_approval"]

----------------------------------------------------------------------------
(* The child: the plugin, and the harness as it uses it. *)

\* What the reader does with a frame: a session that cannot take it is lost.
Told(fs) ==
    IF Len(toHost) + Len(fs) <= FrameCap THEN toHost' = toHost \o fs /\ UNCHANGED lost
    ELSE lost' = TRUE /\ UNCHANGED toHost

Ask(stage) ==
    /\ asks < MaxAsks
    /\ asks' = asks + 1 /\ pend' = 0
    /\ turn' = Waits[stage]
    /\ Told(<<Frame("checkpoint", stage, asks + 1, pend)>>)

\* Between two questions the harness records events, streams, and asks the next.
Think ==
    /\ Alive /\ turn = "think"
    /\ \/ \E s \in {"model", "tool"} : Ask(s) /\ UNCHANGED <<made, spoilt>>
       \/ /\ made < MaxAsks /\ made' = made + 1 /\ pend' = pend + 1
          /\ UNCHANGED <<lost, toHost, turn, asks, spoilt>>
       \/ Told(<<Frame("stream", "none", 0, 0)>>) /\ UNCHANGED <<turn, asks, pend, made, spoilt>>
    /\ UNCHANGED <<consumerVars, toChild, proc, recordVars>>

\* The turn ends, well or not; the plugin asks a last time, whatever the number of questions.
EndTurn ==
    /\ Alive /\ turn \in {"think", "granted"}
    /\ asks' = asks + 1 /\ pend' = 0 /\ turn' = "ask_terminal"
    /\ spoilt' \in {spoilt, TRUE}
    /\ Told((IF spoilt' THEN <<Frame("error", "none", 0, 0)>> ELSE <<>>) \o <<Frame("checkpoint", "terminal", asks + 1, pend)>>)
    /\ UNCHANGED <<consumerVars, toChild, proc, made, recordVars>>

\* The buffer of events is full: the event is dropped and the harness cancels the turn, a
\* model call included.
BufferFull ==
    /\ Alive /\ turn = "model"
    /\ spoilt' = TRUE /\ turn' = "think" /\ made' = made + 1
    /\ Told(<<Frame("model_cancel", "none", 0, 0)>>)
    /\ UNCHANGED <<consumerVars, toChild, proc, asks, pend, recordVars>>

\* A granted tool runs, or needs the owner's approval first.
RunTool ==
    /\ Alive /\ turn = "granted"
    /\ turn' = "tool"
    /\ UNCHANGED <<consumerVars, wireVars, proc, asks, pend, made, spoilt, recordVars>>
ChildAsks ==
    /\ Alive /\ turn = "granted"
    /\ \/ Ask("approval") /\ UNCHANGED spoilt
       \/ /\ Told(<<Frame("approval_error", "none", 0, 0)>>)
          /\ turn' = "think" /\ UNCHANGED <<asks, pend, spoilt>>
    /\ UNCHANGED <<consumerVars, toChild, proc, made, recordVars>>
ToolReturns ==
    /\ Alive /\ turn = "tool"
    /\ turn' = "think" /\ made' = made + 1 /\ pend' = pend + 1
    /\ UNCHANGED <<consumerVars, wireVars, proc, asks, spoilt, recordVars>>

\* Settled: the last frame of a run.
Settles == turn' = "settled" /\ Told(<<Frame("settled", IF spoilt' THEN "failed" ELSE "none", 0, 0)>>)

\* A message from the host.  Answers to a question the plugin no longer asks are ignored.
Hear ==
    /\ Alive /\ toChild # <<>>
    /\ toChild' = Tail(toChild)
    /\ LET msg == Head(toChild)
           answer == msg.type = "reply" /\ msg.id = asks
           good == msg.stage = "ok"
           Goes(t) == turn' = t /\ UNCHANGED <<asks, pend, spoilt, lost, toHost>>
       IN  CASE msg.type = "start" -> Goes("think")
             [] msg.type = "cancel" /\ turn \in {"none", "settled"} -> Goes(turn)
             [] msg.type = "cancel" /\ turn = "ask_terminal" ->
                  spoilt' = TRUE /\ Settles /\ UNCHANGED <<asks, pend>>
             [] msg.type = "cancel" /\ turn \notin {"none", "settled", "ask_terminal"} ->
                  /\ asks' = asks + 1 /\ pend' = 0 /\ turn' = "ask_terminal"
                  /\ Told((IF turn = "model" THEN <<Frame("model_cancel", "none", 0, 0)>> ELSE <<>>)
                          \o <<Frame("checkpoint", "terminal", asks + 1, pend)>>)
                  /\ spoilt' \in {spoilt, TRUE}
             [] answer /\ turn = "ask_terminal" ->
                  spoilt' = (spoilt \/ ~good) /\ Settles /\ UNCHANGED <<asks, pend>>
             [] answer /\ ~good /\ turn # "ask_terminal" -> Goes("think")
             [] answer /\ good /\ turn = "ask_tool" -> Goes("granted")
             [] answer /\ good /\ turn = "ask_model" ->
                  turn' = "model" /\ Told(<<Frame("model", "none", asks, 0)>>) /\ UNCHANGED <<asks, pend, spoilt>>
             [] answer /\ good /\ turn = "ask_approval" ->
                  /\ asks' = asks + 1 /\ turn' = "approval"
                  /\ Told(<<Frame("approval", "none", asks + 1, 0)>>) /\ UNCHANGED <<pend, spoilt>>
             [] answer /\ good /\ turn = "approval" -> Goes(IF msg.n = 1 THEN "tool" ELSE "think")
             [] msg.type = "result" /\ turn = "model" -> Goes("think")
             [] OTHER -> Goes(turn)
    /\ UNCHANGED <<consumerVars, proc, made, recordVars>>

----------------------------------------------------------------------------
(* The runtime: one generation of the process. *)

Healthy ==
    /\ proc = "starting" /\ proc' = "healthy"
    /\ UNCHANGED <<consumerVars, wireVars, turn, asks, pend, made, spoilt, recordVars>>

\* What a process takes with it.
Gone == proc' = "dead" /\ turn' = "none" /\ pend' = 0 /\ toChild' = <<>>

\* The process exits, fails its health checks, or breaks the protocol; it is joined, and onExit
\* tells the session, if there is one.
Dies ==
    /\ Alive /\ Gone
    /\ lost' = (lost \/ host \in {"loop", "join", "approval", "ending"})
    /\ UNCHANGED <<consumerVars, toHost, asks, made, spoilt, recordVars>>

----------------------------------------------------------------------------
(* The consumer. *)

\* A message to the child; a child that is dead or does not read fails the send.
Sent(msgs) == Alive /\ toChild' = toChild \o msgs
Reply(id, ok, allow) == <<Frame("reply", IF ok THEN "ok" ELSE "error", id, IF allow THEN 1 ELSE 0)>>
Unsent == UNCHANGED toChild
Returns == host' = "ending" /\ failure' = TRUE
\* Only the first failure aborts the run.
WorkFails == failure' = TRUE /\ stop' = IF failure THEN stop ELSE stop \cup {"abort"}

\* runtimeForRun and waitChild; then the session is entered and the run started.
Prepare ==
    /\ host = "start"
    /\ \/ host' = "wait" /\ workspace' = TRUE /\ proc' = "starting" /\ UNCHANGED failure
       \/ host' = "wait" /\ workspace' = TRUE /\ failure' = TRUE /\ UNCHANGED proc
       \/ host' = "over" /\ failure' = TRUE /\ UNCHANGED <<workspace, proc>>
    /\ UNCHANGED <<stop, seen, callModel, turnLease, wireVars, turn, asks, pend, made, spoilt, recordVars>>
WaitChild ==
    /\ host = "wait"
    /\ \/ /\ proc = "healthy" /\ ~failure
          /\ host' = "loop" /\ Sent(<<Frame("start", "none", 0, 0)>>) /\ UNCHANGED failure
       \/ (failure \/ proc = "dead" \/ Stopped) /\ Returns /\ Unsent
    /\ UNCHANGED <<stop, seen, callModel, turnLease, workspace, lost, toHost, childVars, recordVars>>

\* The context is done: the child is told to cancel, or stopped if it cannot be told.
LoopDone ==
    /\ host = "loop" /\ Stopped /\ ~seen
    /\ seen' = TRUE /\ failure' = TRUE
    /\ \/ Sent(<<Frame("cancel", "none", 0, 0)>>) /\ UNCHANGED <<proc, turn, pend, lost>>
       \/ Gone /\ lost' = TRUE
    /\ UNCHANGED <<host, stop, callModel, turnLease, workspace, toHost, asks, made, spoilt, recordVars>>
LoopLost ==
    /\ host = "loop" /\ lost
    /\ Returns
    /\ UNCHANGED <<stop, seen, callModel, turnLease, workspace, wireVars, childVars, recordVars>>

\* The model call has ended; its result goes to the child.
TakeModel(next) ==
    /\ callModel \in {"ok", "failed"} /\ callModel' = "idle"
    /\ \/ /\ Sent(<<Frame("result", "none", 0, 0)>>)
          /\ host' = next /\ failure' = (failure \/ callModel = "failed")
       \/ Unsent /\ Returns
    /\ UNCHANGED <<stop, seen, turnLease, workspace, lost, toHost, childVars, recordVars>>
LoopModel == host = "loop" /\ TakeModel("loop")

\* A checkpoint that finds a model call under way waits for it, and for nothing else.
Incoming(type) == host = "loop" /\ toHost # <<>> /\ Head(toHost).type = type
CheckpointJoins ==
    /\ Incoming("checkpoint") /\ callModel # "idle"
    /\ host' = "join"
    /\ UNCHANGED <<stop, seen, failure, callModel, turnLease, workspace, wireVars, childVars, recordVars>>
JoinModel == host = "join" /\ TakeModel("loop")

AtCheckpoint == Incoming("checkpoint") /\ callModel = "idle"
Taken == toHost' = Tail(toHost) /\ UNCHANGED lost

\* Once the context is done a checkpoint is refused; only the end of the turn may still be
\* noted, within the lease that is left or as the one note after a cancel.
CheckpointLate ==
    /\ AtCheckpoint /\ Stopped
    /\ LET f == Head(toHost)
           room == agentRow = "running" /\ IF "cancel" \in stop THEN ~noted ELSE turnLease # "none"
       IN  \E ok \in {FALSE} \cup (IF f.stage = "terminal" /\ room THEN {TRUE} ELSE {}) :
             /\ noted' = (noted \/ (ok /\ "cancel" \in stop))
             /\ \/ /\ Sent(Reply(f.id, ok, FALSE)) /\ failure' = (failure \/ ~ok)
                   /\ UNCHANGED host
                \/ Unsent /\ Returns
             /\ stop' = IF ok \/ failure THEN stop ELSE stop \cup {"abort"}
    /\ Taken
    /\ UNCHANGED <<seen, callModel, turnLease, workspace, childVars, kept, ruling, agentRow>>

\* The events are stored; a tool also needs an active key and room for its result.
CheckpointKept ==
    /\ AtCheckpoint /\ ~Stopped /\ agentRow = "running"
    /\ LET f == Head(toHost)
       IN  /\ kept' = kept + f.n
           /\ turnLease' = IF f.stage = "tool" THEN "host" ELSE "none"
           /\ \/ Sent(Reply(f.id, TRUE, FALSE)) /\ UNCHANGED <<host, failure>>
              \/ Unsent /\ Returns
    /\ Taken
    /\ UNCHANGED <<stop, seen, callModel, workspace, childVars, noted, ruling, agentRow>>

\* Mutant: a write that fails is answered as if it had succeeded.
CheckpointShrugged ==
    /\ AtCheckpoint /\ ~Stopped
    /\ Sent(Reply(Head(toHost).id, TRUE, FALSE))
    /\ Taken
    /\ UNCHANGED <<consumerVars, childVars, recordVars>>

\* The store refuses, before or after the events are in, or the key may no longer use tools.
CheckpointRefused ==
    /\ AtCheckpoint /\ ~Stopped
    /\ LET f == Head(toHost)
       IN  \E stored \in BOOLEAN :
             /\ kept' = IF stored THEN kept + f.n ELSE kept
             /\ turnLease' = IF stored THEN "none" ELSE turnLease
             /\ \/ Sent(Reply(f.id, FALSE, FALSE)) /\ UNCHANGED host /\ WorkFails
                \/ ~stored /\ Unsent /\ UNCHANGED host /\ WorkFails
                \/ stored /\ Unsent /\ Returns /\ UNCHANGED stop
    /\ Taken
    /\ UNCHANGED <<seen, callModel, workspace, childVars, noted, ruling, agentRow>>

\* A model call gives the consumer's lease up for one of its own; a second call is a conflict.
ModelFrame ==
    /\ Incoming("model")
    /\ IF callModel = "idle" THEN callModel' = "running" /\ turnLease' = "none" /\ UNCHANGED <<failure, stop>>
       ELSE turnLease' = (IF turnLease = "host" THEN "none" ELSE turnLease) /\ WorkFails /\ UNCHANGED callModel
    /\ Taken
    /\ UNCHANGED <<host, seen, workspace, toChild, childVars, recordVars>>

\* Mutant: a cancelled model call does not abort the run.
OtherFrameForgives ==
    /\ toHost # <<>> /\ host = "loop" /\ Head(toHost).type \in {"stream", "approval_error", "model_cancel", "error"}
    /\ failure' = (failure \/ Head(toHost).type = "error")
    /\ Taken
    /\ UNCHANGED <<host, stop, seen, callModel, turnLease, workspace, toChild, childVars, recordVars>>

\* Frames that only change the record's prose, or abort, or note a failure.
OtherFrame ==
    /\ \/ Incoming("stream") /\ (UNCHANGED <<failure, stop>> \/ (~Stopped /\ WorkFails))
       \/ Incoming("approval_error") /\ WorkFails
       \/ Incoming("model_cancel") /\ stop' = stop \cup {"abort"} /\ UNCHANGED failure
       \/ Incoming("error") /\ failure' = TRUE /\ UNCHANGED stop
    /\ Taken
    /\ UNCHANGED <<host, seen, callModel, turnLease, workspace, toChild, childVars, recordVars>>

\* The wish is recorded and the consumer waits for the stored answer, or tells the child why not.
ApprovalFrame ==
    /\ Incoming("approval")
    /\ LET f == Head(toHost)
       IN  \/ /\ agentRow = "running" /\ ~Stopped
             /\ host' = "approval" /\ ruling' = "pending" /\ turnLease' = "host"
             /\ UNCHANGED <<toHost, lost, toChild, failure, stop>>
          \/ /\ Taken /\ WorkFails
             /\ (Sent(Reply(f.id, FALSE, FALSE)) \/ Unsent)
             /\ UNCHANGED <<host, ruling, turnLease>>
    /\ UNCHANGED <<seen, callModel, workspace, childVars, kept, noted, agentRow>>
ApprovalEnds ==
    /\ host = "approval" /\ (ruling # "pending" \/ Stopped)
    /\ host' = "loop"
    /\ \E ok \in IF Stopped THEN {FALSE} ELSE BOOLEAN :
         /\ turnLease' = IF Stopped THEN "final" ELSE IF ok THEN "host" ELSE "none"
         /\ \/ Sent(Reply(Head(toHost).id, ok, ruling = "allow")) /\ IF ok \/ Stopped THEN UNCHANGED <<failure, stop>> ELSE WorkFails
            \/ Unsent /\ WorkFails
    /\ Taken
    /\ UNCHANGED <<seen, callModel, workspace, childVars, recordVars>>

SettledFrame ==
    /\ Incoming("settled")
    /\ host' = "ending" /\ failure' = (failure \/ Head(toHost).stage = "failed")
    /\ Taken
    /\ UNCHANGED <<stop, seen, callModel, turnLease, workspace, toChild, childVars, recordVars>>

\* Mutant: the model call is aborted and not waited for.
EndWorkUnjoined ==
    /\ host = "ending" /\ host' = "closing" /\ turnLease' = "none" /\ stop' = stop \cup {"abort"}
    /\ UNCHANGED <<callModel, seen, failure, workspace, wireVars, childVars, recordVars>>

\* The deferred calls: a model call is aborted and joined, the lease and the session given up.
EndWork ==
    /\ host = "ending"
    /\ IF callModel = "running" THEN stop' = stop \cup {"abort"} /\ UNCHANGED <<host, turnLease, callModel>>
       ELSE host' = "closing" /\ callModel' = "idle" /\ turnLease' = "none" /\ UNCHANGED stop
    /\ UNCHANGED <<seen, failure, workspace, wireVars, childVars, recordVars>>

\* cleanup: the child is joined, then its workspace removed.
CloseChild ==
    /\ host = "closing"
    /\ host' = "over" /\ Gone /\ workspace' = FALSE
    /\ UNCHANGED <<stop, seen, failure, callModel, turnLease, lost, toHost, asks, made, spoilt, recordVars>>

\* The manager records how the run ended.
FinishRun ==
    /\ host = "over" /\ agentRow = "running"
    /\ agentRow' = IF "cancel" \in stop THEN "cancelled" ELSE IF failure THEN "failed" ELSE "done"
    /\ UNCHANGED <<consumerVars, wireVars, childVars, kept, noted, ruling>>

----------------------------------------------------------------------------
(* Around it. *)

\* The attempt: refused, failed or answered; it ends when its context does.
ModelEnds ==
    /\ callModel = "running"
    /\ callModel' \in {"failed"} \cup (IF agentRow = "running" /\ "cancel" \notin stop THEN {"ok"} ELSE {})
    /\ turnLease' = IF callModel' = "ok" /\ Stopped THEN "final" ELSE "none"
    /\ UNCHANGED <<host, stop, seen, failure, workspace, wireVars, childVars, recordVars>>
CancelRun ==
    /\ agentRow = "running" /\ "cancel" \notin stop /\ host # "over"
    /\ stop' = stop \cup {"cancel"}
    /\ UNCHANGED <<host, seen, failure, callModel, turnLease, workspace, wireVars, childVars, recordVars>>
CloseHost ==
    /\ "close" \notin stop /\ host # "over"
    /\ stop' = stop \cup {"close"}
    /\ UNCHANGED <<host, seen, failure, callModel, turnLease, workspace, wireVars, childVars, recordVars>>
AnswerApproval ==
    /\ host = "approval" /\ ruling = "pending" /\ agentRow = "running" /\ "cancel" \notin stop
    /\ ruling' \in {"allow", "deny"}
    /\ UNCHANGED <<consumerVars, wireVars, childVars, kept, noted, agentRow>>

\* Mutant: only the run is recorded.
AgentJoinExpiresQuietly ==
    /\ Stopped /\ host \notin {"start", "wait", "over"} /\ agentRow = "running"
    /\ agentRow' = "cancelled"
    /\ UNCHANGED <<consumerVars, wireVars, childVars, kept, noted, ruling>>

\* The join bound passes: the generation of a session is stopped and the run recorded.  The
\* bound is seconds; before there is a session the context is polled every 20 milliseconds.
AgentJoinExpires ==
    /\ Stopped /\ host \notin {"start", "wait", "over"} /\ agentRow = "running"
    /\ IF host # "closing" /\ Alive THEN Gone /\ lost' = TRUE ELSE UNCHANGED <<proc, turn, pend, toChild, lost>>
    /\ agentRow' = "cancelled"
    /\ UNCHANGED <<consumerVars, toHost, asks, made, spoilt, kept, noted, ruling>>

AgentConsumerNext ==
    \/ Prepare \/ WaitChild \/ LoopDone \/ LoopLost \/ LoopModel \/ CheckpointJoins \/ JoinModel
    \/ CheckpointLate \/ CheckpointKept \/ CheckpointRefused \/ ModelFrame \/ OtherFrame \/ ApprovalFrame
    \/ ApprovalEnds \/ SettledFrame \/ EndWork \/ CloseChild \/ FinishRun
ChildNext == Think \/ EndTurn \/ BufferFull \/ RunTool \/ ChildAsks \/ ToolReturns \/ Hear
AgentNext ==
    AgentConsumerNext \/ ChildNext \/ Healthy \/ Dies \/ ModelEnds \/ CancelRun \/ CloseHost \/ AnswerApproval
    \/ AgentJoinExpires

\* The consumer's goroutine runs on, a model call ends with its context, the join bound passes.
\* Nothing is assumed of the child or of the owner.
AgentFairness ==
    WF_agentVars(AgentConsumerNext) /\ WF_agentVars(Stopped /\ ModelEnds) /\ WF_agentVars(AgentJoinExpires)
AgentSpec == AgentInit /\ [][AgentNext]_agentVars /\ AgentFairness

----------------------------------------------------------------------------
(* Properties. *)

\* Until a run has met its first failure (only that one aborts it), a tool runs only when
\* everything that led to it is in the run's record.
ToolIsAuthorized == turn = "tool" /\ ~failure => kept = made

\* A run recorded as done has every event of its child in its record, unless the host was
\* closing: the last frames may then be taken before the cancelled context is seen, and the
\* last checkpoint keeps only the end of the turn.
DoneKeepsAll == agentRow = "done" /\ "close" \notin stop => kept = made

\* When the consumer has returned, which is when the next agent run may start, its child is
\* joined, its model call has ended, and its workspace and lease are given up.
NothingOutlives == host = "over" => ~Alive /\ callModel # "running" /\ ~workspace /\ turnLease = "none"

\* A run whose context is cancelled ends, even if its child never answers.
CancelledRunEnds == Stopped ~> (host = "over")
=============================================================================
