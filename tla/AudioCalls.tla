----------------------------- MODULE AudioCalls -----------------------------
(***************************************************************************)
(* Speech and transcription of one key (internal/gateway/audio.go).  A     *)
(* call reserves characters or seconds against its class's day, is sent,   *)
(* and is settled once by finish.  Speech costs what it reserved, and only *)
(* when it was served or the listener left in the middle of it;            *)
(* transcription costs what the engine measured, else what it reserved.    *)
(***************************************************************************)
EXTENDS Naturals, FiniteSets, Functions

CONSTANTS
    Voices, Notes,  \* calls of speech and of transcription
    Amounts,        \* characters or seconds a call may reserve
    Measures,       \* seconds an engine may report
    VoiceDay, NoteDay   \* the key's day of each class; zero is no limit

ASSUME AudioAssumption ==
    /\ Amounts \cup Measures \cup {VoiceDay, NoteDay} \subseteq Nat
    /\ IsFiniteSet(Voices) /\ IsFiniteSet(Notes) /\ Voices \cap Notes = {}

Audio == Voices \cup Notes

VARIABLES
    call,      \* where each call is in proxyAudio and finish
    held,      \* admission.speechChars, admission.audioSeconds: what it reserved
    written,   \* calls whose headers the engine was sent
    heard,     \* audioRequest.delivered
    left,      \* calls whose friend has gone
    result,    \* request.outcome, and "left" for a cut made by the client
    cost,      \* what each call was charged
    counted,   \* calls in today's meters
    unreadable \* audioHistoryErr: usage.jsonl could not be replayed in full

audioVars == <<call, held, written, heard, left, result, cost, counted, unreadable>>

AudioInit ==
    /\ call = [r \in Audio |-> "new"] /\ held = [r \in Audio |-> 0] /\ cost = held
    /\ written = {} /\ heard = {} /\ left = {} /\ counted = {} /\ unreadable \in BOOLEAN
    /\ result = [r \in Audio |-> "none"]

Total(f, S) == FoldFunctionOnSet(LAMBDA a, b : a + b, 0, f, S)
Class(r) == IF r \in Voices THEN Voices ELSE Notes
DayLimit(r) == IF r \in Voices THEN VoiceDay ELSE NoteDay
Reserving(C) == {r \in C : call[r] \in {"queue", "call", "relay", "settle"}}

Moves(r, to) == call' = [call EXCEPT ![r] = to] /\ UNCHANGED result
Fails(r, o) == call' = [call EXCEPT ![r] = "settle"] /\ result' = [result EXCEPT ![r] = o]

\* audioHealth refuses without taking anything; admitKey and readAudio settle what they took.
AudioArrives(r) ==
    /\ call[r] = "new"
    /\ \/ ~unreadable /\ Moves(r, "reserve")
       \/ ~unreadable /\ Fails(r, "rejected")
       \/ Moves(r, "over")
    /\ UNCHANGED <<held, written, heard, left, cost, counted, unreadable>>

\* Mutant: a call is checked against what was charged only.
RoomCharged(r, need) == DayLimit(r) = 0 \/ Total(cost, counted \cap Class(r)) + need <= DayLimit(r)
\* The charges of today and the live reservations of the class.
RoomFor(r, need) ==
    DayLimit(r) = 0
    \/ Total(cost, counted \cap Class(r)) + Total(held, Reserving(Class(r))) + need <= DayLimit(r)

ReserveAudio(r) ==
    /\ call[r] = "reserve"
    /\ \E need \in Amounts :
         \/ RoomFor(r, need) /\ held' = [held EXCEPT ![r] = need] /\ Moves(r, "queue")
         \/ ~RoomFor(r, need) /\ Fails(r, "rejected") /\ UNCHANGED held
    /\ UNCHANGED <<written, heard, left, cost, counted, unreadable>>

AudioSlot(r) ==
    /\ call[r] = "queue"
    /\ Moves(r, "call") \/ Fails(r, "queue_lost")
    /\ UNCHANGED <<held, written, heard, left, cost, counted, unreadable>>

\* An error of Do may come before or after the headers were written.
CallAudio(r) ==
    /\ call[r] = "call"
    /\ \/ Moves(r, "relay") /\ written' = written \cup {r}
       \/ Fails(r, IF r \in left THEN "cut" ELSE "engine_err") /\ written' \in {written, written \cup {r}}
    /\ UNCHANGED <<held, heard, left, cost, counted, unreadable>>

\* A response that ends early, an error status or a result that is no transcription, a friend who
\* cannot be written to, or the text.
RelayText(r) ==
    /\ call[r] = "relay"
    /\ Fails(r, "engine_err") \/ Fails(r, "cut") \/ (r \in Notes /\ Fails(r, "served"))
    /\ UNCHANGED <<held, written, heard, left, cost, counted, unreadable>>

\* Speech is passed on as it comes; a write or a flush that fails is the client's cut, and so is a
\* read that fails after the client has gone, if the engine's idle timer has not fired.
RelaySpeech(r) ==
    /\ call[r] = "relay" /\ r \in Voices
    /\ \/ heard' = heard \cup {r} /\ UNCHANGED <<call, result>>
       \/ heard' \in {heard, heard \cup {r}} /\ Fails(r, "left")
       \/ UNCHANGED heard /\ Fails(r, "served")
       \/ UNCHANGED heard /\ Fails(r, "cut")
       \/ r \in left /\ UNCHANGED heard /\ Fails(r, "left")
    /\ UNCHANGED <<held, written, left, cost, counted, unreadable>>

\* What settleAudio charges: an engine's duration counts only in a whole response to a friend who
\* is still there.
AudioCosts(r) ==
    IF r \notin written THEN {0}
    ELSE IF r \in Voices
         THEN {IF result[r] = "served" \/ (result[r] = "left" /\ r \in heard) THEN held[r] ELSE 0}
         ELSE {held[r]} \cup (IF result[r] = "cut" \/ r \in left THEN {} ELSE Measures)

SettleAudio(r) ==
    /\ call[r] = "settle" /\ call' = [call EXCEPT ![r] = "over"]
    /\ \E c \in AudioCosts(r) : cost' = [cost EXCEPT ![r] = c]
    /\ counted' = counted \cup {r}
    /\ UNCHANGED <<held, written, heard, left, result, unreadable>>

ListenerLeaves(r) ==
    /\ call[r] \in {"queue", "call", "relay", "settle"} /\ r \notin left /\ left' = left \cup {r}
    /\ UNCHANGED <<call, held, written, heard, result, cost, counted, unreadable>>

\* prune at midnight: the meters start over, the reservations stay.
AudioDayTurns ==
    /\ counted # {} /\ counted' = {}
    /\ UNCHANGED <<call, held, written, heard, left, result, cost, unreadable>>

\* The host is killed and seeds the meters from what reached usage.jsonl; a malformed row there
\* makes it refuse audio altogether.
AudioRestarts ==
    /\ counted' \in SUBSET counted /\ unreadable' \in {unreadable, TRUE}
    /\ call' = [r \in Audio |-> IF call[r] = "new" THEN "new" ELSE "over"]
    /\ UNCHANGED <<held, written, heard, left, result, cost>>

\* Calls of the class C; the two classes share no meter.
AudioNext(C) ==
    \/ \E r \in C : \/ AudioArrives(r) \/ ReserveAudio(r) \/ AudioSlot(r) \/ CallAudio(r)
                    \/ RelayText(r) \/ RelaySpeech(r) \/ SettleAudio(r) \/ ListenerLeaves(r)
    \/ AudioDayTurns \/ AudioRestarts

AudioSpec == AudioInit /\ [][AudioNext(Voices) \/ AudioNext(Notes)]_audioVars

----------------------------------------------------------------------------

\* docs/LIMITS.md on audio budgets: parallel calls never reserve the same remaining capacity, so
\* charges and reservations of a day stay within it but for what an engine measured beyond a
\* reservation.  And as docs/ARCHITECTURE.md has it of speech, "upstream failures and pre-audio
\* client cuts" are not charged: a call that was never sent, or speech that failed before a sound
\* of it was passed on, costs nothing.  (docs/LIMITS.md has dispatched speech charged even when it
\* is interrupted; settleAudio does not, and neither does this property.)
Beyond(r) == IF cost[r] > held[r] THEN cost[r] - held[r] ELSE 0
AudioDayHolds ==
    /\ \A C \in {Voices, Notes} : \A r \in C : DayLimit(r) > 0 =>
         Total(cost, counted \cap C) + Total(held, Reserving(C))
           <= DayLimit(r) + Total([x \in Audio |-> Beyond(x)], counted \cap C)
    /\ \A r \in Audio : cost[r] > 0 =>
         /\ r \in written
         /\ r \in Voices => cost[r] = held[r] /\ (result[r] = "served" \/ r \in heard)
=============================================================================
