--------------------------- MODULE RemoteConsole ---------------------------
(***************************************************************************)
(* The owner's console over the tunnel (internal/gateway/console.go) and   *)
(* the one bearer code that opens it (internal/adminkey/store.go).  A      *)
(* request checks that remote access is on, reserves a place in its peer's *)
(* failure budget before the code is hashed, takes a read or a write       *)
(* place, and is forwarded to the loopback admin API, which may itself     *)
(* turn remote access on, off or to a new code.  Codes are numbered in the *)
(* order they were minted; 0 is "off".                                     *)
(***************************************************************************)
EXTENDS Naturals, Sequences, FiniteSets

CONSTANTS
    Calls,        \* console requests, each made once
    Peers,        \* tunnel peers they come from
    MaxPeers,     \* peers the failure table remembers (4096)
    MaxFailures,  \* failures, and attempts under way, a peer may have in a minute (30)
    MaxReads, MaxWrites,      \* requests started in a minute (240, 20)
    ReadsAtOnce, WritesAtOnce,\* requests under way (6, 1)
    Minute,       \* ticks in a minute
    MaxTime,      \* bound on the clock
    MaxCodes      \* bound on the codes ever minted

ASSUME ConsoleAssumption ==
    /\ IsFiniteSet(Calls) /\ Peers # {}
    /\ {MaxPeers, MaxFailures, MaxReads, MaxWrites, ReadsAtOnce, WritesAtOnce, Minute} \subseteq Nat \ {0}
    /\ MaxTime \in Nat /\ MaxCodes \in Nat

VARIABLES
    clock,
    code,      \* the code in memory, in admin.json, the last one minted, the last one shown and
               \* neither taken back nor reported lost
    peerFailures,  \* per remembered peer: when it was last touched, its failures, attempts under way
    budget,    \* reads and writes: start times of the last minute, requests under way
    call,      \* each request
    refusals   \* history: per peer, the times of its failed authentications

consoleVars == <<clock, code, peerFailures, budget, call, refusals>>

Kinds == {"read", "write"}
Stages == {"idle", "reserved", "admitted", "forwarded", "done"}

ConsoleInit ==
    /\ clock = 0
    /\ code = [live |-> 1, file |-> 1, minted |-> 1, shown |-> 1]
    /\ peerFailures = <<>>
    /\ budget = [k \in Kinds |-> [starts |-> <<>>, active |-> 0]]
    /\ call = [c \in Calls |-> [at |-> "idle", peer |-> CHOOSE p \in Peers : TRUE, code |-> 0, kind |-> "read"]]
    /\ refusals = [p \in Peers |-> <<>>]

\* The starts and the failures that lead their list and are a minute old go; the rest stay.
Stale(ts) == CHOOSE n \in 0..Len(ts) : /\ \A i \in 1..n : clock - ts[i] >= Minute
                                       /\ n < Len(ts) => clock - ts[n + 1] < Minute
Recent(ts) == SubSeq(ts, Stale(ts) + 1, Len(ts))

----------------------------------------------------------------------------
(* Requests. *)

\* Mutant: the sweep forgets peers that have an attempt under way.
ForgetfulSwept ==
    LET kept == {p \in DOMAIN peerFailures : clock - peerFailures[p].started < Minute}
    IN  [p \in kept |-> peerFailures[p]]

\* The sweep at every reservation: a peer with nothing under way and nothing for a minute goes.
Swept ==
    LET kept == {p \in DOMAIN peerFailures : peerFailures[p].active > 0 \/ clock - peerFailures[p].started < Minute}
    IN  [p \in kept |-> peerFailures[p]]

\* reserveAuthentication: the peer's entry after the sweep and its own pruning.
Entry(p) ==
    IF p \in DOMAIN Swept THEN [Swept[p] EXCEPT !.failed = Recent(@)]
    ELSE [started |-> clock, failed |-> <<>>, active |-> 0]
Room(p) ==
    /\ p \in DOMAIN Swept \/ Cardinality(DOMAIN Swept) < MaxPeers
    /\ Len(Entry(p).failed) + Entry(p).active < MaxFailures
Put(f, p, e) == [q \in DOMAIN f \cup {p} |-> IF q = p THEN e ELSE f[q]]

Ends(c) == call' = [call EXCEPT ![c].at = "done"]

\* ServeHTTP up to the reservation: 404 when remote access is off, 429 when there is no room.
Arrive(c) ==
    /\ call[c].at = "idle"
    /\ \E p \in Peers, k \in Kinds, n \in 0 .. code.minted :
         IF code.live # 0 /\ Room(p)
         THEN /\ peerFailures' = Put(Swept, p, [Entry(p) EXCEPT !.active = @ + 1])
              /\ call' = [call EXCEPT ![c] = [at |-> "reserved", peer |-> p, code |-> n, kind |-> k]]
         ELSE /\ peerFailures' = IF code.live = 0 THEN peerFailures
                             ELSE IF p \in DOMAIN Swept THEN Put(Swept, p, Entry(p)) ELSE Swept
              /\ Ends(c)
    /\ UNCHANGED <<clock, code, budget, refusals>>

\* Authenticate and finish: success refunds the reservation, failure keeps it for a minute.
\* The entry belongs to the reservation; had the table lost it, finish would write to an orphan.
Authenticate(c) ==
    LET p == call[c].peer
        valid == code.live # 0 /\ call[c].code = code.live
        done(e) == IF valid THEN [e EXCEPT !.active = @ - 1]
                   ELSE [started |-> clock, failed |-> Append(e.failed, clock), active |-> e.active - 1]
    IN  /\ call[c].at = "reserved"
        /\ peerFailures' = IF p \in DOMAIN peerFailures /\ peerFailures[p].active > 0
                           THEN [peerFailures EXCEPT ![p] = done(@)] ELSE peerFailures
        /\ refusals' = IF valid THEN refusals ELSE [refusals EXCEPT ![p] = Append(@, clock)]
        /\ call' = [call EXCEPT ![c].at = IF valid THEN "admitted" ELSE "done"]
        /\ UNCHANGED <<clock, code, budget>>

\* acquire: at most so many started in a minute, at most so many at once.
ConsoleAcquire(c) ==
    LET k == call[c].kind
        starts == Recent(budget[k].starts)
        free == /\ Len(starts) < (IF k = "read" THEN MaxReads ELSE MaxWrites)
                /\ budget[k].active < (IF k = "read" THEN ReadsAtOnce ELSE WritesAtOnce)
    IN  /\ call[c].at = "admitted"
        /\ budget' = [budget EXCEPT ![k] = IF free THEN [starts |-> Append(starts, clock), active |-> @.active + 1]
                                           ELSE [@ EXCEPT !.starts = starts]]
        /\ call' = [call EXCEPT ![c].at = IF free THEN "forwarded" ELSE "done"]
        /\ UNCHANGED <<clock, code, peerFailures, refusals>>

\* The deferred release, however the forwarded request ended.
ConsoleRelease(c) == budget' = [budget EXCEPT ![call[c].kind].active = @ - 1]

\* A path that is not the console's, a body too long, a query not relayed, a dead listener,
\* or a route that changes no code.
Forward(c) ==
    /\ call[c].at = "forwarded"
    /\ ConsoleRelease(c) /\ Ends(c)
    /\ UNCHANGED <<clock, code, peerFailures, refusals>>

----------------------------------------------------------------------------
(* remoteAction: POST /remote/enable, rotate, off.  Owner's own calls come over *)
(* the socket (c is a member of Calls only when it came over the tunnel).       *)

\* Mint: enable only when remote access is off, rotate only when it is on; write, then remember
\* and show.
Mint(rotate) ==
    /\ (code.live # 0) = rotate /\ code.minted < MaxCodes
    /\ LET n == code.minted + 1
       IN  code' = [live |-> n, file |-> n, minted |-> n, shown |-> n]

Disable ==
    code' = [live |-> 0, file |-> 0, minted |-> code.minted, shown |-> 0]

\* The file goes first: a Mint that is refused or cannot write it, and a Disable that cannot remove
\* it, change nothing.
RemoteAction == Disable \/ (\E rotate \in BOOLEAN : Mint(rotate)) \/ UNCHANGED code

\* The owner at the machine; and a remote write that is one of the three routes.
OwnerActs ==
    /\ RemoteAction
    /\ UNCHANGED <<clock, peerFailures, budget, call, refusals>>
ForwardRemoteAction(c) ==
    /\ call[c].at = "forwarded" /\ call[c].kind = "write"
    /\ RemoteAction
    /\ ConsoleRelease(c) /\ Ends(c)
    /\ UNCHANGED <<clock, peerFailures, refusals>>

\* The host restarts: Open reads admin.json; tables and requests are gone.  A kill between
\* Mint's rename and its reply leaves a code nobody was shown.  A file that cannot be read now is
\* left as it is: remote access is off, and the host says so.
Restart ==
    /\ \E n \in {code.file} \cup (IF code.minted < MaxCodes THEN {code.minted + 1} ELSE {}),
          readable \in BOOLEAN :
         code' = [live |-> IF readable THEN n ELSE 0, file |-> n,
                  minted |-> IF n > code.minted THEN n ELSE code.minted,
                  shown |-> IF readable /\ n = code.file THEN code.shown ELSE 0]
    /\ peerFailures' = <<>>
    /\ budget' = [k \in Kinds |-> [starts |-> <<>>, active |-> 0]]
    /\ call' = [c \in Calls |-> IF call[c].at = "idle" THEN call[c] ELSE [call[c] EXCEPT !.at = "done"]]
    /\ refusals' = [p \in Peers |-> <<>>]
    /\ UNCHANGED clock

Tick ==
    /\ clock < MaxTime
    /\ clock' = clock + 1
    /\ UNCHANGED <<code, peerFailures, budget, call, refusals>>

ConsoleNext ==
    \/ \E c \in Calls : Arrive(c) \/ Authenticate(c) \/ ConsoleAcquire(c) \/ Forward(c) \/ ForwardRemoteAction(c)
    \/ OwnerActs \/ Restart \/ Tick

ConsoleSpec == ConsoleInit /\ [][ConsoleNext]_consoleVars

----------------------------------------------------------------------------
(* Properties. *)

\* Within any minute a peer's failed authentications stay within its budget, attempts that
\* are being hashed when the minute turns and sweeps made for other peers included.
FailureCeiling ==
    \A p \in Peers : Cardinality({i \in DOMAIN refusals[p] : clock - refusals[p][i] < Minute}) <= MaxFailures

\* The code the owner was last shown opens the console until it is rotated, turned off, lost with
\* a kill in mid-rotation, or reported lost at a start with a damaged admin.json: a Mint whose write
\* fails and a Disable that cannot remove the file leave it in force.
ShownCodeWorks == code.shown # 0 => code.live = code.shown

\* The console opens to the code its owner was shown, and no peer may go on guessing it.
ConsoleGuarded == FailureCeiling /\ ShownCodeWorks
=============================================================================
