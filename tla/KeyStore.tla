------------------------------ MODULE KeyStore ------------------------------
(***************************************************************************)
(* keys.json and everybody who writes it.  The host keeps a cached copy    *)
(* (internal/keys/store.go) that it re-reads when the file's stamp moved;  *)
(* the owner's `keys` commands (cmd/infercat/keys.go) either ask the       *)
(* running host over the admin socket or, when they found nobody there,    *)
(* change the file themselves and poke the host.  No lock spans processes: *)
(* a writer re-reads, computes and renames, and only then stats the file   *)
(* for the stamp it remembers.                                             *)
(*                                                                         *)
(* A stamp (modification time and size) is a counter of the file's         *)
(* versions: two versions never share one.  Secrets and limit values are   *)
(* represented by the command that chose them.                             *)
(***************************************************************************)
EXTENDS Naturals, FiniteSets

CONSTANTS
    Commands,     \* the `keys` command lines the owner runs, each once
    Keys,         \* key ids; the file starts with one of them
    FirstKey,
    First,        \* the owner of the values FirstKey was minted with
    Host,         \* the serving process, as the owner of a FileStore
    MaxStarts     \* bound on how often the host is started

ASSUME KeysAssumption ==
    /\ FirstKey \in Keys
    /\ Host \notin Commands /\ First \notin Commands /\ First # Host
    /\ MaxStarts \in Nat

VARIABLES
    file,     \* keys.json: its stamp and its keys
    host,     \* "down", "starting" (store open, socket not bound) or "up"
    starts,   \* how often the host was started
    cache,    \* each open FileStore: its keys, its stamp
    cmd,      \* each command: its stage, its verb, and what it read
    answer,   \* the last Lookup: the secret, what the file had, the verdict
    ghost     \* history: what each store's keys really are, who was overtaken

keyVars == <<file, host, starts, cache, cmd, answer, ghost>>

Fields == {"rpm", "daily"}
Statuses == {"active", "paused", "revoked"}
Adds == {"add", "addForced"}   \* `keys add`, and with --force
Verbs == Adds \cup {"pause", "resume", "revoke", "rotate", "limits"}
NewStatus == [pause |-> "paused", resume |-> "active", revoke |-> "revoked"]
Authors == Commands \cup {First}

\* A key as `keys add` mints it: every limit is chosen by the same command.
Minted(c) == [status |-> "active", secret |-> c, limits |-> [f \in Fields |-> c]]

\* The file, a store's snapshot: a function from the ids present to keys.
With(ks, k, v) == [j \in DOMAIN ks \cup {k} |-> IF j = k THEN v ELSE ks[j]]
Unrevoked(ks) == {k \in DOMAIN ks : ks[k].status # "revoked"}

KeyInit ==
    /\ file = [stamp |-> 1, keys |-> [k \in {FirstKey} |-> Minted(First)]]
    /\ host = "down"
    /\ starts = 0
    /\ cache = [s \in Commands \cup {Host} |-> [stamp |-> 0, keys |-> <<>>]]
    /\ cmd = [c \in Commands |->
                [at |-> "idle", verb |-> "add", via |-> "none", key |-> FirstKey, field |-> "rpm",
                 limits |-> [f \in Fields |-> First]]]
    /\ answer = [secret |-> First, held |-> TRUE, ok |-> TRUE]
    /\ ghost = [ver |-> [s \in Commands \cup {Host} |-> 0], wrote |-> [c \in Commands |-> 0],
                raced |-> [c \in Commands |-> FALSE], blind |-> 0, told |-> [c \in Commands |-> 0]]

----------------------------------------------------------------------------
(* The FileStore. *)

\* Mutant: a store that was loaded once is never read again.
LoadedOnceReloaded(s) == IF cache[s].stamp # 0 THEN cache[s] ELSE [stamp |-> file.stamp, keys |-> file.keys]

\* reload(force): re-read the file when its stamp is not the remembered one.
Reloaded(s) ==
    IF cache[s].stamp = file.stamp THEN cache[s] ELSE [stamp |-> file.stamp, keys |-> file.keys]
VerAfter(s) == IF cache[s].stamp = file.stamp THEN ghost.ver[s] ELSE file.stamp

\* reload(false) may also find the last check less than a second old.
MayReload(s) == {<<cache[s], ghost.ver[s]>>, <<Reloaded(s), VerAfter(s)>>}

\* index by name, with one name: the only live key that has it, else the only key.
Named(ks) ==
    CASE Cardinality(Unrevoked(ks)) = 1 -> Unrevoked(ks)
      [] Unrevoked(ks) = {} /\ Cardinality(DOMAIN ks) = 1 -> DOMAIN ks
      [] OTHER -> {}

\* Which FileStore carries out a command, and the commands the host's store is busy with.
StoreOf(c) == IF cmd[c].via = "host" THEN Host ELSE c
Mutating == {"loaded", "renamed"}
HostBusy == \E c \in Commands : cmd[c].via = "host" /\ cmd[c].at \in Mutating
Handling == {c \in Commands : cmd[c].via = "host" /\ cmd[c].at \in Mutating \cup {"accepted", "saved"}}

\* What a store operation makes of the key it is about.
AddKey(c, ks) == With(ks, cmd[c].key, Minted(c))
SetStatus(c, ks) == [ks EXCEPT ![cmd[c].key].status = NewStatus[cmd[c].verb]]
Rotate(c, ks) == [ks EXCEPT ![cmd[c].key].secret = c]
SetLimits(c, ks) == [ks EXCEPT ![cmd[c].key].limits = cmd[c].limits]
Changed(c, ks) ==
    CASE cmd[c].verb \in Adds -> AddKey(c, ks)
      [] cmd[c].verb \in DOMAIN NewStatus -> SetStatus(c, ks)
      [] cmd[c].verb = "rotate" -> Rotate(c, ks)
      [] cmd[c].verb = "limits" -> SetLimits(c, ks)

\* mutate, Add: reload past the throttle, then resolve the id (or find a free one).
BeginMutate(c) ==
    LET s == StoreOf(c)
        ks == Reloaded(s).keys
    IN  /\ cmd[c].at = IF s = Host THEN "accepted" ELSE "chosen"
        /\ s = Host => ~HostBusy
        /\ cache' = [cache EXCEPT ![s] = Reloaded(s)]
        /\ \/ /\ cmd[c].verb \notin Adds
              /\ cmd[c].key \in DOMAIN ks
              /\ cmd' = [cmd EXCEPT ![c].at = "loaded"]
           \/ /\ cmd[c].verb \in Adds
              /\ \E k \in Keys \ DOMAIN ks : cmd' = [cmd EXCEPT ![c].at = "loaded", ![c].key = k]
           \/ /\ IF cmd[c].verb \in Adds THEN Keys \subseteq DOMAIN ks ELSE cmd[c].key \notin DOMAIN ks
              /\ cmd' = [cmd EXCEPT ![c].at = "failed"]
        /\ ghost' = [ghost EXCEPT !.ver[s] = VerAfter(s),
                                  !.raced[c] = @ /\ cmd[c].verb = "limits"]
        /\ UNCHANGED <<file, host, starts, answer>>

\* save, up to the rename; who else is between its read and its rename is overtaken by it.
Rename(c) ==
    LET s == StoreOf(c)
        ks == Changed(c, cache[s].keys)
    IN  /\ cmd[c].at = "loaded"
        /\ file' = [stamp |-> file.stamp + 1, keys |-> ks]
        /\ cache' = [cache EXCEPT ![s].keys = ks]
        /\ cmd' = [cmd EXCEPT ![c].at = "renamed"]
        /\ ghost' = [ghost EXCEPT
             !.ver[s] = file.stamp + 1,
             !.wrote[c] = file.stamp + 1,
             !.raced = [d \in Commands |-> ghost.raced[d] \/ (d # c /\ cmd[d].at \in {"chosen", "accepted", "loaded"})],
             !.blind = IF s # Host /\ \E d \in Handling : cmd[d].at = "renamed" THEN file.stamp + 1 ELSE @]
        /\ UNCHANGED <<host, starts, answer>>

\* save fails before the rename: the snapshot goes back to what it was.
WriteFails(c) ==
    /\ cmd[c].at = "loaded"
    /\ cmd' = [cmd EXCEPT ![c].at = "failed"]
    /\ UNCHANGED <<file, host, starts, cache, answer, ghost>>

\* save, after the rename: remember whatever stamp the file has now.
StatAfterSave(c) ==
    LET s == StoreOf(c)
    IN  /\ cmd[c].at = "renamed"
        /\ cache' = [cache EXCEPT ![s].stamp = file.stamp]
        /\ cmd' = [cmd EXCEPT ![c].at = "saved"]
        /\ UNCHANGED <<file, host, starts, answer, ghost>>

\* A friend's request: Lookup, and on a miss once more past the throttle.
Lookup(sec) ==
    /\ host # "down" /\ ~HostBusy
    /\ \E r \in MayReload(Host) :
         LET has(ks) == \E k \in DOMAIN ks : ks[k].secret = sec
             hit == has(r[1].keys)
         IN  /\ cache' = [cache EXCEPT ![Host] = IF hit THEN r[1] ELSE Reloaded(Host)]
             /\ ghost' = [ghost EXCEPT !.ver[Host] = IF hit THEN r[2] ELSE VerAfter(Host)]
             /\ answer' = [secret |-> sec, held |-> has(file.keys), ok |-> hit \/ has(Reloaded(Host).keys)]
    /\ UNCHANGED <<file, host, starts, cmd>>

----------------------------------------------------------------------------
(* The owner's commands. *)

\* open: parse, resolve the data directory, NewFileStore.
Open(c) ==
    /\ cmd[c].at = "idle"
    /\ \E v \in Verbs, f \in Fields :
         /\ v # "limits" => f = "rpm"
         /\ cmd' = [cmd EXCEPT ![c].at = "opened", ![c].verb = v, ![c].field = f]
    /\ cache' = [cache EXCEPT ![c] = Reloaded(c)]
    /\ ghost' = [ghost EXCEPT !.ver[c] = VerAfter(c)]
    /\ UNCHANGED <<file, host, starts, answer>>

\* onlineClient: one read decides between the host and the file; a timeout or a
\* broken answer ends the command.
Probe(c) ==
    /\ cmd[c].at = "opened"
    /\ \/ /\ host = "up"
          /\ \E a \in {"probed", "failed"} : cmd' = [cmd EXCEPT ![c].at = a, ![c].via = "host"]
       \/ /\ host # "up"
          /\ cmd' = [cmd EXCEPT ![c].at = "probed", ![c].via = "file"]
    /\ UNCHANGED <<file, host, starts, cache, answer, ghost>>

\* refuseDuplicate: the name is taken by a key still in use, and --force was not given.
Duplicate(c, ks) == cmd[c].verb = "add" /\ Unrevoked(ks) # {}

\* The key a command is about, resolved by name; `limits` applies its flag to what it found.
Picks(c, k) == cmd' = [cmd EXCEPT ![c].at = "chosen", ![c].key = k]
KeysStatus(c, ks) == cmd[c].verb \in DOMAIN NewStatus /\ \E k \in Named(ks) : Picks(c, k)
KeysRotate(c, ks) == cmd[c].verb = "rotate" /\ \E k \in Named(ks) : Picks(c, k)
KeysLimits(c, ks) ==
    /\ cmd[c].verb = "limits"
    /\ \E k \in Named(ks) :
         cmd' = [cmd EXCEPT ![c].at = "chosen", ![c].key = k,
                            ![c].limits = [ks[k].limits EXCEPT ![cmd[c].field] = c]]
Found(c, ks) == KeysStatus(c, ks) \/ KeysRotate(c, ks) \/ KeysLimits(c, ks)
NotFound(c, ks) == cmd[c].verb \notin Adds /\ Named(ks) = {} /\ cmd' = [cmd EXCEPT ![c].at = "failed"]
\* `keys add` against the file checks for a duplicate first; over the socket the host does.
KeysAdd(c, ks) ==
    /\ cmd[c].verb \in Adds
    /\ cmd' = [cmd EXCEPT ![c].at = IF cmd[c].via = "file" /\ Duplicate(c, ks) THEN "failed" ELSE "chosen"]

ChooseOffline(c) ==
    /\ cmd[c].at = "probed" /\ cmd[c].via = "file"
    /\ \E r \in MayReload(c) :
         /\ cache' = [cache EXCEPT ![c] = r[1]]
         /\ ghost' = [ghost EXCEPT !.ver[c] = r[2], !.raced[c] = r[2] # file.stamp]
         /\ Found(c, r[1].keys) \/ NotFound(c, r[1].keys) \/ KeysAdd(c, r[1].keys)
    /\ UNCHANGED <<file, host, starts, answer>>

\* remoteKey reads the host's list.
ChooseOnline(c) ==
    /\ cmd[c].at = "probed" /\ cmd[c].via = "host"
    /\ host = "up" /\ ~HostBusy
    /\ \E r \in MayReload(Host) :
         /\ cache' = [cache EXCEPT ![Host] = r[1]]
         /\ ghost' = [ghost EXCEPT !.ver[Host] = r[2]]
         /\ Found(c, r[1].keys) \/ NotFound(c, r[1].keys) \/ KeysAdd(c, r[1].keys)
    /\ UNCHANGED <<file, host, starts, answer>>

\* The console routes: the duplicate check; readKey by id; the patch decoded over the
\* limits the (possibly second-old) snapshot holds.
PostKey(c, ks) == cmd[c].verb \in Adds /\ ~Duplicate(c, ks) /\ cmd' = [cmd EXCEPT ![c].at = "accepted"]
PostAction(c, ks) ==
    /\ cmd[c].verb \in DOMAIN NewStatus \cup {"rotate"}
    /\ cmd[c].key \in DOMAIN ks
    /\ cmd' = [cmd EXCEPT ![c].at = "accepted"]
PatchKey(c, ks) ==
    /\ cmd[c].verb = "limits"
    /\ cmd[c].key \in DOMAIN ks
    /\ cmd' = [cmd EXCEPT ![c].at = "accepted",
                          ![c].limits = [ks[cmd[c].key].limits EXCEPT ![cmd[c].field] = c]]
RouteRefuses(c, ks) ==
    /\ IF cmd[c].verb \in Adds THEN Duplicate(c, ks) ELSE cmd[c].key \notin DOMAIN ks
    /\ cmd' = [cmd EXCEPT ![c].at = "failed"]

\* One route at a time: consoleAPI's mutex covers the check and the store operation.
Accept(c) ==
    /\ cmd[c].at = "chosen" /\ cmd[c].via = "host"
    /\ host = "up" /\ Handling = {}
    /\ \E r \in MayReload(Host) :
         /\ cache' = [cache EXCEPT ![Host] = r[1]]
         /\ ghost' = [ghost EXCEPT !.ver[Host] = r[2], !.raced[c] = r[2] # file.stamp]
         /\ \/ PostKey(c, r[1].keys) \/ PostAction(c, r[1].keys)
            \/ PatchKey(c, r[1].keys) \/ RouteRefuses(c, r[1].keys)
    /\ UNCHANGED <<file, host, starts, answer>>

\* The owner answers no, or the request never reaches a host that has gone.
GiveUp(c) ==
    /\ \/ cmd[c].at = "chosen" /\ cmd[c].verb = "revoke"
       \/ cmd[c].at \in {"probed", "chosen"} /\ cmd[c].via = "host" /\ host # "up"
    /\ cmd' = [cmd EXCEPT ![c].at = "failed"]
    /\ UNCHANGED <<file, host, starts, cache, answer, ghost>>

\* The route's last act, store.Reload, and the reply, which may be lost.
Applied(c) ==
    /\ cmd[c].at = "saved" /\ cmd[c].via = "host"
    /\ cache' = [cache EXCEPT ![Host] = Reloaded(Host)]
    /\ \E a \in {"done", "failed"} : cmd' = [cmd EXCEPT ![c].at = a]
    /\ ghost' = [ghost EXCEPT !.ver[Host] = VerAfter(Host), !.told[c] = starts]
    /\ UNCHANGED <<file, host, starts, answer>>

\* Mutant: the change is left to the once-per-second re-read.
SilentPoke(c) ==
    /\ cmd[c].at = "saved" /\ cmd[c].via = "file"
    /\ cmd' = [cmd EXCEPT ![c].at = "done"]
    /\ ghost' = [ghost EXCEPT !.told[c] = IF host = "up" THEN starts ELSE @]
    /\ UNCHANGED <<file, host, starts, cache, answer>>

\* reloadHost: POST /reload, past the throttle; nobody there is not an error.
Poke(c) ==
    /\ cmd[c].at = "saved" /\ cmd[c].via = "file"
    /\ cmd' = [cmd EXCEPT ![c].at = "done"]
    /\ IF host = "up"
       THEN /\ ~HostBusy
            /\ cache' = [cache EXCEPT ![Host] = Reloaded(Host)]
            /\ ghost' = [ghost EXCEPT !.ver[Host] = VerAfter(Host), !.told[c] = starts]
       ELSE UNCHANGED <<cache, ghost>>
    /\ UNCHANGED <<file, host, starts, answer>>

----------------------------------------------------------------------------
(* The host. *)

\* serve opens its store some time before the admin socket answers.
HostLoads ==
    /\ host = "down" /\ starts < MaxStarts
    /\ host' = "starting"
    /\ starts' = starts + 1
    /\ cache' = [cache EXCEPT ![Host] = [stamp |-> file.stamp, keys |-> file.keys]]
    /\ ghost' = [ghost EXCEPT !.ver[Host] = file.stamp, !.blind = 0]
    /\ UNCHANGED <<file, cmd, answer>>
HostListens ==
    /\ host = "starting"
    /\ host' = "up"
    /\ UNCHANGED <<file, starts, cache, cmd, answer, ghost>>

\* A killed host takes its half-done requests with it; their callers see a broken connection.
HostDies ==
    /\ host # "down"
    /\ host' = "down"
    /\ cmd' = [c \in Commands |-> IF c \in Handling THEN [cmd[c] EXCEPT !.at = "failed"] ELSE cmd[c]]
    /\ UNCHANGED <<file, starts, cache, answer, ghost>>

KeyNext ==
    \/ \E c \in Commands : Open(c) \/ Probe(c) \/ ChooseOffline(c) \/ ChooseOnline(c)
    \/ \E c \in Commands : Accept(c) \/ GiveUp(c) \/ Applied(c) \/ Poke(c)
    \/ \E c \in Commands : BeginMutate(c) \/ Rename(c) \/ WriteFails(c) \/ StatAfterSave(c)
    \/ \E sec \in Authors : Lookup(sec)
    \/ HostLoads \/ HostListens \/ HostDies

KeySpec == KeyInit /\ [][KeyNext]_keyVars

----------------------------------------------------------------------------
(* Properties. *)

\* The stamp the host remembers is that of a version a direct writer renamed into place
\* between the host's own rename and its stat: the host's keys are older than its stamp
\* says, until the file's stamp moves again (see NoLiveSecretRefused).
HostMisled == ghost.blind = cache[Host].stamp

\* What a command is for: the field it sets, on the key it is about, and nothing else.
Intended(c, ks) ==
    IF cmd[c].verb = "limits"
    THEN [ks EXCEPT ![cmd[c].key].limits[cmd[c].field] = c]
    ELSE Changed(c, ks)

\* A rename of keys.json (save) carries every other command's change along: unless another
\* process renamed inside this writer's own read-to-rename window, or the writer is a host
\* with a misleading stamp, the new file is the old one with this command's field changed.
\* The wholesale SetLimits, the throttled snapshots and the stores opened long before the
\* write all have to go through mutate's forced reload for it.
KeepsOthersChanges ==
    [][\A c \in Commands :
         cmd[c].at = "loaded" /\ cmd'[c].at = "renamed" /\ ~ghost.raced[c] /\ (cmd[c].via = "host" => ~HostMisled)
           => file'.keys = Intended(c, file.keys)]_keyVars

\* "in force before the command returns" (Reload): once a command has returned, the host it
\* spoke to serves from that command's version of the file or a later one, unless it has a
\* misleading stamp.
InForceOnReturn ==
    \A c \in Commands :
      cmd[c].at = "done" /\ host # "down" /\ ghost.told[c] = starts /\ ~HostMisled
        => ghost.ver[Host] >= ghost.wrote[c]

\* Lookup's comment: a key just minted by another process never answers 401, since a miss
\* re-stats the file.  Violated: a direct write that lands between the host's rename and
\* its stat leaves the host with the new stamp and the old keys.
NoLiveSecretRefused == answer.held => answer.ok
=============================================================================
