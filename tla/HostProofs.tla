----------------------------- MODULE HostProofs -----------------------------
(***************************************************************************)
(* Theorems about the parts of the host around its pipeline, which share   *)
(* no state: keys.json and its writers, the engines it starts, setup, and  *)
(* the owner's console.                                                    *)
(***************************************************************************)
EXTENDS KeyStore, ManagedMember, ProfileSetup, RemoteConsole, SumProofs, SequenceTheorems

(***************************************************************************)
(* keys.json, for any number of commands, keys and starts of the host.     *)
(* What holds all the time (KeyInv) is about versions: how new the keys of *)
(* a store really are, against the stamp it remembers; what a command has  *)
(* read, against the file it will replace.                                 *)
(***************************************************************************)

\* Whoever keeps a copy of the file.
Stores == Commands \cup {Host}

\* A command's record, with its fields.
IsLine(m, a, vb, vi, k, f, l) == m = [at |-> a, verb |-> vb, via |-> vi, key |-> k, field |-> f, limits |-> l]

\* The records and functions of the state.
KeyTypeOK ==
    /\ file = [stamp |-> file.stamp, keys |-> file.keys] /\ file.stamp \in Nat
    /\ starts \in Nat
    /\ cache = [s \in Stores |-> cache[s]]
    /\ \A s \in Stores : cache[s] = [stamp |-> cache[s].stamp, keys |-> cache[s].keys] /\ cache[s].stamp \in Nat
    /\ cmd = [c \in Commands |-> cmd[c]]
    /\ \A c \in Commands : IsLine(cmd[c], cmd[c].at, cmd[c].verb, cmd[c].via, cmd[c].key, cmd[c].field, cmd[c].limits)
    /\ ghost = [ver |-> ghost.ver, wrote |-> ghost.wrote, raced |-> ghost.raced, blind |-> ghost.blind, told |-> ghost.told]
    /\ ghost.ver \in [Stores -> Nat] /\ ghost.wrote \in [Commands -> Nat] /\ ghost.raced \in [Commands -> BOOLEAN]
    /\ ghost.blind \in Nat /\ ghost.told \in [Commands -> Nat]

\* Versions only grow, and a store that really has the file's version has its keys.
VersionsOK ==
    /\ \A s \in Stores : /\ cache[s].stamp <= file.stamp /\ ghost.ver[s] <= file.stamp
                         /\ ghost.ver[s] = file.stamp => cache[s].keys = file.keys
    /\ \A c \in Commands : ghost.wrote[c] <= file.stamp /\ ghost.told[c] <= starts

\* A remembered stamp that is the file's is the version of the keys, but for a command that
\* has renamed (it reads no more) and for a misled host.
StampsOK ==
    /\ \A c \in Commands : cmd[c].at \notin {"renamed", "saved", "done", "failed"} /\ cache[c].stamp = file.stamp
                             => ghost.ver[c] = file.stamp
    /\ cache[Host].stamp = file.stamp /\ ghost.blind # file.stamp => ghost.ver[Host] = file.stamp

\* One route at a time, and what the host knows while it works on one.
HostOK ==
    /\ \A c, d \in Handling : c = d
    /\ host # "down" => starts # 0
    /\ \A c \in Handling : cmd[c].at = "renamed" =>
         /\ ghost.blind # file.stamp => ghost.ver[Host] = file.stamp
         /\ \A d \in Commands : cmd[d].at = "done" /\ host # "down" /\ ghost.told[d] = starts => ghost.ver[Host] >= ghost.wrote[d]

\* What a command that nobody overtook has read is what the file has.
HasRead(c) == cmd[c].at \in {"accepted", "loaded"} \/ (cmd[c].at = "chosen" /\ cmd[c].via # "host")
ReadsOK ==
    \A c \in Commands :
      /\ cmd[c].at \notin {"done", "failed"} => ghost.told[c] = 0
      /\ cmd[c].at = "loaded" /\ ~ghost.raced[c] /\ (cmd[c].via = "host" => ~HostMisled)
           => ghost.ver[StoreOf(c)] = file.stamp
      /\ HasRead(c) /\ cmd[c].verb = "limits" /\ ~ghost.raced[c]
           => cmd[c].limits = [file.keys[cmd[c].key].limits EXCEPT ![cmd[c].field] = c]

KeyInv == KeyTypeOK /\ VersionsOK /\ StampsOK /\ HostOK /\ ReadsOK /\ InForceOnReturn

\* What the fields of such a record are.
LEMMA LineFields ==
    ASSUME NEW m, NEW a, NEW vb, NEW vi, NEW k, NEW f, NEW l, IsLine(m, a, vb, vi, k, f, l)
    PROVE  m.at = a /\ m.verb = vb /\ m.via = vi /\ m.key = k /\ m.field = f /\ m.limits = l
BY DEF IsLine

\* G is F with another record for c.
Puts(G, F, c, a, vb, vi, k, f, l) ==
    /\ G = [d \in Commands |-> G[d]]
    /\ \A d \in Commands \ {c} : G[d] = F[d]
    /\ IsLine(G[c], a, vb, vi, k, f, l)

\* A change of the field at.
LEMMA PutAt ==
    ASSUME NEW F, NEW G, NEW c \in Commands, NEW a, NEW vb, NEW vi, NEW k, NEW f, NEW l, NEW x,
           F = [d \in Commands |-> F[d]], IsLine(F[c], a, vb, vi, k, f, l), G = [F EXCEPT ![c].at = x]
    PROVE  Puts(G, F, c, x, vb, vi, k, f, l)
<1>1. PICK m : m = F[c]
  OBVIOUS
<1>2. PICK n : n = [m EXCEPT !.at = x]
  OBVIOUS
<1>3. G = [F EXCEPT ![c] = n]
  BY <1>1, <1>2
<1>4. G[c] = n /\ (\A d \in Commands \ {c} : G[d] = F[d]) /\ G = [d \in Commands |-> G[d]]
  BY <1>3
<1>5. IsLine(n, x, vb, vi, k, f, l)
  BY <1>1, <1>2 DEF IsLine
<1> QED
  BY <1>4, <1>5 DEF Puts

\* A change of the field verb.
LEMMA PutVerb ==
    ASSUME NEW F, NEW G, NEW c \in Commands, NEW a, NEW vb, NEW vi, NEW k, NEW f, NEW l, NEW x,
           F = [d \in Commands |-> F[d]], IsLine(F[c], a, vb, vi, k, f, l), G = [F EXCEPT ![c].verb = x]
    PROVE  Puts(G, F, c, a, x, vi, k, f, l)
<1>1. PICK m : m = F[c]
  OBVIOUS
<1>2. PICK n : n = [m EXCEPT !.verb = x]
  OBVIOUS
<1>3. G = [F EXCEPT ![c] = n]
  BY <1>1, <1>2
<1>4. G[c] = n /\ (\A d \in Commands \ {c} : G[d] = F[d]) /\ G = [d \in Commands |-> G[d]]
  BY <1>3
<1>5. IsLine(n, a, x, vi, k, f, l)
  BY <1>1, <1>2 DEF IsLine
<1> QED
  BY <1>4, <1>5 DEF Puts

\* A change of the field via.
LEMMA PutVia ==
    ASSUME NEW F, NEW G, NEW c \in Commands, NEW a, NEW vb, NEW vi, NEW k, NEW f, NEW l, NEW x,
           F = [d \in Commands |-> F[d]], IsLine(F[c], a, vb, vi, k, f, l), G = [F EXCEPT ![c].via = x]
    PROVE  Puts(G, F, c, a, vb, x, k, f, l)
<1>1. PICK m : m = F[c]
  OBVIOUS
<1>2. PICK n : n = [m EXCEPT !.via = x]
  OBVIOUS
<1>3. G = [F EXCEPT ![c] = n]
  BY <1>1, <1>2
<1>4. G[c] = n /\ (\A d \in Commands \ {c} : G[d] = F[d]) /\ G = [d \in Commands |-> G[d]]
  BY <1>3
<1>5. IsLine(n, a, vb, x, k, f, l)
  BY <1>1, <1>2 DEF IsLine
<1> QED
  BY <1>4, <1>5 DEF Puts

\* A change of the field key.
LEMMA PutKey ==
    ASSUME NEW F, NEW G, NEW c \in Commands, NEW a, NEW vb, NEW vi, NEW k, NEW f, NEW l, NEW x,
           F = [d \in Commands |-> F[d]], IsLine(F[c], a, vb, vi, k, f, l), G = [F EXCEPT ![c].key = x]
    PROVE  Puts(G, F, c, a, vb, vi, x, f, l)
<1>1. PICK m : m = F[c]
  OBVIOUS
<1>2. PICK n : n = [m EXCEPT !.key = x]
  OBVIOUS
<1>3. G = [F EXCEPT ![c] = n]
  BY <1>1, <1>2
<1>4. G[c] = n /\ (\A d \in Commands \ {c} : G[d] = F[d]) /\ G = [d \in Commands |-> G[d]]
  BY <1>3
<1>5. IsLine(n, a, vb, vi, x, f, l)
  BY <1>1, <1>2 DEF IsLine
<1> QED
  BY <1>4, <1>5 DEF Puts

\* A change of the field field.
LEMMA PutField ==
    ASSUME NEW F, NEW G, NEW c \in Commands, NEW a, NEW vb, NEW vi, NEW k, NEW f, NEW l, NEW x,
           F = [d \in Commands |-> F[d]], IsLine(F[c], a, vb, vi, k, f, l), G = [F EXCEPT ![c].field = x]
    PROVE  Puts(G, F, c, a, vb, vi, k, x, l)
<1>1. PICK m : m = F[c]
  OBVIOUS
<1>2. PICK n : n = [m EXCEPT !.field = x]
  OBVIOUS
<1>3. G = [F EXCEPT ![c] = n]
  BY <1>1, <1>2
<1>4. G[c] = n /\ (\A d \in Commands \ {c} : G[d] = F[d]) /\ G = [d \in Commands |-> G[d]]
  BY <1>3
<1>5. IsLine(n, a, vb, vi, k, x, l)
  BY <1>1, <1>2 DEF IsLine
<1> QED
  BY <1>4, <1>5 DEF Puts

\* A change of the field limits.
LEMMA PutLimits ==
    ASSUME NEW F, NEW G, NEW c \in Commands, NEW a, NEW vb, NEW vi, NEW k, NEW f, NEW l, NEW x,
           F = [d \in Commands |-> F[d]], IsLine(F[c], a, vb, vi, k, f, l), G = [F EXCEPT ![c].limits = x]
    PROVE  Puts(G, F, c, a, vb, vi, k, f, x)
<1>1. PICK m : m = F[c]
  OBVIOUS
<1>2. PICK n : n = [m EXCEPT !.limits = x]
  OBVIOUS
<1>3. G = [F EXCEPT ![c] = n]
  BY <1>1, <1>2
<1>4. G[c] = n /\ (\A d \in Commands \ {c} : G[d] = F[d]) /\ G = [d \in Commands |-> G[d]]
  BY <1>3
<1>5. IsLine(n, a, vb, vi, k, f, x)
  BY <1>1, <1>2 DEF IsLine
<1> QED
  BY <1>4, <1>5 DEF Puts

\* A step that rewrites one command's record.
CmdStep(c, a, vb, vi, k, f, l) ==
    /\ cmd' = [d \in Commands |-> cmd'[d]]
    /\ \A d \in Commands \ {c} : cmd'[d] = cmd[d]
    /\ IsLine(cmd'[c], a, vb, vi, k, f, l)

\* The record a command has now.
LEMMA CmdNow ==
    ASSUME KeyTypeOK, NEW c \in Commands
    PROVE  /\ cmd = [d \in Commands |-> cmd[d]]
           /\ IsLine(cmd[c], cmd[c].at, cmd[c].verb, cmd[c].via, cmd[c].key, cmd[c].field, cmd[c].limits)
BY DEF KeyTypeOK

\* The step of a command that changes its at.
LEMMA CmdAt ==
    ASSUME KeyTypeOK, NEW c \in Commands, NEW a, cmd' = [cmd EXCEPT ![c].at = a]
    PROVE  CmdStep(c, a, cmd[c].verb, cmd[c].via, cmd[c].key, cmd[c].field, cmd[c].limits)
<1>1. cmd = [d \in Commands |-> cmd[d]] /\ IsLine(cmd[c], cmd[c].at, cmd[c].verb, cmd[c].via, cmd[c].key, cmd[c].field, cmd[c].limits)
  BY CmdNow
<1>2. cmd' = [cmd EXCEPT ![c].at = a]
  OBVIOUS
<1>3. Puts(cmd', cmd, c, a, cmd[c].verb, cmd[c].via, cmd[c].key, cmd[c].field, cmd[c].limits)
  BY <1>1, <1>2, PutAt
<1> QED
  BY <1>3 DEF Puts, CmdStep

\* The step of a command that changes its at, via.
LEMMA CmdAtVia ==
    ASSUME KeyTypeOK, NEW c \in Commands, NEW a, NEW x, cmd' = [cmd EXCEPT ![c].at = a, ![c].via = x]
    PROVE  CmdStep(c, a, cmd[c].verb, x, cmd[c].key, cmd[c].field, cmd[c].limits)
<1> DEFINE w1 == [cmd EXCEPT ![c].at = a]
<1>1. cmd = [d \in Commands |-> cmd[d]] /\ IsLine(cmd[c], cmd[c].at, cmd[c].verb, cmd[c].via, cmd[c].key, cmd[c].field, cmd[c].limits)
  BY CmdNow
<1>2. cmd' = [w1 EXCEPT ![c].via = x]
  OBVIOUS
<1>3. Puts(w1, cmd, c, a, cmd[c].verb, cmd[c].via, cmd[c].key, cmd[c].field, cmd[c].limits)
  BY <1>1, PutAt
<1>4. w1 = [d \in Commands |-> w1[d]] /\ IsLine(w1[c], a, cmd[c].verb, cmd[c].via, cmd[c].key, cmd[c].field, cmd[c].limits)
  BY <1>3 DEF Puts
<1> HIDE DEF w1
<1>5. Puts(cmd', w1, c, a, cmd[c].verb, x, cmd[c].key, cmd[c].field, cmd[c].limits)
  BY <1>4, <1>2, PutVia
<1> QED
  BY <1>3, <1>5 DEF Puts, CmdStep

\* The step of a command that changes its at, key.
LEMMA CmdAtKey ==
    ASSUME KeyTypeOK, NEW c \in Commands, NEW a, NEW x, cmd' = [cmd EXCEPT ![c].at = a, ![c].key = x]
    PROVE  CmdStep(c, a, cmd[c].verb, cmd[c].via, x, cmd[c].field, cmd[c].limits)
<1> DEFINE w1 == [cmd EXCEPT ![c].at = a]
<1>1. cmd = [d \in Commands |-> cmd[d]] /\ IsLine(cmd[c], cmd[c].at, cmd[c].verb, cmd[c].via, cmd[c].key, cmd[c].field, cmd[c].limits)
  BY CmdNow
<1>2. cmd' = [w1 EXCEPT ![c].key = x]
  OBVIOUS
<1>3. Puts(w1, cmd, c, a, cmd[c].verb, cmd[c].via, cmd[c].key, cmd[c].field, cmd[c].limits)
  BY <1>1, PutAt
<1>4. w1 = [d \in Commands |-> w1[d]] /\ IsLine(w1[c], a, cmd[c].verb, cmd[c].via, cmd[c].key, cmd[c].field, cmd[c].limits)
  BY <1>3 DEF Puts
<1> HIDE DEF w1
<1>5. Puts(cmd', w1, c, a, cmd[c].verb, cmd[c].via, x, cmd[c].field, cmd[c].limits)
  BY <1>4, <1>2, PutKey
<1> QED
  BY <1>3, <1>5 DEF Puts, CmdStep

\* The step of a command that changes its at, limits.
LEMMA CmdAtLimits ==
    ASSUME KeyTypeOK, NEW c \in Commands, NEW a, NEW x, cmd' = [cmd EXCEPT ![c].at = a, ![c].limits = x]
    PROVE  CmdStep(c, a, cmd[c].verb, cmd[c].via, cmd[c].key, cmd[c].field, x)
<1> DEFINE w1 == [cmd EXCEPT ![c].at = a]
<1>1. cmd = [d \in Commands |-> cmd[d]] /\ IsLine(cmd[c], cmd[c].at, cmd[c].verb, cmd[c].via, cmd[c].key, cmd[c].field, cmd[c].limits)
  BY CmdNow
<1>2. cmd' = [w1 EXCEPT ![c].limits = x]
  OBVIOUS
<1>3. Puts(w1, cmd, c, a, cmd[c].verb, cmd[c].via, cmd[c].key, cmd[c].field, cmd[c].limits)
  BY <1>1, PutAt
<1>4. w1 = [d \in Commands |-> w1[d]] /\ IsLine(w1[c], a, cmd[c].verb, cmd[c].via, cmd[c].key, cmd[c].field, cmd[c].limits)
  BY <1>3 DEF Puts
<1> HIDE DEF w1
<1>5. Puts(cmd', w1, c, a, cmd[c].verb, cmd[c].via, cmd[c].key, cmd[c].field, x)
  BY <1>4, <1>2, PutLimits
<1> QED
  BY <1>3, <1>5 DEF Puts, CmdStep

\* The step of a command that changes its at, key, limits.
LEMMA CmdAtKeyLimits ==
    ASSUME KeyTypeOK, NEW c \in Commands, NEW a, NEW x, NEW y, cmd' = [cmd EXCEPT ![c].at = a, ![c].key = x, ![c].limits = y]
    PROVE  CmdStep(c, a, cmd[c].verb, cmd[c].via, x, cmd[c].field, y)
<1> DEFINE w1 == [cmd EXCEPT ![c].at = a]
           w2 == [w1 EXCEPT ![c].key = x]
<1>1. cmd = [d \in Commands |-> cmd[d]] /\ IsLine(cmd[c], cmd[c].at, cmd[c].verb, cmd[c].via, cmd[c].key, cmd[c].field, cmd[c].limits)
  BY CmdNow
<1>2. cmd' = [w2 EXCEPT ![c].limits = y]
  OBVIOUS
<1>3. Puts(w1, cmd, c, a, cmd[c].verb, cmd[c].via, cmd[c].key, cmd[c].field, cmd[c].limits)
  BY <1>1, PutAt
<1>4. w1 = [d \in Commands |-> w1[d]] /\ IsLine(w1[c], a, cmd[c].verb, cmd[c].via, cmd[c].key, cmd[c].field, cmd[c].limits)
  BY <1>3 DEF Puts
<1> HIDE DEF w1
<1>5. Puts(w2, w1, c, a, cmd[c].verb, cmd[c].via, x, cmd[c].field, cmd[c].limits)
  BY <1>4, PutKey
<1>6. w2 = [d \in Commands |-> w2[d]] /\ IsLine(w2[c], a, cmd[c].verb, cmd[c].via, x, cmd[c].field, cmd[c].limits)
  BY <1>5 DEF Puts
<1> HIDE DEF w2
<1>7. Puts(cmd', w2, c, a, cmd[c].verb, cmd[c].via, x, cmd[c].field, y)
  BY <1>6, <1>2, PutLimits
<1> QED
  BY <1>3, <1>5, <1>7 DEF Puts, CmdStep

\* The step of a command that changes its at, verb, field.
LEMMA CmdAtVerbField ==
    ASSUME KeyTypeOK, NEW c \in Commands, NEW a, NEW x, NEW y, cmd' = [cmd EXCEPT ![c].at = a, ![c].verb = x, ![c].field = y]
    PROVE  CmdStep(c, a, x, cmd[c].via, cmd[c].key, y, cmd[c].limits)
<1> DEFINE w1 == [cmd EXCEPT ![c].at = a]
           w2 == [w1 EXCEPT ![c].verb = x]
<1>1. cmd = [d \in Commands |-> cmd[d]] /\ IsLine(cmd[c], cmd[c].at, cmd[c].verb, cmd[c].via, cmd[c].key, cmd[c].field, cmd[c].limits)
  BY CmdNow
<1>2. cmd' = [w2 EXCEPT ![c].field = y]
  OBVIOUS
<1>3. Puts(w1, cmd, c, a, cmd[c].verb, cmd[c].via, cmd[c].key, cmd[c].field, cmd[c].limits)
  BY <1>1, PutAt
<1>4. w1 = [d \in Commands |-> w1[d]] /\ IsLine(w1[c], a, cmd[c].verb, cmd[c].via, cmd[c].key, cmd[c].field, cmd[c].limits)
  BY <1>3 DEF Puts
<1> HIDE DEF w1
<1>5. Puts(w2, w1, c, a, x, cmd[c].via, cmd[c].key, cmd[c].field, cmd[c].limits)
  BY <1>4, PutVerb
<1>6. w2 = [d \in Commands |-> w2[d]] /\ IsLine(w2[c], a, x, cmd[c].via, cmd[c].key, cmd[c].field, cmd[c].limits)
  BY <1>5 DEF Puts
<1> HIDE DEF w2
<1>7. Puts(cmd', w2, c, a, x, cmd[c].via, cmd[c].key, y, cmd[c].limits)
  BY <1>6, <1>2, PutField
<1> QED
  BY <1>3, <1>5, <1>7 DEF Puts, CmdStep

\* What such a step leaves.
LEMMA CmdAfter ==
    ASSUME KeyTypeOK, NEW c \in Commands, NEW a, NEW vb, NEW vi, NEW k, NEW f, NEW l, CmdStep(c, a, vb, vi, k, f, l)
    PROVE  /\ cmd'[c].at = a /\ cmd'[c].verb = vb /\ cmd'[c].via = vi
           /\ cmd'[c].key = k /\ cmd'[c].field = f /\ cmd'[c].limits = l
           /\ \A d \in Commands \ {c} : cmd'[d] = cmd[d]
           /\ cmd' = [d \in Commands |-> cmd'[d]]
           /\ \A d \in Commands : IsLine(cmd'[d], cmd'[d].at, cmd'[d].verb, cmd'[d].via, cmd'[d].key, cmd'[d].field, cmd'[d].limits)
<1>1. (\A d \in Commands \ {c} : cmd'[d] = cmd[d]) /\ cmd' = [d \in Commands |-> cmd'[d]] /\ IsLine(cmd'[c], a, vb, vi, k, f, l)
  BY DEF CmdStep
<1>2. cmd'[c].at = a /\ cmd'[c].verb = vb /\ cmd'[c].via = vi /\ cmd'[c].key = k /\ cmd'[c].field = f /\ cmd'[c].limits = l
  BY <1>1, LineFields
<1>3. \A d \in Commands : IsLine(cmd[d], cmd[d].at, cmd[d].verb, cmd[d].via, cmd[d].key, cmd[d].field, cmd[d].limits)
  BY CmdNow
<1>4. \A d \in Commands : IsLine(cmd'[d], cmd'[d].at, cmd'[d].verb, cmd'[d].via, cmd'[d].key, cmd'[d].field, cmd'[d].limits)
  <2> TAKE d \in Commands
  <2>1. CASE d = c
    BY <2>1, <1>1, <1>2
  <2>2. CASE d # c
    BY <2>2, <1>1, <1>3
  <2> QED
    BY <2>1, <2>2
<1> QED
  BY <1>1, <1>2, <1>4

\* The history record, with its fields.
IsGhost(m, v, w, r, b, t) == m = [ver |-> v, wrote |-> w, raced |-> r, blind |-> b, told |-> t]

\* What those fields are.
LEMMA GhostFields ==
    ASSUME NEW m, NEW v, NEW w, NEW r, NEW b, NEW t, IsGhost(m, v, w, r, b, t)
    PROVE  m.ver = v /\ m.wrote = w /\ m.raced = r /\ m.blind = b /\ m.told = t
BY DEF IsGhost

\* A change of the version of a store.
LEMMA GhostVer ==
    ASSUME NEW m, NEW n, NEW v, NEW w, NEW r, NEW b, NEW t, IsGhost(m, v, w, r, b, t), NEW s, NEW x, n = [m EXCEPT !.ver[s] = x]
    PROVE  IsGhost(n, [v EXCEPT ![s] = x], w, r, b, t)
<1>1. PICK y : y = [m.ver EXCEPT ![s] = x]
  OBVIOUS
<1>2. n = [m EXCEPT !.ver = y]
  BY <1>1
<1>3. y = [v EXCEPT ![s] = x]
  BY <1>1, GhostFields
<1>4. IsGhost(n, y, w, r, b, t)
  BY <1>2 DEF IsGhost
<1> QED
  BY <1>3, <1>4

\* A change of the version a command wrote.
LEMMA GhostWrote ==
    ASSUME NEW m, NEW n, NEW v, NEW w, NEW r, NEW b, NEW t, IsGhost(m, v, w, r, b, t), NEW s, NEW x, n = [m EXCEPT !.wrote[s] = x]
    PROVE  IsGhost(n, v, [w EXCEPT ![s] = x], r, b, t)
<1>1. PICK y : y = [m.wrote EXCEPT ![s] = x]
  OBVIOUS
<1>2. n = [m EXCEPT !.wrote = y]
  BY <1>1
<1>3. y = [w EXCEPT ![s] = x]
  BY <1>1, GhostFields
<1>4. IsGhost(n, v, y, r, b, t)
  BY <1>2 DEF IsGhost
<1> QED
  BY <1>3, <1>4

\* A change of whether a command was overtaken.
LEMMA GhostRaced ==
    ASSUME NEW m, NEW n, NEW v, NEW w, NEW r, NEW b, NEW t, IsGhost(m, v, w, r, b, t), NEW s, NEW x, n = [m EXCEPT !.raced[s] = x]
    PROVE  IsGhost(n, v, w, [r EXCEPT ![s] = x], b, t)
<1>1. PICK y : y = [m.raced EXCEPT ![s] = x]
  OBVIOUS
<1>2. n = [m EXCEPT !.raced = y]
  BY <1>1
<1>3. y = [r EXCEPT ![s] = x]
  BY <1>1, GhostFields
<1>4. IsGhost(n, v, w, y, b, t)
  BY <1>2 DEF IsGhost
<1> QED
  BY <1>3, <1>4

\* A change of what a command was told.
LEMMA GhostTold ==
    ASSUME NEW m, NEW n, NEW v, NEW w, NEW r, NEW b, NEW t, IsGhost(m, v, w, r, b, t), NEW s, NEW x, n = [m EXCEPT !.told[s] = x]
    PROVE  IsGhost(n, v, w, r, b, [t EXCEPT ![s] = x])
<1>1. PICK y : y = [m.told EXCEPT ![s] = x]
  OBVIOUS
<1>2. n = [m EXCEPT !.told = y]
  BY <1>1
<1>3. y = [t EXCEPT ![s] = x]
  BY <1>1, GhostFields
<1>4. IsGhost(n, v, w, r, b, y)
  BY <1>2 DEF IsGhost
<1> QED
  BY <1>3, <1>4

\* A change of all that were overtaken, and of the misleading stamp.
LEMMA GhostWhole ==
    ASSUME NEW m, NEW n, NEW v, NEW w, NEW r, NEW b, NEW t, IsGhost(m, v, w, r, b, t), NEW x
    PROVE  /\ n = [m EXCEPT !.raced = x] => IsGhost(n, v, w, x, b, t)
           /\ n = [m EXCEPT !.blind = x] => IsGhost(n, v, w, r, x, t)
<1>1. ASSUME n = [m EXCEPT !.raced = x] PROVE IsGhost(n, v, w, x, b, t)
  BY <1>1 DEF IsGhost
<1>2. ASSUME n = [m EXCEPT !.blind = x] PROVE IsGhost(n, v, w, r, x, t)
  BY <1>2 DEF IsGhost
<1> QED
  BY <1>1, <1>2

\* The history now.
LEMMA GhostNow ==
    ASSUME KeyTypeOK
    PROVE  IsGhost(ghost, ghost.ver, ghost.wrote, ghost.raced, ghost.blind, ghost.told)
BY DEF KeyTypeOK, IsGhost

\* One store is read again, or not; the stamp says whether it was needed.
Refreshed(s) ==
    /\ \A t \in Stores \ {s} : cache'[t] = cache[t] /\ ghost'.ver[t] = ghost.ver[t]
    /\ \/ cache'[s] = cache[s] /\ ghost'.ver[s] = ghost.ver[s]
       \/ cache'[s] = [stamp |-> file.stamp, keys |-> file.keys] /\ ghost'.ver[s] = file.stamp

\* What reload, throttled or not, does to a store.
LEMMA ReloadMeans ==
    ASSUME KeyTypeOK, NEW s \in Stores, NEW k, NEW x, <<k, x>> \in MayReload(s),
           cache' = [cache EXCEPT ![s] = k], ghost'.ver = [ghost.ver EXCEPT ![s] = x]
    PROVE  /\ Refreshed(s) /\ cache'[s] = k /\ ghost'.ver[s] = x /\ x \in Nat
           /\ (k = cache[s] /\ x = ghost.ver[s]) \/ (k = [stamp |-> file.stamp, keys |-> file.keys] /\ x = file.stamp)
           /\ cache' = [t \in Stores |-> cache'[t]] /\ ghost'.ver \in [Stores -> Nat]
           /\ \A t \in Stores : cache'[t] = [stamp |-> cache'[t].stamp, keys |-> cache'[t].keys] /\ cache'[t].stamp \in Nat
<1>1. cache = [t \in Stores |-> cache[t]] /\ ghost.ver \in [Stores -> Nat] /\ file.stamp \in Nat
  BY DEF KeyTypeOK
<1>2. \A t \in Stores : cache[t] = [stamp |-> cache[t].stamp, keys |-> cache[t].keys] /\ cache[t].stamp \in Nat
  BY DEF KeyTypeOK
<1>3. (k = cache[s] /\ x = ghost.ver[s]) \/ (k = [stamp |-> file.stamp, keys |-> file.keys] /\ x = file.stamp)
  BY DEF MayReload, Reloaded, VerAfter
<1>4. cache'[s] = k /\ ghost'.ver[s] = x /\ \A t \in Stores \ {s} : cache'[t] = cache[t] /\ ghost'.ver[t] = ghost.ver[t]
  BY <1>1
<1>5. x \in Nat
  BY <1>1, <1>3
<1>6. cache' = [t \in Stores |-> cache'[t]] /\ ghost'.ver \in [Stores -> Nat]
  BY <1>1, <1>5
<1>7. k = [stamp |-> k.stamp, keys |-> k.keys] /\ k.stamp \in Nat
  BY <1>1, <1>2, <1>3
<1>8. \A t \in Stores : cache'[t] = [stamp |-> cache'[t].stamp, keys |-> cache'[t].keys] /\ cache'[t].stamp \in Nat
  BY <1>2, <1>4, <1>7
<1>9. Refreshed(s)
  BY <1>3, <1>4 DEF Refreshed
<1> QED
  BY <1>3, <1>4, <1>5, <1>6, <1>8, <1>9

\* What the step of command c does to its own line and history, beside reading a store.
Ended == {"renamed", "saved", "done", "failed"}
OwnStep(c) ==
    /\ c \in Handling' => c \in Handling \/ Handling = {}
    /\ cmd'[c].at # "renamed"
    /\ cmd'[c].at \notin Ended => cmd[c].at \notin Ended
    /\ ghost'.told[c] <= starts
    /\ cmd'[c].at \notin {"done", "failed"} => ghost'.told[c] = 0
    /\ cmd'[c].at = "loaded" /\ ~ghost'.raced[c] /\ (cmd'[c].via = "host" => ~HostMisled') => ghost'.ver[StoreOf(c)'] = file.stamp
    /\ HasRead(c)' /\ cmd'[c].verb = "limits" /\ ~ghost'.raced[c]
         => cmd'[c].limits = [file.keys[cmd'[c].key].limits EXCEPT ![cmd'[c].field] = c]
    /\ cmd'[c].at = "done" /\ host # "down" /\ ghost'.told[c] = starts
         => (~HostMisled' => ghost'.ver[Host] = file.stamp) /\ \A d \in Handling \ {c} : cmd[d].at # "renamed"

\* A step that at most reads a store, for a command or for the host's own use, keeps the invariant.
LEMMA ReadKeeps ==
    ASSUME KeyInv, KeyTypeOK', NEW s \in Stores, Refreshed(s), UNCHANGED <<file, starts>>,
           host' = "down" <=> host = "down", ghost'.wrote = ghost.wrote, ghost'.blind = ghost.blind,
           NEW c, \A d \in Commands \ {c} : cmd'[d] = cmd[d] /\ ghost'.raced[d] = ghost.raced[d] /\ ghost'.told[d] = ghost.told[d],
           c \in Commands => OwnStep(c)
    PROVE  KeyInv'
<1> USE DEF KeyInv
<1>1. Host \in Stores /\ Commands \subseteq Stores /\ Host \notin Commands
  BY KeysAssumption DEF Stores
<1>2. \A t \in Stores : \/ cache'[t] = cache[t] /\ ghost'.ver[t] = ghost.ver[t]
                        \/ cache'[t] = [stamp |-> file.stamp, keys |-> file.keys] /\ ghost'.ver[t] = file.stamp
  BY DEF Refreshed
<1>3. \A t \in Stores : \/ cache'[t] = cache[t] /\ ghost'.ver[t] = ghost.ver[t]
                        \/ cache'[t].stamp = file.stamp /\ cache'[t].keys = file.keys /\ ghost'.ver[t] = file.stamp
  BY <1>2
<1>4. /\ file.stamp \in Nat /\ starts \in Nat
      /\ \A t \in Stores : ghost.ver[t] \in Nat /\ ghost'.ver[t] \in Nat /\ cache[t].stamp \in Nat
      /\ \A d \in Commands : ghost.wrote[d] \in Nat /\ ghost.told[d] \in Nat /\ ghost'.told[d] \in Nat
  BY DEF KeyTypeOK
<1>5. VersionsOK'
  <2>1. \A t \in Stores : /\ cache'[t].stamp <= file.stamp /\ ghost'.ver[t] <= file.stamp
                          /\ ghost'.ver[t] = file.stamp => cache'[t].keys = file.keys
    BY <1>3, <1>4 DEF VersionsOK
  <2>2. \A d \in Commands : ghost'.wrote[d] <= file.stamp /\ ghost'.told[d] <= starts
    BY DEF VersionsOK, OwnStep
  <2> QED
    BY <2>1, <2>2 DEF VersionsOK
<1>6. \A d \in Commands : cmd'[d].at \notin Ended => cmd[d].at \notin Ended
  BY DEF OwnStep
<1>7. StampsOK'
  <2>1. \A d \in Commands : cmd'[d].at \notin Ended /\ cache'[d].stamp = file.stamp => ghost'.ver[d] = file.stamp
    BY <1>1, <1>3, <1>6 DEF StampsOK, Ended
  <2>2. cache'[Host].stamp = file.stamp /\ ghost'.blind # file.stamp => ghost'.ver[Host] = file.stamp
    BY <1>1, <1>3 DEF StampsOK
  <2> QED
    BY <2>1, <2>2 DEF StampsOK, Ended
<1>8. \A d \in Commands \ {c} : d \in Handling' <=> d \in Handling
  BY DEF Handling
<1>9. Handling' \subseteq Commands /\ Handling \subseteq Commands
  BY DEF Handling
<1>10. \A d, e \in Handling' : d = e
  BY <1>8, <1>9 DEF HostOK, OwnStep
<1>11. \A d \in Handling' : cmd'[d].at = "renamed" => d # c /\ d \in Handling /\ cmd[d].at = "renamed"
  BY <1>8, <1>9 DEF OwnStep
<1>12. ASSUME NEW d \in Commands, cmd'[d].at = "done", host' # "down", ghost'.told[d] = starts, d # c
       PROVE  cmd[d].at = "done" /\ host # "down" /\ ghost.told[d] = starts
  BY <1>12
<1>13. HostOK'
  <2>1. ASSUME NEW e \in Handling', cmd'[e].at = "renamed"
        PROVE  /\ ghost'.blind # file.stamp => ghost'.ver[Host] = file.stamp
               /\ \A d \in Commands : cmd'[d].at = "done" /\ host' # "down" /\ ghost'.told[d] = starts => ghost'.ver[Host] >= ghost'.wrote[d]
    <3>1. e # c /\ e \in Handling /\ cmd[e].at = "renamed"
      BY <1>11, <2>1
    <3>2. /\ ghost.blind # file.stamp => ghost.ver[Host] = file.stamp
          /\ \A d \in Commands : cmd[d].at = "done" /\ host # "down" /\ ghost.told[d] = starts => ghost.ver[Host] >= ghost.wrote[d]
      BY <3>1 DEF HostOK
    <3>3. ghost'.blind # file.stamp => ghost'.ver[Host] = file.stamp
      BY <3>2, <1>1, <1>3
    <3>4. ASSUME NEW d \in Commands, cmd'[d].at = "done", host' # "down", ghost'.told[d] = starts PROVE ghost'.ver[Host] >= ghost'.wrote[d]
      <4>1. d # c
        BY <3>1, <3>4 DEF OwnStep
      <4>2. ghost.ver[Host] >= ghost.wrote[d] /\ ghost.wrote[d] <= file.stamp
        BY <4>1, <3>2, <3>4, <1>12 DEF VersionsOK
      <4> QED
        BY <4>2, <1>1, <1>3, <1>4
    <3> QED
      BY <3>3, <3>4
  <2>2. host' # "down" => starts' # 0
    BY DEF HostOK
  <2> QED
    BY <1>10, <2>1, <2>2 DEF HostOK
<1>14. ~HostMisled' => \/ ghost'.ver[Host] = file.stamp
                       \/ ghost'.ver[Host] = ghost.ver[Host] /\ ~HostMisled
  BY <1>1, <1>3 DEF HostMisled
<1>15. ReadsOK'
  <2> SUFFICES ASSUME NEW d \in Commands
               PROVE  /\ cmd'[d].at \notin {"done", "failed"} => ghost'.told[d] = 0
                      /\ cmd'[d].at = "loaded" /\ ~ghost'.raced[d] /\ (cmd'[d].via = "host" => ~HostMisled')
                           => ghost'.ver[StoreOf(d)'] = file.stamp
                      /\ HasRead(d)' /\ cmd'[d].verb = "limits" /\ ~ghost'.raced[d]
                           => cmd'[d].limits = [file.keys[cmd'[d].key].limits EXCEPT ![cmd'[d].field] = d]
    BY DEF ReadsOK
  <2>1. CASE d = c
    BY <2>1 DEF OwnStep
  <2>2. CASE d # c
    <3>1. cmd'[d] = cmd[d] /\ ghost'.raced[d] = ghost.raced[d] /\ ghost'.told[d] = ghost.told[d]
      BY <2>2
    <3>2. cmd'[d].at \notin {"done", "failed"} => ghost'.told[d] = 0
      BY <3>1 DEF ReadsOK
    <3>3. HasRead(d)' => HasRead(d)
      BY <3>1 DEF HasRead
    <3>4. HasRead(d)' /\ cmd'[d].verb = "limits" /\ ~ghost'.raced[d]
                           => cmd'[d].limits = [file.keys[cmd'[d].key].limits EXCEPT ![cmd'[d].field] = d]
      BY <3>1, <3>3 DEF ReadsOK
    <3>5. StoreOf(d)' = StoreOf(d) /\ StoreOf(d) \in Stores /\ (cmd[d].via = "host" => StoreOf(d) = Host)
      BY <3>1, <1>1 DEF StoreOf
    <3>6. ASSUME cmd'[d].at = "loaded", ~ghost'.raced[d], cmd'[d].via = "host" => ~HostMisled' PROVE ghost'.ver[StoreOf(d)'] = file.stamp
      <4>1. CASE ghost'.ver[StoreOf(d)] = file.stamp
        BY <4>1, <3>5
      <4>2. CASE ghost'.ver[StoreOf(d)] = ghost.ver[StoreOf(d)] /\ (cmd[d].via = "host" => ~HostMisled)
        BY <4>2, <3>1, <3>5, <3>6 DEF ReadsOK
      <4>3. cmd[d].via # "host" \/ (~HostMisled' /\ StoreOf(d) = Host)
        BY <3>1, <3>5, <3>6
      <4>4. ghost'.ver[StoreOf(d)] = file.stamp \/ ghost'.ver[StoreOf(d)] = ghost.ver[StoreOf(d)]
        BY <3>5, <1>3
      <4> QED
        BY <4>1, <4>2, <4>3, <4>4, <1>14
    <3> QED
      BY <3>2, <3>4, <3>6
  <2> QED
    BY <2>1, <2>2
<1>16. InForceOnReturn'
  <2> SUFFICES ASSUME NEW d \in Commands, cmd'[d].at = "done", host' # "down", ghost'.told[d] = starts, ~HostMisled'
               PROVE  ghost'.ver[Host] >= ghost'.wrote[d]
    BY DEF InForceOnReturn
  <2>1. ghost.wrote[d] <= file.stamp
    BY DEF VersionsOK
  <2>2. CASE ghost'.ver[Host] = file.stamp
    BY <2>1, <2>2, <1>4
  <2>3. CASE d # c /\ ghost'.ver[Host] = ghost.ver[Host] /\ ~HostMisled
    BY <2>3, <1>12 DEF InForceOnReturn
  <2>4. CASE d = c
    BY <2>4, <2>2 DEF OwnStep
  <2> QED
    BY <2>2, <2>3, <2>4, <1>14
<1> QED
  BY <1>5, <1>7, <1>13, <1>15, <1>16

\* The step of a command that reads a store.
LEMMA ReadStep ==
    ASSUME KeyInv, NEW c \in Commands, NEW s \in Stores, NEW k, NEW x, <<k, x>> \in MayReload(s), cache' = [cache EXCEPT ![s] = k],
           NEW a, NEW vb, NEW vi, NEW ke, NEW f, NEW l, CmdStep(c, a, vb, vi, ke, f, l),
           NEW y \in BOOLEAN, NEW z \in Nat,
           IsGhost(ghost', [ghost.ver EXCEPT ![s] = x], ghost.wrote, [ghost.raced EXCEPT ![c] = y], ghost.blind, [ghost.told EXCEPT ![c] = z]),
           UNCHANGED <<file, host, starts>>, OwnStep(c)
    PROVE  KeyInv'
<1>1. KeyTypeOK
  BY DEF KeyInv
<1>2. /\ ghost'.ver = [ghost.ver EXCEPT ![s] = x] /\ ghost'.wrote = ghost.wrote /\ ghost'.raced = [ghost.raced EXCEPT ![c] = y]
      /\ ghost'.blind = ghost.blind /\ ghost'.told = [ghost.told EXCEPT ![c] = z]
  BY GhostFields
<1>3. /\ Refreshed(s) /\ cache' = [t \in Stores |-> cache'[t]] /\ ghost'.ver \in [Stores -> Nat]
      /\ \A t \in Stores : cache'[t] = [stamp |-> cache'[t].stamp, keys |-> cache'[t].keys] /\ cache'[t].stamp \in Nat
  BY <1>1, <1>2, ReloadMeans
<1>4. /\ \A d \in Commands \ {c} : cmd'[d] = cmd[d]
      /\ cmd' = [d \in Commands |-> cmd'[d]]
      /\ \A d \in Commands : IsLine(cmd'[d], cmd'[d].at, cmd'[d].verb, cmd'[d].via, cmd'[d].key, cmd'[d].field, cmd'[d].limits)
  BY <1>1, CmdAfter
<1>5. ghost.wrote \in [Commands -> Nat] /\ ghost.raced \in [Commands -> BOOLEAN] /\ ghost.blind \in Nat /\ ghost.told \in [Commands -> Nat]
  BY <1>1 DEF KeyTypeOK
<1>6. ghost'.raced \in [Commands -> BOOLEAN]
  BY <1>2, <1>5
<1>7. ghost'.wrote \in [Commands -> Nat] /\ ghost'.blind \in Nat /\ ghost'.told \in [Commands -> Nat]
  BY <1>2, <1>5
<1>8. ghost' = [ver |-> ghost'.ver, wrote |-> ghost'.wrote, raced |-> ghost'.raced, blind |-> ghost'.blind, told |-> ghost'.told]
  BY <1>2 DEF IsGhost
<1>9. file' = [stamp |-> file'.stamp, keys |-> file'.keys] /\ file'.stamp \in Nat /\ starts' \in Nat
  BY <1>1 DEF KeyTypeOK
<1>10. KeyTypeOK'
  BY <1>3, <1>4, <1>6, <1>7, <1>8, <1>9 DEF KeyTypeOK
<1>11. \A d \in Commands \ {c} : cmd'[d] = cmd[d] /\ ghost'.raced[d] = ghost.raced[d] /\ ghost'.told[d] = ghost.told[d]
  BY <1>2, <1>4, <1>5
<1>12. host' = "down" <=> host = "down"
  OBVIOUS
<1> QED
  BY <1>2, <1>3, <1>10, <1>11, <1>12, ReadKeeps

\* The step of a command that touches nothing but its own line.
LEMMA QuietStep ==
    ASSUME KeyInv, NEW c \in Commands, NEW a, NEW vb, NEW vi, NEW ke, NEW f, NEW l, CmdStep(c, a, vb, vi, ke, f, l),
           UNCHANGED <<file, host, starts, cache, ghost>>, OwnStep(c)
    PROVE  KeyInv'
<1>1. KeyTypeOK
  BY DEF KeyInv
<1>2. /\ \A d \in Commands \ {c} : cmd'[d] = cmd[d]
      /\ cmd' = [d \in Commands |-> cmd'[d]]
      /\ \A d \in Commands : IsLine(cmd'[d], cmd'[d].at, cmd'[d].verb, cmd'[d].via, cmd'[d].key, cmd'[d].field, cmd'[d].limits)
  BY <1>1, CmdAfter
<1>3. KeyTypeOK'
  BY <1>1, <1>2 DEF KeyTypeOK
<1>4. Host \in Stores /\ Refreshed(Host)
  BY DEF Stores, Refreshed
<1>5. \A d \in Commands \ {c} : cmd'[d] = cmd[d] /\ ghost'.raced[d] = ghost.raced[d] /\ ghost'.told[d] = ghost.told[d]
  BY <1>2
<1>6. ghost'.wrote = ghost.wrote /\ ghost'.blind = ghost.blind /\ (host' = "down" <=> host = "down")
  OBVIOUS
<1> QED
  BY <1>3, <1>4, <1>5, <1>6, ReadKeeps

\* A command that is under way has been told nothing, and what it was told is not news.
LEMMA Untold ==
    ASSUME KeyInv, NEW c \in Commands, cmd[c].at \notin {"done", "failed"}
    PROVE  ghost.told[c] = 0 /\ ghost.told[c] <= starts /\ (host # "down" => ghost.told[c] # starts)
<1>1. ghost.told[c] = 0 /\ starts \in Nat /\ (host # "down" => starts # 0)
  BY DEF KeyInv, ReadsOK, HostOK, KeyTypeOK
<1> QED
  BY <1>1

\* A command that only moves on, or ends, without having read.
LEMMA PlainStep ==
    ASSUME KeyInv, NEW c \in Commands, cmd[c].at \notin {"done", "failed"}, ghost'.told = ghost.told,
           \/ cmd'[c].at \in {"opened", "probed"} /\ cmd[c].at \in {"idle", "opened"}
           \/ cmd'[c].at = "failed"
           \/ cmd'[c].at = "done"
    PROVE  OwnStep(c)
<1>1. ghost'.told[c] = 0 /\ ghost'.told[c] <= starts /\ (host # "down" => ghost'.told[c] # starts)
  BY Untold
<1>2. c \notin Handling' /\ ~HasRead(c)' /\ cmd'[c].at # "renamed" /\ cmd'[c].at # "loaded"
  BY DEF Handling, HasRead, Mutating
<1>3. cmd'[c].at \notin Ended => cmd[c].at \notin Ended
  BY DEF Ended
<1> QED
  BY <1>1, <1>2, <1>3 DEF OwnStep

\* onlineClient's read.
LEMMA ProbeKeeps ==
    ASSUME KeyInv, NEW c \in Commands, Probe(c)
    PROVE  KeyInv'
<1>1. KeyTypeOK
  BY DEF KeyInv
<1>2. PICK a, v : a \in {"probed", "failed"} /\ cmd' = [cmd EXCEPT ![c].at = a, ![c].via = v]
  BY DEF Probe
<1>3. CmdStep(c, a, cmd[c].verb, v, cmd[c].key, cmd[c].field, cmd[c].limits)
  BY <1>1, <1>2, CmdAtVia
<1>4. cmd'[c].at = a /\ cmd[c].at = "opened" /\ UNCHANGED <<file, host, starts, cache, ghost>>
  BY <1>1, <1>3, CmdAfter DEF Probe
<1>5. OwnStep(c)
  BY <1>2, <1>4, PlainStep
<1> QED
  BY <1>3, <1>4, <1>5, QuietStep

\* A write that fails, and a command that is given up.
LEMMA FailKeeps ==
    ASSUME KeyInv, NEW c \in Commands, WriteFails(c) \/ GiveUp(c)
    PROVE  KeyInv'
<1>1. KeyTypeOK
  BY DEF KeyInv
<1>2. cmd' = [cmd EXCEPT ![c].at = "failed"]
  BY DEF WriteFails, GiveUp
<1>3. CmdStep(c, "failed", cmd[c].verb, cmd[c].via, cmd[c].key, cmd[c].field, cmd[c].limits)
  BY <1>1, <1>2, CmdAt
<1>4. cmd'[c].at = "failed" /\ cmd[c].at \notin {"done", "failed"} /\ UNCHANGED <<file, host, starts, cache, ghost>>
  BY <1>1, <1>3, CmdAfter DEF WriteFails, GiveUp
<1>5. OwnStep(c)
  BY <1>4, PlainStep
<1> QED
  BY <1>3, <1>4, <1>5, QuietStep

\* A history in which only a store's version is new.
LEMMA GhostRead ==
    ASSUME KeyTypeOK, NEW s, NEW x, ghost' = [ghost EXCEPT !.ver[s] = x], NEW c \in Commands
    PROVE  /\ IsGhost(ghost', [ghost.ver EXCEPT ![s] = x], ghost.wrote, [ghost.raced EXCEPT ![c] = ghost.raced[c]],
                      ghost.blind, [ghost.told EXCEPT ![c] = ghost.told[c]])
           /\ ghost.raced[c] \in BOOLEAN /\ ghost.told[c] \in Nat /\ ghost'.told = ghost.told /\ ghost'.raced = ghost.raced
           /\ ghost'.ver = [ghost.ver EXCEPT ![s] = x]
<1>1. IsGhost(ghost', [ghost.ver EXCEPT ![s] = x], ghost.wrote, ghost.raced, ghost.blind, ghost.told)
  BY GhostNow, GhostVer
<1>2. ghost.raced \in [Commands -> BOOLEAN] /\ ghost.told \in [Commands -> Nat]
  BY DEF KeyTypeOK
<1>3. ghost.raced = [ghost.raced EXCEPT ![c] = ghost.raced[c]] /\ ghost.told = [ghost.told EXCEPT ![c] = ghost.told[c]]
  BY <1>2
<1>4. ghost'.told = ghost.told /\ ghost'.raced = ghost.raced /\ ghost'.ver = [ghost.ver EXCEPT ![s] = x]
  BY <1>1, GhostFields
<1>5. ghost.raced[c] \in BOOLEAN
  BY <1>2
<1>6. ghost.told[c] \in Nat
  BY <1>2
<1> QED
  BY <1>1, <1>3, <1>4, <1>5, <1>6

\* A history in which a store's version is new and whether a command was overtaken.
LEMMA GhostChosen ==
    ASSUME KeyTypeOK, NEW s, NEW x, NEW y, NEW c \in Commands, ghost' = [ghost EXCEPT !.ver[s] = x, !.raced[c] = y]
    PROVE  /\ IsGhost(ghost', [ghost.ver EXCEPT ![s] = x], ghost.wrote, [ghost.raced EXCEPT ![c] = y],
                      ghost.blind, [ghost.told EXCEPT ![c] = ghost.told[c]])
           /\ ghost.told[c] \in Nat /\ ghost'.told = ghost.told /\ ghost'.raced[c] = y
           /\ ghost'.ver = [ghost.ver EXCEPT ![s] = x] /\ ghost'.blind = ghost.blind
<1> DEFINE g == [ghost EXCEPT !.ver[s] = x]
<1>1. IsGhost(g, [ghost.ver EXCEPT ![s] = x], ghost.wrote, ghost.raced, ghost.blind, ghost.told)
  BY GhostNow, GhostVer
<1>2. ghost' = [g EXCEPT !.raced[c] = y]
  OBVIOUS
<1> HIDE DEF g
<1>3. IsGhost(ghost', [ghost.ver EXCEPT ![s] = x], ghost.wrote, [ghost.raced EXCEPT ![c] = y], ghost.blind, ghost.told)
  BY <1>1, <1>2, GhostRaced
<1>4. ghost.told \in [Commands -> Nat] /\ ghost.raced \in [Commands -> BOOLEAN]
  BY DEF KeyTypeOK
<1>5. ghost.told = [ghost.told EXCEPT ![c] = ghost.told[c]] /\ ghost.told[c] \in Nat
  BY <1>4
<1>6. ghost'.told = ghost.told /\ ghost'.raced = [ghost.raced EXCEPT ![c] = y] /\ ghost'.ver = [ghost.ver EXCEPT ![s] = x]
      /\ ghost'.blind = ghost.blind
  BY <1>3, GhostFields
<1>7. ghost'.raced[c] = y
  BY <1>4, <1>6
<1>8. IsGhost(ghost', [ghost.ver EXCEPT ![s] = x], ghost.wrote, [ghost.raced EXCEPT ![c] = y],
              ghost.blind, [ghost.told EXCEPT ![c] = ghost.told[c]])
  BY <1>3, <1>5
<1> QED
  BY <1>5, <1>6, <1>7, <1>8

\* A history in which a store's version is new and what a command was told.
LEMMA GhostTells ==
    ASSUME KeyTypeOK, NEW s, NEW x, NEW z, NEW c \in Commands, ghost' = [ghost EXCEPT !.ver[s] = x, !.told[c] = z]
    PROVE  /\ IsGhost(ghost', [ghost.ver EXCEPT ![s] = x], ghost.wrote, [ghost.raced EXCEPT ![c] = ghost.raced[c]],
                      ghost.blind, [ghost.told EXCEPT ![c] = z])
           /\ ghost.raced[c] \in BOOLEAN /\ ghost'.told[c] = z
           /\ ghost'.ver = [ghost.ver EXCEPT ![s] = x] /\ ghost'.blind = ghost.blind
<1> DEFINE g == [ghost EXCEPT !.ver[s] = x]
<1>1. IsGhost(g, [ghost.ver EXCEPT ![s] = x], ghost.wrote, ghost.raced, ghost.blind, ghost.told)
  BY GhostNow, GhostVer
<1>2. ghost' = [g EXCEPT !.told[c] = z]
  OBVIOUS
<1> HIDE DEF g
<1>3. IsGhost(ghost', [ghost.ver EXCEPT ![s] = x], ghost.wrote, ghost.raced, ghost.blind, [ghost.told EXCEPT ![c] = z])
  BY <1>1, <1>2, GhostTold
<1>4. ghost.told \in [Commands -> Nat] /\ ghost.raced \in [Commands -> BOOLEAN]
  BY DEF KeyTypeOK
<1>5. ghost.raced = [ghost.raced EXCEPT ![c] = ghost.raced[c]]
  BY <1>4
<1>6. ghost'.told = [ghost.told EXCEPT ![c] = z] /\ ghost'.ver = [ghost.ver EXCEPT ![s] = x] /\ ghost'.blind = ghost.blind
  BY <1>3, GhostFields
<1>7. ghost'.told[c] = z
  BY <1>4, <1>6
<1>8. ghost.raced[c] \in BOOLEAN
  BY <1>4
<1>9. IsGhost(ghost', [ghost.ver EXCEPT ![s] = x], ghost.wrote, [ghost.raced EXCEPT ![c] = ghost.raced[c]],
              ghost.blind, [ghost.told EXCEPT ![c] = z])
  BY <1>3, <1>5
<1> QED
  BY <1>6, <1>7, <1>8, <1>9

\* open reads the file into the command's own store.
LEMMA OpenKeeps ==
    ASSUME KeyInv, NEW c \in Commands, Open(c)
    PROVE  KeyInv'
<1>1. KeyTypeOK /\ c \in Stores
  BY DEF KeyInv, Stores
<1>2. PICK v, f : cmd' = [cmd EXCEPT ![c].at = "opened", ![c].verb = v, ![c].field = f]
  BY DEF Open
<1>3. CmdStep(c, "opened", v, cmd[c].via, cmd[c].key, f, cmd[c].limits)
  BY <1>1, <1>2, CmdAtVerbField
<1>4. cmd'[c].at = "opened" /\ cmd[c].at = "idle" /\ UNCHANGED <<file, host, starts>>
  <2>1. cmd'[c].at = "opened"
    BY <1>1, <1>3, CmdAfter
  <2> QED
    BY <2>1 DEF Open
<1>5. cache' = [cache EXCEPT ![c] = Reloaded(c)] /\ ghost' = [ghost EXCEPT !.ver[c] = VerAfter(c)]
      /\ <<Reloaded(c), VerAfter(c)>> \in MayReload(c)
  BY DEF Open, MayReload
<1>6. /\ IsGhost(ghost', [ghost.ver EXCEPT ![c] = VerAfter(c)], ghost.wrote, [ghost.raced EXCEPT ![c] = ghost.raced[c]],
                 ghost.blind, [ghost.told EXCEPT ![c] = ghost.told[c]])
      /\ ghost.raced[c] \in BOOLEAN /\ ghost.told[c] \in Nat /\ ghost'.told = ghost.told
  BY <1>1, <1>5, GhostRead
<1>7. OwnStep(c)
  BY <1>4, <1>6, PlainStep
<1> QED
  BY <1>1, <1>3, <1>4, <1>5, <1>6, <1>7, ReadStep

\* A snapshot that really is the file's version has its keys.
LEMMA PairKeys ==
    ASSUME KeyInv, NEW s \in Stores, NEW k, NEW x, <<k, x>> \in MayReload(s), x = file.stamp
    PROVE  k.keys = file.keys
BY DEF KeyInv, VersionsOK, MayReload, Reloaded, VerAfter

\* What resolving a name leaves in the command's line: a key for a limits command comes
\* with the limits of the snapshot, but for the field the command sets.
Resolved(c, ks, a, k, l) ==
    /\ CmdStep(c, a, cmd[c].verb, cmd[c].via, k, cmd[c].field, l)
    /\ a \in {"chosen", "failed"}
    /\ a = "chosen" /\ cmd[c].verb = "limits" => l = [ks[k].limits EXCEPT ![cmd[c].field] = c]

\* Whatever the verb, resolving the name is such a step.
LEMMA ResolveMeans ==
    ASSUME KeyTypeOK, NEW c \in Commands, NEW ks, Found(c, ks) \/ NotFound(c, ks) \/ KeysAdd(c, ks)
    PROVE  \E a, k, l : Resolved(c, ks, a, k, l)
<1>0. "limits" \notin Adds /\ "limits" \notin DOMAIN NewStatus /\ "limits" # "rotate"
  BY DEF Adds, NewStatus
<1>1. CASE KeysStatus(c, ks) \/ KeysRotate(c, ks)
  <2>1. cmd[c].verb # "limits"
    BY <1>0, <1>1 DEF KeysStatus, KeysRotate
  <2>2. PICK k : cmd' = [cmd EXCEPT ![c].at = "chosen", ![c].key = k]
    BY <1>1 DEF KeysStatus, KeysRotate, Picks
  <2>3. CmdStep(c, "chosen", cmd[c].verb, cmd[c].via, k, cmd[c].field, cmd[c].limits)
    BY <2>2, CmdAtKey
  <2>4. Resolved(c, ks, "chosen", k, cmd[c].limits)
    BY <2>1, <2>3 DEF Resolved
  <2> QED
    BY <2>4
<1>2. CASE KeysLimits(c, ks)
  <2>1. PICK k : cmd' = [cmd EXCEPT ![c].at = "chosen", ![c].key = k, ![c].limits = [ks[k].limits EXCEPT ![cmd[c].field] = c]]
    BY <1>2 DEF KeysLimits
  <2>2. PICK l : l = [ks[k].limits EXCEPT ![cmd[c].field] = c]
    OBVIOUS
  <2>3. cmd' = [cmd EXCEPT ![c].at = "chosen", ![c].key = k, ![c].limits = l]
    BY <2>1, <2>2
  <2>4. CmdStep(c, "chosen", cmd[c].verb, cmd[c].via, k, cmd[c].field, l)
    BY <2>3, CmdAtKeyLimits
  <2>5. Resolved(c, ks, "chosen", k, l)
    BY <2>2, <2>4 DEF Resolved
  <2> QED
    BY <2>5
<1>3. CASE NotFound(c, ks) \/ KeysAdd(c, ks)
  <2>1. PICK a : a \in {"chosen", "failed"} /\ cmd' = [cmd EXCEPT ![c].at = a] /\ (a = "chosen" => cmd[c].verb # "limits")
    BY <1>0, <1>3 DEF NotFound, KeysAdd
  <2>2. CmdStep(c, a, cmd[c].verb, cmd[c].via, cmd[c].key, cmd[c].field, cmd[c].limits)
    BY <2>1, CmdAt
  <2>3. Resolved(c, ks, a, cmd[c].key, cmd[c].limits)
    BY <2>1, <2>2 DEF Resolved
  <2> QED
    BY <2>3
<1> QED
  BY <1>1, <1>2, <1>3 DEF Found

\* A command that resolves its key against a store.
LEMMA ChooseOfflineKeeps ==
    ASSUME KeyInv, NEW c \in Commands, ChooseOffline(c)
    PROVE  KeyInv'
<1>1. KeyTypeOK /\ c \in Stores
  BY DEF KeyInv, Stores
<1>2. PICK r \in MayReload(c) :
         /\ cache' = [cache EXCEPT ![c] = r[1]]
         /\ ghost' = [ghost EXCEPT !.ver[c] = r[2], !.raced[c] = r[2] # file.stamp]
         /\ Found(c, r[1].keys) \/ NotFound(c, r[1].keys) \/ KeysAdd(c, r[1].keys)
  BY DEF ChooseOffline
<1>3. PICK k, x : <<k, x>> \in MayReload(c) /\ k = r[1] /\ x = r[2]
  BY DEF MayReload
<1>4. PICK y : y = (x # file.stamp)
  OBVIOUS
<1>5. y \in BOOLEAN /\ (~y => x = file.stamp)
  BY <1>4
<1>6. PICK a, ke, l : Resolved(c, k.keys, a, ke, l)
  BY <1>1, <1>2, <1>3, ResolveMeans
<1>7. cmd[c].at = "probed" /\ cmd[c].via = "file" /\ UNCHANGED <<file, host, starts>> /\ cache' = [cache EXCEPT ![c] = k]
  BY <1>2, <1>3 DEF ChooseOffline
<1>8. ghost' = [ghost EXCEPT !.ver[c] = x, !.raced[c] = y]
  BY <1>2, <1>3, <1>4
<1>9. /\ IsGhost(ghost', [ghost.ver EXCEPT ![c] = x], ghost.wrote, [ghost.raced EXCEPT ![c] = y],
                 ghost.blind, [ghost.told EXCEPT ![c] = ghost.told[c]])
      /\ ghost.told[c] \in Nat /\ ghost'.told = ghost.told /\ ghost'.raced[c] = y
      /\ ghost'.ver = [ghost.ver EXCEPT ![c] = x] /\ ghost'.blind = ghost.blind
  BY <1>1, <1>8, GhostChosen
<1>12. ghost'.told = ghost.told /\ ghost'.raced[c] = y
  BY <1>9
<1>13. CmdStep(c, a, cmd[c].verb, cmd[c].via, ke, cmd[c].field, l) /\ a \in {"chosen", "failed"}
       /\ (a = "chosen" /\ cmd[c].verb = "limits" => l = [k.keys[ke].limits EXCEPT ![cmd[c].field] = c])
  BY <1>6 DEF Resolved
<1>14. cmd'[c].at = a /\ cmd'[c].verb = cmd[c].verb /\ cmd'[c].via = cmd[c].via /\ cmd'[c].key = ke /\ cmd'[c].field = cmd[c].field /\ cmd'[c].limits = l
  BY <1>1, <1>13, CmdAfter
<1>15. OwnStep(c)
  <2>1. ghost'.told[c] = 0 /\ ghost'.told[c] <= starts
    BY <1>7, <1>12, Untold
  <2>2. c \notin Handling' /\ cmd'[c].at # "renamed" /\ cmd'[c].at # "loaded" /\ cmd'[c].at # "done"
    BY <1>7, <1>13, <1>14 DEF Handling, Mutating
  <2>3. cmd[c].at \notin Ended
    BY <1>7 DEF Ended
  <2>4. ASSUME HasRead(c)', cmd'[c].verb = "limits", ~ghost'.raced[c]
        PROVE  cmd'[c].limits = [file.keys[cmd'[c].key].limits EXCEPT ![cmd'[c].field] = c]
    <3>1. a = "chosen"
      BY <2>4, <1>13, <1>14 DEF HasRead
    <3>2. k.keys = file.keys
      BY <2>4, <1>1, <1>3, <1>5, <1>12, PairKeys
    <3> QED
      BY <3>1, <3>2, <2>4, <1>13, <1>14
  <2> QED
    BY <2>1, <2>2, <2>3, <2>4 DEF OwnStep
<1> QED
  BY <1>1, <1>3, <1>5, <1>7, <1>9, <1>13, <1>15, ReadStep

\* remoteKey reads the host's list.
LEMMA ChooseOnlineKeeps ==
    ASSUME KeyInv, NEW c \in Commands, ChooseOnline(c)
    PROVE  KeyInv'
<1>1. KeyTypeOK /\ Host \in Stores
  BY DEF KeyInv, Stores
<1>2. PICK r \in MayReload(Host) :
         /\ cache' = [cache EXCEPT ![Host] = r[1]]
         /\ ghost' = [ghost EXCEPT !.ver[Host] = r[2]]
         /\ Found(c, r[1].keys) \/ NotFound(c, r[1].keys) \/ KeysAdd(c, r[1].keys)
  BY DEF ChooseOnline
<1>3. PICK k, x : <<k, x>> \in MayReload(Host) /\ k = r[1] /\ x = r[2]
  BY DEF MayReload
<1>4. PICK a, ke, l : Resolved(c, k.keys, a, ke, l)
  BY <1>1, <1>2, <1>3, ResolveMeans
<1>5. cmd[c].at = "probed" /\ cmd[c].via = "host" /\ UNCHANGED <<file, host, starts>> /\ cache' = [cache EXCEPT ![Host] = k]
  BY <1>2, <1>3 DEF ChooseOnline
<1>6. ghost' = [ghost EXCEPT !.ver[Host] = x]
  BY <1>2, <1>3
<1>7. /\ IsGhost(ghost', [ghost.ver EXCEPT ![Host] = x], ghost.wrote, [ghost.raced EXCEPT ![c] = ghost.raced[c]],
                 ghost.blind, [ghost.told EXCEPT ![c] = ghost.told[c]])
      /\ ghost.raced[c] \in BOOLEAN /\ ghost.told[c] \in Nat /\ ghost'.told = ghost.told
  BY <1>1, <1>6, GhostRead
<1>8. CmdStep(c, a, cmd[c].verb, cmd[c].via, ke, cmd[c].field, l) /\ a \in {"chosen", "failed"}
  BY <1>4 DEF Resolved
<1>9. cmd'[c].at = a /\ cmd'[c].via = cmd[c].via
  BY <1>1, <1>8, CmdAfter
<1>10. OwnStep(c)
  <2>1. ghost'.told[c] = 0 /\ ghost'.told[c] <= starts
    BY <1>5, <1>7, Untold
  <2>2. c \notin Handling' /\ cmd'[c].at # "renamed" /\ cmd'[c].at # "loaded" /\ cmd'[c].at # "done" /\ ~HasRead(c)'
    BY <1>5, <1>8, <1>9 DEF Handling, Mutating, HasRead
  <2>3. cmd[c].at \notin Ended
    BY <1>5 DEF Ended
  <2> QED
    BY <2>1, <2>2, <2>3 DEF OwnStep
<1> QED
  BY <1>1, <1>3, <1>5, <1>7, <1>8, <1>10, ReadStep

\* The routes check against the host's snapshot, one at a time.
LEMMA AcceptKeeps ==
    ASSUME KeyInv, NEW c \in Commands, Accept(c)
    PROVE  KeyInv'
<1>1. KeyTypeOK /\ Host \in Stores
  BY DEF KeyInv, Stores
<1>2. PICK r \in MayReload(Host) :
         /\ cache' = [cache EXCEPT ![Host] = r[1]]
         /\ ghost' = [ghost EXCEPT !.ver[Host] = r[2], !.raced[c] = r[2] # file.stamp]
         /\ \/ PostKey(c, r[1].keys) \/ PostAction(c, r[1].keys)
            \/ PatchKey(c, r[1].keys) \/ RouteRefuses(c, r[1].keys)
  BY DEF Accept
<1>3. PICK k, x : <<k, x>> \in MayReload(Host) /\ k = r[1] /\ x = r[2]
  BY DEF MayReload
<1>4. PICK y : y = (x # file.stamp)
  OBVIOUS
<1>5. y \in BOOLEAN /\ (~y => x = file.stamp)
  BY <1>4
<1>6. PICK a, l : /\ CmdStep(c, a, cmd[c].verb, cmd[c].via, cmd[c].key, cmd[c].field, l) /\ a \in {"accepted", "failed"}
                  /\ a = "accepted" /\ cmd[c].verb = "limits" => l = [k.keys[cmd[c].key].limits EXCEPT ![cmd[c].field] = c]
  <2>0. "limits" \notin Adds /\ "limits" \notin DOMAIN NewStatus \cup {"rotate"}
    BY DEF Adds, NewStatus
  <2>1. CASE PatchKey(c, k.keys)
    <3>1. PICK l : l = [k.keys[cmd[c].key].limits EXCEPT ![cmd[c].field] = c]
      OBVIOUS
    <3>2. cmd' = [cmd EXCEPT ![c].at = "accepted", ![c].limits = l]
      BY <2>1, <3>1 DEF PatchKey
    <3>3. CmdStep(c, "accepted", cmd[c].verb, cmd[c].via, cmd[c].key, cmd[c].field, l)
      BY <3>2, <1>1, CmdAtLimits
    <3> QED
      BY <3>1, <3>3
  <2>2. CASE PostKey(c, k.keys) \/ PostAction(c, k.keys) \/ RouteRefuses(c, k.keys)
    <3>1. PICK a : a \in {"accepted", "failed"} /\ cmd' = [cmd EXCEPT ![c].at = a] /\ (a = "accepted" => cmd[c].verb # "limits")
      BY <2>0, <2>2 DEF PostKey, PostAction, RouteRefuses
    <3>2. CmdStep(c, a, cmd[c].verb, cmd[c].via, cmd[c].key, cmd[c].field, cmd[c].limits)
      BY <3>1, <1>1, CmdAt
    <3> QED
      BY <3>1, <3>2
  <2> QED
    BY <2>1, <2>2, <1>2, <1>3
<1>7. cmd[c].at = "chosen" /\ cmd[c].via = "host" /\ Handling = {} /\ UNCHANGED <<file, host, starts>> /\ cache' = [cache EXCEPT ![Host] = k]
  BY <1>2, <1>3 DEF Accept
<1>8. ghost' = [ghost EXCEPT !.ver[Host] = x, !.raced[c] = y]
  BY <1>2, <1>3, <1>4
<1>9. /\ IsGhost(ghost', [ghost.ver EXCEPT ![Host] = x], ghost.wrote, [ghost.raced EXCEPT ![c] = y],
                 ghost.blind, [ghost.told EXCEPT ![c] = ghost.told[c]])
      /\ ghost.told[c] \in Nat /\ ghost'.told = ghost.told /\ ghost'.raced[c] = y
      /\ ghost'.ver = [ghost.ver EXCEPT ![Host] = x] /\ ghost'.blind = ghost.blind
  BY <1>1, <1>8, GhostChosen
<1>10. ghost'.told = ghost.told /\ ghost'.raced[c] = y
  BY <1>9
<1>11. cmd'[c].at = a /\ cmd'[c].verb = cmd[c].verb /\ cmd'[c].via = cmd[c].via /\ cmd'[c].key = cmd[c].key
       /\ cmd'[c].field = cmd[c].field /\ cmd'[c].limits = l
  BY <1>1, <1>6, CmdAfter
<1>12. OwnStep(c)
  <2>1. ghost'.told[c] = 0 /\ ghost'.told[c] <= starts
    BY <1>7, <1>10, Untold
  <2>2. cmd'[c].at # "renamed" /\ cmd'[c].at # "loaded" /\ cmd'[c].at # "done"
    BY <1>6, <1>11
  <2>3. cmd[c].at \notin Ended
    BY <1>7 DEF Ended
  <2>4. ASSUME HasRead(c)', cmd'[c].verb = "limits", ~ghost'.raced[c]
        PROVE  cmd'[c].limits = [file.keys[cmd'[c].key].limits EXCEPT ![cmd'[c].field] = c]
    <3>1. a = "accepted"
      BY <2>4, <1>6, <1>11 DEF HasRead
    <3>2. k.keys = file.keys
      BY <2>4, <1>1, <1>3, <1>5, <1>10, PairKeys
    <3> QED
      BY <3>1, <3>2, <2>4, <1>6, <1>11
  <2> QED
    BY <2>1, <2>2, <2>3, <2>4, <1>7 DEF OwnStep
<1> QED
  BY <1>1, <1>3, <1>5, <1>6, <1>7, <1>9, <1>12, ReadStep

\* After a reload past the throttle, a host that is not misled has the file's version.
LEMMA ForcedReload ==
    ASSUME KeyInv, cache' = [cache EXCEPT ![Host] = Reloaded(Host)], ghost'.ver = [ghost.ver EXCEPT ![Host] = VerAfter(Host)],
           ghost'.blind = ghost.blind, ~HostMisled'
    PROVE  ghost'.ver[Host] = file.stamp
<1>1. Host \in Stores /\ cache = [s \in Stores |-> cache[s]] /\ ghost.ver \in [Stores -> Nat]
  BY DEF KeyInv, KeyTypeOK, Stores
<1>2. cache'[Host] = Reloaded(Host) /\ ghost'.ver[Host] = VerAfter(Host)
  BY <1>1
<1>3. CASE cache[Host].stamp = file.stamp
  <2>1. ghost.blind # file.stamp
    BY <1>2, <1>3 DEF HostMisled, Reloaded
  <2> QED
    BY <1>2, <1>3, <2>1 DEF KeyInv, StampsOK, VerAfter
<1>4. CASE cache[Host].stamp # file.stamp
  BY <1>2, <1>4 DEF VerAfter
<1> QED
  BY <1>3, <1>4

\* The host's reload as a command ends.
LEMMA TellKeeps ==
    ASSUME KeyInv, NEW c \in Commands, NEW a \in {"done", "failed"}, cmd' = [cmd EXCEPT ![c].at = a],
           cache' = [cache EXCEPT ![Host] = Reloaded(Host)],
           ghost' = [ghost EXCEPT !.ver[Host] = VerAfter(Host), !.told[c] = starts],
           UNCHANGED <<file, host, starts>>, \A d \in Handling \ {c} : cmd[d].at # "renamed"
    PROVE  KeyInv'
<1>1. KeyTypeOK /\ Host \in Stores /\ starts \in Nat
  BY DEF KeyInv, Stores, KeyTypeOK
<1>2. CmdStep(c, a, cmd[c].verb, cmd[c].via, cmd[c].key, cmd[c].field, cmd[c].limits)
  BY <1>1, CmdAt
<1>3. cmd'[c].at = a
  BY <1>1, <1>2, CmdAfter
<1>4. <<Reloaded(Host), VerAfter(Host)>> \in MayReload(Host)
  BY DEF MayReload
<1>5. /\ IsGhost(ghost', [ghost.ver EXCEPT ![Host] = VerAfter(Host)], ghost.wrote, [ghost.raced EXCEPT ![c] = ghost.raced[c]],
                 ghost.blind, [ghost.told EXCEPT ![c] = starts])
      /\ ghost.raced[c] \in BOOLEAN /\ ghost'.told[c] = starts
      /\ ghost'.ver = [ghost.ver EXCEPT ![Host] = VerAfter(Host)] /\ ghost'.blind = ghost.blind
  BY <1>1, GhostTells
<1>6. ghost'.told[c] = starts /\ ghost'.ver = [ghost.ver EXCEPT ![Host] = VerAfter(Host)] /\ ghost'.blind = ghost.blind
  BY <1>5
<1>7. ~HostMisled' => ghost'.ver[Host] = file.stamp
  BY <1>6, ForcedReload
<1>8. c \notin Handling' /\ ~HasRead(c)' /\ cmd'[c].at # "renamed" /\ cmd'[c].at # "loaded"
  BY <1>3 DEF Handling, HasRead, Mutating
<1>9. OwnStep(c)
  BY <1>1, <1>3, <1>6, <1>7, <1>8 DEF OwnStep, Ended
<1> QED
  BY <1>1, <1>2, <1>4, <1>5, <1>9, ReadStep

\* The routes' last act.
LEMMA AppliedKeeps ==
    ASSUME KeyInv, NEW c \in Commands, Applied(c)
    PROVE  KeyInv'
<1>1. c \in Handling /\ cmd[c].at = "saved"
  BY DEF Applied, Handling
<1>2. \A d \in Handling \ {c} : cmd[d].at # "renamed"
  BY <1>1 DEF KeyInv, HostOK
<1>3. PICK a \in {"done", "failed"} : cmd' = [cmd EXCEPT ![c].at = a]
  BY DEF Applied
<1> QED
  BY <1>2, <1>3, TellKeeps DEF Applied

\* reloadHost after a change of the file.
LEMMA PokeKeeps ==
    ASSUME KeyInv, NEW c \in Commands, Poke(c)
    PROVE  KeyInv'
<1>1. KeyTypeOK /\ cmd[c].at = "saved" /\ cmd' = [cmd EXCEPT ![c].at = "done"]
  BY DEF KeyInv, Poke
<1>2. CASE host = "up"
  <2>1. \A d \in Handling \ {c} : cmd[d].at # "renamed"
    BY <1>2 DEF Poke, HostBusy, Handling, Mutating
  <2>2. cache' = [cache EXCEPT ![Host] = Reloaded(Host)] /\ ghost' = [ghost EXCEPT !.ver[Host] = VerAfter(Host), !.told[c] = starts]
        /\ UNCHANGED <<file, host, starts>>
    BY <1>2 DEF Poke
  <2> QED
    BY <1>1, <2>1, <2>2, TellKeeps
<1>3. CASE host # "up"
  <2>1. UNCHANGED <<file, host, starts, cache, ghost>>
    BY <1>3 DEF Poke
  <2>2. CmdStep(c, "done", cmd[c].verb, cmd[c].via, cmd[c].key, cmd[c].field, cmd[c].limits)
    BY <1>1, CmdAt
  <2>3. cmd'[c].at = "done"
    BY <1>1, <2>2, CmdAfter
  <2>4. OwnStep(c)
    BY <1>1, <2>1, <2>3, PlainStep
  <2> QED
    BY <2>1, <2>2, <2>4, QuietStep
<1> QED
  BY <1>2, <1>3

\* mutate's forced reload: the command goes on with what the file has.
LEMMA BeginMutateKeeps ==
    ASSUME KeyInv, NEW c \in Commands, BeginMutate(c)
    PROVE  KeyInv'
<1>1. PICK s : s = StoreOf(c)
  OBVIOUS
<1>2. KeyTypeOK /\ s \in Stores /\ (cmd[c].via = "host" <=> s = Host) /\ (cmd[c].via # "host" => s = c)
  BY <1>1, KeysAssumption DEF KeyInv, Stores, StoreOf
<1>3. PICK y : y = (ghost.raced[c] /\ cmd[c].verb = "limits")
  OBVIOUS
<1>4. y \in BOOLEAN /\ (~y /\ cmd[c].verb = "limits" => ~ghost.raced[c])
  BY <1>3
<1>5. cmd[c].at = (IF s = Host THEN "accepted" ELSE "chosen") /\ cache' = [cache EXCEPT ![s] = Reloaded(s)] /\ UNCHANGED <<file, host, starts>>
  BY <1>1 DEF BeginMutate
<1>6. ghost' = [ghost EXCEPT !.ver[s] = VerAfter(s), !.raced[c] = y]
  <2> DEFINE g == [ghost EXCEPT !.ver[s] = VerAfter(s)]
  <2>1. ghost' = [g EXCEPT !.raced[c] = g.raced[c] /\ cmd[c].verb = "limits"]
    BY <1>1 DEF BeginMutate
  <2>2. IsGhost(g, [ghost.ver EXCEPT ![s] = VerAfter(s)], ghost.wrote, ghost.raced, ghost.blind, ghost.told)
    BY <1>2, GhostNow, GhostVer
  <2> HIDE DEF g
  <2>3. g.raced = ghost.raced
    BY <2>2, GhostFields
  <2>4. ghost' = [g EXCEPT !.raced[c] = y]
    BY <1>3, <2>1, <2>3
  <2> QED
    BY <2>4 DEF g
<1>7. /\ IsGhost(ghost', [ghost.ver EXCEPT ![s] = VerAfter(s)], ghost.wrote, [ghost.raced EXCEPT ![c] = y],
                 ghost.blind, [ghost.told EXCEPT ![c] = ghost.told[c]])
      /\ ghost.told[c] \in Nat /\ ghost'.told = ghost.told /\ ghost'.raced[c] = y
      /\ ghost'.ver = [ghost.ver EXCEPT ![s] = VerAfter(s)] /\ ghost'.blind = ghost.blind
  BY <1>2, <1>6, GhostChosen
<1>8. PICK a, ke : /\ CmdStep(c, a, cmd[c].verb, cmd[c].via, ke, cmd[c].field, cmd[c].limits)
                   /\ a \in {"loaded", "failed"} /\ (cmd[c].verb = "limits" => ke = cmd[c].key)
  <2>1. CASE \E a \in {"loaded", "failed"} : cmd' = [cmd EXCEPT ![c].at = a]
    BY <2>1, <1>2, CmdAt
  <2>2. CASE cmd[c].verb \in Adds /\ \E k : cmd' = [cmd EXCEPT ![c].at = "loaded", ![c].key = k]
    <3>1. PICK k : cmd' = [cmd EXCEPT ![c].at = "loaded", ![c].key = k]
      BY <2>2
    <3>2. CmdStep(c, "loaded", cmd[c].verb, cmd[c].via, k, cmd[c].field, cmd[c].limits)
      BY <3>1, <1>2, CmdAtKey
    <3>3. cmd[c].verb # "limits"
      BY <2>2 DEF Adds
    <3> QED
      BY <3>2, <3>3
  <2> QED
    BY <2>1, <2>2 DEF BeginMutate
<1>9. cmd'[c].at = a /\ cmd'[c].verb = cmd[c].verb /\ cmd'[c].via = cmd[c].via /\ cmd'[c].key = ke
      /\ cmd'[c].field = cmd[c].field /\ cmd'[c].limits = cmd[c].limits
  BY <1>2, <1>8, CmdAfter
<1>10. OwnStep(c)
  <2>1. ghost'.told[c] = 0 /\ ghost'.told[c] <= starts
    BY <1>5, <1>7, Untold
  <2>2. c \in Handling' => c \in Handling
    BY <1>2, <1>5, <1>9 DEF Handling
  <2>3. cmd'[c].at # "renamed" /\ cmd'[c].at # "done" /\ cmd[c].at \notin Ended
    BY <1>5, <1>8, <1>9 DEF Ended
  <2>4. ASSUME cmd'[c].via = "host" => ~HostMisled' PROVE ghost'.ver[StoreOf(c)'] = file.stamp
    <3>1. StoreOf(c)' = s
      BY <1>2, <1>9 DEF StoreOf
    <3>2. CASE s = Host
      BY <2>4, <3>1, <3>2, <1>2, <1>5, <1>7, <1>9, ForcedReload
    <3>3. CASE s # Host
      <4>1. s = c /\ cmd[c].at \notin {"renamed", "saved", "done", "failed"} /\ ghost.ver \in [Stores -> Nat]
        BY <3>3, <1>2, <1>5 DEF KeyTypeOK
      <4>2. ghost'.ver[s] = VerAfter(s)
        BY <4>1, <1>2, <1>7
      <4>3. VerAfter(s) = file.stamp
        BY <4>1 DEF KeyInv, StampsOK, VerAfter
      <4> QED
        BY <3>1, <4>2, <4>3
    <3> QED
      BY <3>2, <3>3
  <2>5. ASSUME cmd'[c].verb = "limits", ~ghost'.raced[c]
        PROVE  cmd'[c].limits = [file.keys[cmd'[c].key].limits EXCEPT ![cmd'[c].field] = c]
    <3>1. HasRead(c)
      BY <1>2, <1>5 DEF HasRead
    <3>2. cmd[c].verb = "limits" /\ ~ghost.raced[c] /\ ke = cmd[c].key
      BY <2>5, <1>4, <1>7, <1>8, <1>9
    <3>3. cmd[c].limits = [file.keys[cmd[c].key].limits EXCEPT ![cmd[c].field] = c]
      BY <3>1, <3>2 DEF KeyInv, ReadsOK
    <3> QED
      BY <3>2, <3>3, <1>9
  <2> QED
    BY <2>1, <2>2, <2>3, <2>4, <2>5 DEF OwnStep
<1>11. <<Reloaded(s), VerAfter(s)>> \in MayReload(s)
  BY DEF MayReload
<1> QED
  BY <1>2, <1>4, <1>5, <1>7, <1>8, <1>10, <1>11, ReadStep

\* A friend's request.
LEMMA LookupKeeps ==
    ASSUME KeyInv, NEW sec, Lookup(sec)
    PROVE  KeyInv'
<1>1. KeyTypeOK /\ Host \in Stores /\ Host \notin Commands
  BY KeysAssumption DEF KeyInv, Stores
<1>2. PICK k, x : <<k, x>> \in MayReload(Host) /\ cache' = [cache EXCEPT ![Host] = k] /\ ghost' = [ghost EXCEPT !.ver[Host] = x]
  <2>1. PICK r \in MayReload(Host), h \in BOOLEAN :
           /\ cache' = [cache EXCEPT ![Host] = IF h THEN r[1] ELSE Reloaded(Host)]
           /\ ghost' = [ghost EXCEPT !.ver[Host] = IF h THEN r[2] ELSE VerAfter(Host)]
    <3>1. PICK r \in MayReload(Host) :
             /\ cache' = [cache EXCEPT ![Host] = IF \E k \in DOMAIN r[1].keys : r[1].keys[k].secret = sec THEN r[1] ELSE Reloaded(Host)]
             /\ ghost' = [ghost EXCEPT !.ver[Host] = IF \E k \in DOMAIN r[1].keys : r[1].keys[k].secret = sec THEN r[2] ELSE VerAfter(Host)]
      BY DEF Lookup
    <3>2. PICK h : h = (\E k \in DOMAIN r[1].keys : r[1].keys[k].secret = sec)
      OBVIOUS
    <3>3. h \in BOOLEAN
      BY <3>2
    <3> QED
      BY <3>1, <3>2, <3>3
  <2>2. <<r[1], r[2]>> \in MayReload(Host) /\ <<Reloaded(Host), VerAfter(Host)>> \in MayReload(Host)
    BY DEF MayReload
  <2>3. CASE h
    BY <2>1, <2>2, <2>3
  <2>4. CASE ~h
    BY <2>1, <2>2, <2>4
  <2> QED
    BY <2>1, <2>3, <2>4
<1>3. IsGhost(ghost', [ghost.ver EXCEPT ![Host] = x], ghost.wrote, ghost.raced, ghost.blind, ghost.told)
  BY <1>1, <1>2, GhostNow, GhostVer
<1>4. ghost'.ver = [ghost.ver EXCEPT ![Host] = x] /\ ghost'.wrote = ghost.wrote /\ ghost'.raced = ghost.raced
      /\ ghost'.blind = ghost.blind /\ ghost'.told = ghost.told
  BY <1>3, GhostFields
<1>5. /\ Refreshed(Host) /\ cache' = [t \in Stores |-> cache'[t]] /\ ghost'.ver \in [Stores -> Nat]
      /\ \A t \in Stores : cache'[t] = [stamp |-> cache'[t].stamp, keys |-> cache'[t].keys] /\ cache'[t].stamp \in Nat
  BY <1>1, <1>2, <1>4, ReloadMeans
<1>6. ghost' = [ver |-> ghost'.ver, wrote |-> ghost'.wrote, raced |-> ghost'.raced, blind |-> ghost'.blind, told |-> ghost'.told]
  BY <1>3, <1>4 DEF IsGhost
<1>7. UNCHANGED <<file, host, starts, cmd>>
  BY DEF Lookup
<1>8. KeyTypeOK'
  BY <1>1, <1>4, <1>5, <1>6, <1>7 DEF KeyTypeOK
<1> QED
  BY <1>1, <1>4, <1>5, <1>7, <1>8, ReadKeeps

\* The admin socket is bound.
LEMMA HostListensKeeps ==
    ASSUME KeyInv, HostListens
    PROVE  KeyInv'
<1>1. KeyTypeOK /\ Host \in Stores /\ Host \notin Commands
  BY KeysAssumption DEF KeyInv, Stores
<1>2. UNCHANGED <<file, starts, cache, cmd, ghost>> /\ (host' = "down" <=> host = "down")
  BY DEF HostListens
<1>3. KeyTypeOK' /\ Refreshed(Host)
  BY <1>1, <1>2 DEF KeyTypeOK, Refreshed
<1>4. ghost'.wrote = ghost.wrote /\ ghost'.blind = ghost.blind
  BY <1>2
<1>5. \A d \in Commands \ {Host} : cmd'[d] = cmd[d] /\ ghost'.raced[d] = ghost.raced[d] /\ ghost'.told[d] = ghost.told[d]
  BY <1>2
<1> QED
  BY <1>1, <1>2, <1>3, <1>4, <1>5, ReadKeeps

\* A killed host takes the commands it handles with it.
LEMMA HostDiesKeeps ==
    ASSUME KeyInv, HostDies
    PROVE  KeyInv'
<1>1. KeyTypeOK /\ UNCHANGED <<file, starts, cache, ghost>> /\ host' = "down"
  BY DEF KeyInv, HostDies
<1>2. cmd' = [c \in Commands |-> IF c \in Handling THEN [cmd[c] EXCEPT !.at = "failed"] ELSE cmd[c]]
  BY DEF HostDies
<1>3. \A d \in Commands : d \notin Handling => cmd'[d] = cmd[d]
  BY <1>2
<1>4. \A d \in Commands : d \in Handling =>
        cmd'[d].at = "failed" /\ IsLine(cmd'[d], "failed", cmd[d].verb, cmd[d].via, cmd[d].key, cmd[d].field, cmd[d].limits)
  <2> SUFFICES ASSUME NEW d \in Commands, d \in Handling
               PROVE  cmd'[d].at = "failed" /\ IsLine(cmd'[d], "failed", cmd[d].verb, cmd[d].via, cmd[d].key, cmd[d].field, cmd[d].limits)
    OBVIOUS
  <2>1. PICK m : m = cmd[d]
    OBVIOUS
  <2>2. IsLine(m, m.at, m.verb, m.via, m.key, m.field, m.limits)
    BY <1>1, <2>1, CmdNow
  <2>3. cmd'[d] = [m EXCEPT !.at = "failed"]
    BY <1>2, <2>1
  <2>4. IsLine(cmd'[d], "failed", m.verb, m.via, m.key, m.field, m.limits)
    BY <2>2, <2>3 DEF IsLine
  <2> QED
    BY <2>1, <2>4, LineFields
<1>5. \A d \in Commands : cmd'[d].at = "failed" \/ cmd'[d] = cmd[d]
  BY <1>3, <1>4
<1>6. Handling' = {}
  BY <1>3, <1>4 DEF Handling, Mutating
<1>7. KeyTypeOK'
  <2>1. cmd' = [c \in Commands |-> cmd'[c]]
    BY <1>2
  <2>2. \A d \in Commands : IsLine(cmd'[d], cmd'[d].at, cmd'[d].verb, cmd'[d].via, cmd'[d].key, cmd'[d].field, cmd'[d].limits)
    <3> TAKE d \in Commands
    <3>1. CASE d \in Handling
      BY <3>1, <1>4, LineFields
    <3>2. CASE d \notin Handling
      BY <3>2, <1>1, <1>3, CmdNow
    <3> QED
      BY <3>1, <3>2
  <2> QED
    BY <1>1, <2>1, <2>2 DEF KeyTypeOK
<1>8. VersionsOK'
  BY <1>1 DEF KeyInv, VersionsOK
<1>9. StampsOK'
  BY <1>1, <1>5 DEF KeyInv, StampsOK
<1>10. HostOK'
  BY <1>1, <1>6 DEF HostOK
<1>11. ReadsOK'
  <2> SUFFICES ASSUME NEW d \in Commands
               PROVE  /\ cmd'[d].at \notin {"done", "failed"} => ghost'.told[d] = 0
                      /\ cmd'[d].at = "loaded" /\ ~ghost'.raced[d] /\ (cmd'[d].via = "host" => ~HostMisled')
                           => ghost'.ver[StoreOf(d)'] = file'.stamp
                      /\ HasRead(d)' /\ cmd'[d].verb = "limits" /\ ~ghost'.raced[d]
                           => cmd'[d].limits = [file'.keys[cmd'[d].key].limits EXCEPT ![cmd'[d].field] = d]
    BY DEF ReadsOK
  <2>1. CASE cmd'[d].at = "failed"
    BY <2>1 DEF HasRead
  <2>2. CASE cmd'[d] = cmd[d]
    <3>1. (HostMisled' <=> HostMisled) /\ StoreOf(d)' = StoreOf(d) /\ (HasRead(d)' <=> HasRead(d))
      BY <2>2, <1>1 DEF HostMisled, StoreOf, HasRead
    <3> QED
      BY <2>2, <3>1, <1>1 DEF KeyInv, ReadsOK
  <2> QED
    BY <2>1, <2>2, <1>5
<1>12. InForceOnReturn'
  BY <1>1 DEF InForceOnReturn
<1> QED
  BY <1>7, <1>8, <1>9, <1>10, <1>11, <1>12 DEF KeyInv

\* A host that starts reads the file.
LEMMA HostLoadsKeeps ==
    ASSUME KeyInv, HostLoads
    PROVE  KeyInv'
<1>1. KeyTypeOK /\ UNCHANGED <<file, cmd>> /\ starts' = starts + 1 /\ Host \in Stores /\ Host \notin Commands
  BY KeysAssumption DEF KeyInv, HostLoads, Stores
<1>2. cache' = [cache EXCEPT ![Host] = [stamp |-> file.stamp, keys |-> file.keys]]
  BY DEF HostLoads
<1>3. IsGhost(ghost', [ghost.ver EXCEPT ![Host] = file.stamp], ghost.wrote, ghost.raced, 0, ghost.told)
  <2> DEFINE g == [ghost EXCEPT !.ver[Host] = file.stamp]
  <2>1. IsGhost(g, [ghost.ver EXCEPT ![Host] = file.stamp], ghost.wrote, ghost.raced, ghost.blind, ghost.told)
    BY <1>1, GhostNow, GhostVer
  <2>2. ghost' = [g EXCEPT !.blind = 0]
    BY DEF HostLoads
  <2> HIDE DEF g
  <2> QED
    BY <2>1, <2>2, GhostWhole
<1>4. ghost'.ver = [ghost.ver EXCEPT ![Host] = file.stamp] /\ ghost'.wrote = ghost.wrote /\ ghost'.raced = ghost.raced
      /\ ghost'.blind = 0 /\ ghost'.told = ghost.told
  BY <1>3, GhostFields
<1>5. /\ file.stamp \in Nat /\ starts \in Nat /\ cache = [t \in Stores |-> cache[t]]
      /\ ghost.ver \in [Stores -> Nat] /\ ghost.told \in [Commands -> Nat] /\ ghost.wrote \in [Commands -> Nat]
  BY <1>1 DEF KeyTypeOK
<1>6. /\ cache'[Host] = [stamp |-> file.stamp, keys |-> file.keys] /\ ghost'.ver[Host] = file.stamp
      /\ \A t \in Stores \ {Host} : cache'[t] = cache[t] /\ ghost'.ver[t] = ghost.ver[t]
  BY <1>1, <1>2, <1>4, <1>5
<1>7. KeyTypeOK'
  <2>1. cache' = [t \in Stores |-> cache'[t]] /\ ghost'.ver \in [Stores -> Nat]
    BY <1>2, <1>4, <1>5
  <2>2. \A t \in Stores : cache'[t] = [stamp |-> cache'[t].stamp, keys |-> cache'[t].keys] /\ cache'[t].stamp \in Nat
    BY <1>1, <1>5, <1>6 DEF KeyTypeOK
  <2>3. ghost' = [ver |-> ghost'.ver, wrote |-> ghost'.wrote, raced |-> ghost'.raced, blind |-> ghost'.blind, told |-> ghost'.told]
    BY <1>3, <1>4 DEF IsGhost
  <2>4. starts' \in Nat /\ ghost'.blind \in Nat
    BY <1>1, <1>4, <1>5
  <2> QED
    BY <1>1, <1>4, <2>1, <2>2, <2>3, <2>4 DEF KeyTypeOK
<1>8. \A d \in Commands : ghost.told[d] <= starts /\ ghost'.told[d] = ghost.told[d] /\ ghost.told[d] \in Nat
  BY <1>4, <1>5 DEF KeyInv, VersionsOK
<1>9. \A d \in Commands : ghost'.told[d] <= starts' /\ ghost'.told[d] # starts'
  BY <1>1, <1>5, <1>8
<1>10. VersionsOK'
  <2>1. \A t \in Stores : /\ cache'[t].stamp <= file.stamp /\ ghost'.ver[t] <= file.stamp
                          /\ ghost'.ver[t] = file.stamp => cache'[t].keys = file.keys
    <3> TAKE t \in Stores
    <3>1. CASE t = Host
      BY <3>1, <1>5, <1>6
    <3>2. CASE t # Host
      BY <3>2, <1>6 DEF KeyInv, VersionsOK
    <3> QED
      BY <3>1, <3>2
  <2> QED
    BY <2>1, <1>1, <1>4, <1>9 DEF KeyInv, VersionsOK
<1>11. StampsOK'
  BY <1>1, <1>6 DEF KeyInv, StampsOK, Stores
<1>12. HostOK'
  <2>1. Handling' = Handling /\ starts' # 0
    BY <1>1, <1>5 DEF Handling
  <2> QED
    BY <1>1, <1>6, <1>9, <2>1 DEF KeyInv, HostOK, Handling
<1>13. ReadsOK'
  <2>1. \A d \in Commands : ghost'.ver[StoreOf(d)] = file.stamp \/ (cmd[d].via # "host" /\ ghost'.ver[StoreOf(d)] = ghost.ver[StoreOf(d)])
    BY <1>1, <1>6 DEF StoreOf, Stores
  <2>2. \A d \in Commands : StoreOf(d)' = StoreOf(d) /\ (HasRead(d)' <=> HasRead(d)) /\ cmd'[d] = cmd[d]
    BY <1>1 DEF StoreOf, HasRead
  <2> QED
    BY <1>1, <1>4, <2>1, <2>2 DEF KeyInv, ReadsOK
<1>14. InForceOnReturn'
  BY <1>9 DEF InForceOnReturn
<1> QED
  BY <1>7, <1>10, <1>11, <1>12, <1>13, <1>14 DEF KeyInv

\* What a rename leaves in the history: the new version is the writer's, and whoever has
\* read and not yet renamed was overtaken.
LEMMA RenameHistory ==
    ASSUME KeyTypeOK, NEW c \in Commands, Rename(c), NEW s, s = StoreOf(c)
    PROVE  \E r, b :
             /\ IsGhost(ghost', [ghost.ver EXCEPT ![s] = file.stamp + 1], [ghost.wrote EXCEPT ![c] = file.stamp + 1], r, b, ghost.told)
             /\ r = [d \in Commands |-> ghost.raced[d] \/ (d # c /\ cmd[d].at \in {"chosen", "accepted", "loaded"})]
             /\ b = IF s # Host /\ \E d \in Handling : cmd[d].at = "renamed" THEN file.stamp + 1 ELSE ghost.blind
<1> DEFINE g1 == [ghost EXCEPT !.ver[s] = file.stamp + 1]
           g2 == [g1 EXCEPT !.wrote[c] = file.stamp + 1]
           r == [d \in Commands |-> ghost.raced[d] \/ (d # c /\ cmd[d].at \in {"chosen", "accepted", "loaded"})]
           g3 == [g2 EXCEPT !.raced = r]
           b == IF s # Host /\ \E d \in Handling : cmd[d].at = "renamed" THEN file.stamp + 1 ELSE g3.blind
<1>1. ghost' = [g3 EXCEPT !.blind = b]
  BY DEF Rename
<1>2. IsGhost(g1, [ghost.ver EXCEPT ![s] = file.stamp + 1], ghost.wrote, ghost.raced, ghost.blind, ghost.told)
  BY GhostNow, GhostVer
<1> HIDE DEF g1
<1>3. IsGhost(g2, [ghost.ver EXCEPT ![s] = file.stamp + 1], [ghost.wrote EXCEPT ![c] = file.stamp + 1], ghost.raced, ghost.blind, ghost.told)
  BY <1>2, GhostWrote
<1> HIDE DEF g2, r
<1>4. IsGhost(g3, [ghost.ver EXCEPT ![s] = file.stamp + 1], [ghost.wrote EXCEPT ![c] = file.stamp + 1], r, ghost.blind, ghost.told)
  BY <1>3, GhostWhole
<1> HIDE DEF g3
<1>5. g3.blind = ghost.blind
  BY <1>4, GhostFields
<1>6. b = IF s # Host /\ \E d \in Handling : cmd[d].at = "renamed" THEN file.stamp + 1 ELSE ghost.blind
  BY <1>5
<1> HIDE DEF b
<1>7. IsGhost(ghost', [ghost.ver EXCEPT ![s] = file.stamp + 1], [ghost.wrote EXCEPT ![c] = file.stamp + 1], r, b, ghost.told)
  BY <1>1, <1>4, GhostWhole
<1>8. r = [d \in Commands |-> ghost.raced[d] \/ (d # c /\ cmd[d].at \in {"chosen", "accepted", "loaded"})]
  BY DEF r
<1> QED
  BY <1>6, <1>7, <1>8

\* save's rename.
LEMMA RenameKeeps ==
    ASSUME KeyInv, NEW c \in Commands, Rename(c)
    PROVE  KeyInv'
<1>1. PICK s : s = StoreOf(c)
  OBVIOUS
<1>2. PICK ks : ks = Changed(c, cache[s].keys)
  OBVIOUS
<1>3. /\ KeyTypeOK /\ s \in Stores /\ (cmd[c].via = "host" <=> s = Host) /\ (cmd[c].via # "host" => s = c)
      /\ Host \in Stores /\ Commands \subseteq Stores /\ Host \notin Commands
  BY <1>1, KeysAssumption DEF KeyInv, Stores, StoreOf
<1>4. /\ cmd[c].at = "loaded" /\ file' = [stamp |-> file.stamp + 1, keys |-> ks] /\ cache' = [cache EXCEPT ![s].keys = ks]
      /\ cmd' = [cmd EXCEPT ![c].at = "renamed"] /\ UNCHANGED <<host, starts>>
  BY <1>1, <1>2 DEF Rename
<1>5. PICK r, b :
             /\ IsGhost(ghost', [ghost.ver EXCEPT ![s] = file.stamp + 1], [ghost.wrote EXCEPT ![c] = file.stamp + 1], r, b, ghost.told)
             /\ r = [d \in Commands |-> ghost.raced[d] \/ (d # c /\ cmd[d].at \in {"chosen", "accepted", "loaded"})]
             /\ b = IF s # Host /\ \E d \in Handling : cmd[d].at = "renamed" THEN file.stamp + 1 ELSE ghost.blind
  BY <1>1, <1>3, RenameHistory
<1>6. /\ ghost'.ver = [ghost.ver EXCEPT ![s] = file.stamp + 1] /\ ghost'.wrote = [ghost.wrote EXCEPT ![c] = file.stamp + 1]
      /\ ghost'.raced = r /\ ghost'.blind = b /\ ghost'.told = ghost.told
  BY <1>5, GhostFields
<1>7. PICK N : N = file.stamp + 1
  OBVIOUS
<1>8. /\ file.stamp \in Nat /\ starts \in Nat /\ cache = [t \in Stores |-> cache[t]]
      /\ ghost.ver \in [Stores -> Nat] /\ ghost.wrote \in [Commands -> Nat] /\ ghost.raced \in [Commands -> BOOLEAN]
      /\ ghost.blind \in Nat /\ ghost.told \in [Commands -> Nat]
  BY <1>3 DEF KeyTypeOK
<1>9. N \in Nat /\ N # file.stamp /\ file.stamp <= N /\ \A n \in Nat : n <= file.stamp => n <= N /\ n # N
  BY <1>7, <1>8
<1>10. file'.stamp = N /\ file'.keys = ks /\ file' = [stamp |-> file'.stamp, keys |-> file'.keys]
  BY <1>4, <1>7
<1>11. CmdStep(c, "renamed", cmd[c].verb, cmd[c].via, cmd[c].key, cmd[c].field, cmd[c].limits)
  BY <1>3, <1>4, CmdAt
<1>12. /\ cmd'[c].at = "renamed" /\ cmd'[c].via = cmd[c].via /\ \A d \in Commands \ {c} : cmd'[d] = cmd[d]
       /\ cmd' = [d \in Commands |-> cmd'[d]]
       /\ \A d \in Commands : IsLine(cmd'[d], cmd'[d].at, cmd'[d].verb, cmd'[d].via, cmd'[d].key, cmd'[d].field, cmd'[d].limits)
  BY <1>3, <1>11, CmdAfter
<1>13. /\ cache' = [t \in Stores |-> cache'[t]] /\ \A t \in Stores \ {s} : cache'[t] = cache[t]
       /\ cache'[s] = [stamp |-> cache[s].stamp, keys |-> ks]
  <2>1. PICK m : m = cache[s]
    OBVIOUS
  <2>2. m = [stamp |-> m.stamp, keys |-> m.keys]
    BY <2>1, <1>3 DEF KeyTypeOK
  <2>3. PICK n : n = [m EXCEPT !.keys = ks]
    OBVIOUS
  <2>4. n = [stamp |-> m.stamp, keys |-> ks]
    BY <2>2, <2>3
  <2>5. cache' = [cache EXCEPT ![s] = n]
    BY <1>4, <2>1, <2>3
  <2> QED
    BY <2>1, <2>4, <2>5, <1>3, <1>8
<1>14. \A t \in Stores : cache'[t].stamp = cache[t].stamp /\ cache[t].stamp \in Nat /\ cache[t].stamp <= file.stamp
                         /\ ghost.ver[t] \in Nat /\ ghost.ver[t] <= file.stamp
  BY <1>3, <1>8, <1>13, SMTT(60) DEF KeyInv, KeyTypeOK, VersionsOK
<1>15. ghost'.ver[s] = N /\ cache'[s].keys = ks /\ \A t \in Stores \ {s} : ghost'.ver[t] = ghost.ver[t]
  BY <1>3, <1>6, <1>7, <1>8, <1>13
<1>16. ghost'.wrote[c] = N /\ \A d \in Commands \ {c} : ghost'.wrote[d] = ghost.wrote[d]
  BY <1>6, <1>7, <1>8
<1>17. \A d \in Commands : ghost.wrote[d] \in Nat /\ ghost.wrote[d] <= file.stamp /\ ghost.told[d] <= starts /\ ghost.told[d] \in Nat
  BY <1>8 DEF KeyInv, VersionsOK
<1>18. b = (IF s # Host /\ \E d \in Handling : cmd[d].at = "renamed" THEN N ELSE ghost.blind) /\ b \in Nat
  BY <1>5, <1>7, <1>8, <1>9
<1>19. KeyTypeOK'
  <2>1. ghost'.raced \in [Commands -> BOOLEAN]
    BY <1>5, <1>6, <1>8
  <2>2. ghost'.ver \in [Stores -> Nat] /\ ghost'.wrote \in [Commands -> Nat]
    BY <1>6, <1>7, <1>8, <1>9, ZenonT(60)
  <2>3. \A t \in Stores : cache'[t] = [stamp |-> cache'[t].stamp, keys |-> cache'[t].keys] /\ cache'[t].stamp \in Nat
    BY <1>3, <1>13, <1>14 DEF KeyTypeOK
  <2>4. ghost' = [ver |-> ghost'.ver, wrote |-> ghost'.wrote, raced |-> ghost'.raced, blind |-> ghost'.blind, told |-> ghost'.told]
    BY <1>5, <1>6 DEF IsGhost
  <2>5. file' = [stamp |-> file'.stamp, keys |-> file'.keys] /\ file'.stamp \in Nat /\ starts' \in Nat
    BY <1>4, <1>8, <1>9, <1>10
  <2>6. ghost'.blind \in Nat /\ ghost'.told \in [Commands -> Nat]
    BY <1>6, <1>8, <1>18
  <2> QED
    BY <1>12, <1>13, <2>1, <2>2, <2>3, <2>4, <2>5, <2>6 DEF KeyTypeOK
<1>20. VersionsOK'
  <2>1. \A t \in Stores : /\ cache'[t].stamp <= N /\ ghost'.ver[t] <= N
                          /\ ghost'.ver[t] = N => cache'[t].keys = ks
    <3> TAKE t \in Stores
    <3>1. CASE t = s
      BY <3>1, <1>9, <1>14, <1>15
    <3>2. CASE t # s
      BY <3>2, <1>9, <1>14, <1>15
    <3> QED
      BY <3>1, <3>2
  <2>2. \A d \in Commands : ghost'.wrote[d] <= N /\ ghost'.told[d] <= starts'
    BY <1>4, <1>6, <1>9, <1>16, <1>17
  <2> QED
    BY <2>1, <2>2, <1>10 DEF VersionsOK
<1>21. StampsOK'
  BY <1>3, <1>9, <1>10, <1>14 DEF StampsOK
<1>22. Handling' = Handling /\ (c \in Handling <=> s = Host) /\ Handling \subseteq Commands
  BY <1>3, <1>4, <1>12 DEF Handling, Mutating
<1>23. \A d \in Commands : cmd'[d].at = "done" => d # c /\ cmd[d].at = "done" /\ ghost'.wrote[d] = ghost.wrote[d]
  BY <1>12, <1>16
<1>24. ASSUME NEW e \in Handling, cmd[e].at = "renamed", NEW d \in Commands, cmd[d].at = "done", host # "down", ghost.told[d] = starts
       PROVE  ghost.ver[Host] >= ghost.wrote[d]
  BY <1>24 DEF KeyInv, HostOK
<1>25. HostOK'
  <2>1. ASSUME NEW e \in Handling', cmd'[e].at = "renamed"
        PROVE  /\ ghost'.blind # N => ghost'.ver[Host] = N
               /\ \A d \in Commands : cmd'[d].at = "done" /\ host' # "down" /\ ghost'.told[d] = starts' => ghost'.ver[Host] >= ghost'.wrote[d]
    <3>1. CASE s = Host
      BY <3>1, <1>9, <1>15, <1>17, <1>23
    <3>2. CASE s # Host
      <4>1. e \in Handling /\ e # c /\ cmd[e].at = "renamed"
        BY <2>1, <3>2, <1>12, <1>22
      <4>2. ghost'.blind = N
        BY <3>2, <4>1, <1>6, <1>18
      <4>3. ghost'.ver[Host] = ghost.ver[Host]
        BY <3>2, <1>3, <1>15
      <4> QED
        BY <4>1, <4>2, <4>3, <1>4, <1>6, <1>23, <1>24
    <3> QED
      BY <3>1, <3>2
  <2>2. (\A d, e \in Handling' : d = e) /\ (host' # "down" => starts' # 0)
    BY <1>4, <1>22 DEF KeyInv, HostOK
  <2> QED
    BY <1>10, <2>1, <2>2 DEF HostOK
<1>26. ReadsOK'
  <2>1. \A d \in Commands : cmd'[d].at \notin {"done", "failed"} => ghost'.told[d] = 0
    <3>1. \A d \in Commands : cmd[d].at \notin {"done", "failed"} => ghost.told[d] = 0
      BY DEF KeyInv, ReadsOK
    <3>2. \A d \in Commands : cmd'[d].at \notin {"done", "failed"} => cmd[d].at \notin {"done", "failed"}
      BY <1>4, <1>12
    <3> QED
      BY <3>1, <3>2, <1>6
  <2>2. \A d \in Commands : cmd'[d].at = "loaded" \/ HasRead(d)' => ghost'.raced[d]
    <3> SUFFICES ASSUME NEW d \in Commands, cmd'[d].at = "loaded" \/ HasRead(d)' PROVE ghost'.raced[d]
      OBVIOUS
    <3>1. d # c /\ cmd[d].at \in {"chosen", "accepted", "loaded"}
      BY <1>12 DEF HasRead
    <3> QED
      BY <3>1, <1>5, <1>6
  <2> QED
    BY <2>1, <2>2 DEF ReadsOK
<1>27. InForceOnReturn'
  <2> SUFFICES ASSUME NEW d \in Commands, cmd'[d].at = "done", host' # "down", ghost'.told[d] = starts', ~HostMisled'
               PROVE  ghost'.ver[Host] >= ghost'.wrote[d]
    BY DEF InForceOnReturn
  <2>1. cmd[d].at = "done" /\ host # "down" /\ ghost.told[d] = starts /\ ghost'.wrote[d] = ghost.wrote[d]
    BY <1>4, <1>6, <1>23
  <2>2. CASE s = Host
    BY <2>1, <2>2, <1>9, <1>15, <1>17
  <2>3. CASE s # Host
    <3>1. ghost'.ver[Host] = ghost.ver[Host] /\ cache'[Host].stamp = cache[Host].stamp
      BY <2>3, <1>3, <1>14, <1>15
    <3>2. CASE \E e \in Handling : cmd[e].at = "renamed"
      BY <2>1, <3>1, <3>2, <1>24
    <3>3. CASE ~\E e \in Handling : cmd[e].at = "renamed"
      <4>1. ~HostMisled
        BY <3>1, <3>3, <1>6, <1>18 DEF HostMisled
      <4> QED
        BY <2>1, <3>1, <4>1 DEF KeyInv, InForceOnReturn
    <3> QED
      BY <3>2, <3>3
  <2> QED
    BY <2>2, <2>3
<1> QED
  BY <1>19, <1>20, <1>21, <1>25, <1>26, <1>27 DEF KeyInv

\* save's stat, after the rename.
LEMMA StatKeeps ==
    ASSUME KeyInv, NEW c \in Commands, StatAfterSave(c)
    PROVE  KeyInv'
<1>1. PICK s : s = StoreOf(c)
  OBVIOUS
<1>2. /\ KeyTypeOK /\ s \in Stores /\ (cmd[c].via = "host" <=> s = Host) /\ (cmd[c].via # "host" => s = c)
      /\ Host \in Stores /\ Commands \subseteq Stores /\ Host \notin Commands
  BY <1>1, KeysAssumption DEF KeyInv, Stores, StoreOf
<1>3. /\ cmd[c].at = "renamed" /\ cache' = [cache EXCEPT ![s].stamp = file.stamp]
      /\ cmd' = [cmd EXCEPT ![c].at = "saved"] /\ UNCHANGED <<file, host, starts, ghost>>
  BY <1>1 DEF StatAfterSave
<1>4. CmdStep(c, "saved", cmd[c].verb, cmd[c].via, cmd[c].key, cmd[c].field, cmd[c].limits)
  BY <1>2, <1>3, CmdAt
<1>5. /\ cmd'[c].at = "saved" /\ cmd'[c].via = cmd[c].via /\ \A d \in Commands \ {c} : cmd'[d] = cmd[d]
      /\ cmd' = [d \in Commands |-> cmd'[d]]
      /\ \A d \in Commands : IsLine(cmd'[d], cmd'[d].at, cmd'[d].verb, cmd'[d].via, cmd'[d].key, cmd'[d].field, cmd'[d].limits)
  BY <1>2, <1>4, CmdAfter
<1>6. /\ cache' = [t \in Stores |-> cache'[t]] /\ \A t \in Stores \ {s} : cache'[t] = cache[t]
      /\ cache'[s] = [stamp |-> file.stamp, keys |-> cache[s].keys]
  <2>1. PICK m : m = cache[s]
    OBVIOUS
  <2>2. m = [stamp |-> m.stamp, keys |-> m.keys] /\ cache = [t \in Stores |-> cache[t]]
    BY <2>1, <1>2 DEF KeyTypeOK
  <2>3. PICK n : n = [m EXCEPT !.stamp = file.stamp]
    OBVIOUS
  <2>4. n = [stamp |-> file.stamp, keys |-> m.keys]
    BY <2>2, <2>3
  <2>5. cache' = [cache EXCEPT ![s] = n]
    BY <1>3, <2>1, <2>3
  <2> QED
    BY <2>1, <2>2, <2>4, <2>5, <1>2
<1>7. file.stamp \in Nat /\ file.stamp <= file.stamp
  BY <1>2 DEF KeyTypeOK
<1>8. KeyTypeOK'
  <2>1. \A t \in Stores : cache'[t] = [stamp |-> cache'[t].stamp, keys |-> cache'[t].keys] /\ cache'[t].stamp \in Nat
    BY <1>2, <1>6, <1>7 DEF KeyTypeOK
  <2> QED
    BY <2>1, <1>2, <1>3, <1>5, <1>6 DEF KeyTypeOK
<1>9. VersionsOK'
  <2>1. \A t \in Stores : cache'[t].keys = cache[t].keys /\ cache'[t].stamp <= file.stamp
    BY <1>6, <1>7 DEF KeyInv, VersionsOK
  <2> QED
    BY <2>1, <1>3 DEF KeyInv, VersionsOK
<1>10. Handling' = Handling /\ (c \in Handling <=> s = Host) /\ Handling \subseteq Commands
  BY <1>2, <1>3, <1>5 DEF Handling, Mutating
<1>11. s = Host => /\ ghost.blind # file.stamp => ghost.ver[Host] = file.stamp
                   /\ \A d \in Commands : cmd[d].at = "done" /\ host # "down" /\ ghost.told[d] = starts => ghost.ver[Host] >= ghost.wrote[d]
                   /\ \A d \in Handling : d = c
  BY <1>3, <1>10 DEF KeyInv, HostOK
<1>12. s # Host => cache'[Host] = cache[Host] /\ (HostMisled' <=> HostMisled)
  BY <1>2, <1>3, <1>6 DEF HostMisled
<1>13. StampsOK'
  <2>1. \A d \in Commands : cmd'[d].at \notin {"renamed", "saved", "done", "failed"} => d # c /\ cmd'[d] = cmd[d] /\ cache'[d] = cache[d]
    BY <1>2, <1>5, <1>6
  <2>2. ghost.blind # file.stamp /\ cache'[Host].stamp = file.stamp => ghost.ver[Host] = file.stamp
    <3>1. CASE s = Host
      BY <3>1, <1>11
    <3>2. CASE s # Host
      BY <3>2, <1>12 DEF KeyInv, StampsOK
    <3> QED
      BY <3>1, <3>2
  <2> QED
    BY <2>1, <2>2, <1>3 DEF KeyInv, StampsOK
<1>14. \A d \in Commands : cmd'[d].at = "done" => d # c /\ cmd[d].at = "done"
  BY <1>5
<1>15. HostOK'
  <2>1. ASSUME NEW e \in Handling', cmd'[e].at = "renamed"
        PROVE  /\ ghost.blind # file.stamp => ghost.ver[Host] = file.stamp
               /\ \A d \in Commands : cmd'[d].at = "done" /\ host # "down" /\ ghost.told[d] = starts => ghost.ver[Host] >= ghost.wrote[d]
    <3>1. e \in Handling /\ cmd[e].at = "renamed"
      BY <2>1, <1>3, <1>5, <1>10
    <3> QED
      BY <3>1, <1>14 DEF KeyInv, HostOK
  <2>2. (\A d, e \in Handling' : d = e) /\ (host' # "down" => starts' # 0)
    BY <1>3, <1>10 DEF KeyInv, HostOK
  <2> QED
    BY <1>3, <2>1, <2>2 DEF HostOK
<1>16. ReadsOK'
  <2> SUFFICES ASSUME NEW d \in Commands
               PROVE  /\ cmd'[d].at \notin {"done", "failed"} => ghost.told[d] = 0
                      /\ cmd'[d].at = "loaded" /\ ~ghost.raced[d] /\ (cmd'[d].via = "host" => ~HostMisled')
                           => ghost.ver[StoreOf(d)'] = file.stamp
                      /\ HasRead(d)' /\ cmd'[d].verb = "limits" /\ ~ghost.raced[d]
                           => cmd'[d].limits = [file.keys[cmd'[d].key].limits EXCEPT ![cmd'[d].field] = d]
    BY <1>3 DEF ReadsOK
  <2>1. CASE d = c
    <3>1. ghost.told[c] = 0
      BY <1>3 DEF KeyInv, ReadsOK
    <3> QED
      BY <2>1, <3>1, <1>5 DEF HasRead
  <2>2. CASE d # c
    <3>1. cmd'[d] = cmd[d] /\ StoreOf(d)' = StoreOf(d) /\ (HasRead(d)' <=> HasRead(d))
      BY <2>2, <1>5 DEF StoreOf, HasRead
    <3>2. cmd[d].at = "loaded" /\ cmd[d].via = "host" => d \in Handling
      BY DEF Handling, Mutating
    <3>3. cmd[d].at = "loaded" /\ cmd[d].via = "host" => (HostMisled' <=> HostMisled)
      BY <2>2, <3>2, <1>11, <1>12
    <3> QED
      BY <3>1, <3>3 DEF KeyInv, ReadsOK
  <2> QED
    BY <2>1, <2>2
<1>17. InForceOnReturn'
  <2> SUFFICES ASSUME NEW d \in Commands, cmd'[d].at = "done", host # "down", ghost.told[d] = starts, ~HostMisled'
               PROVE  ghost.ver[Host] >= ghost.wrote[d]
    BY <1>3 DEF InForceOnReturn
  <2>1. CASE s = Host
    BY <2>1, <1>11, <1>14
  <2>2. CASE s # Host
    BY <2>2, <1>12, <1>14 DEF KeyInv, InForceOnReturn
  <2> QED
    BY <2>1, <2>2
<1> QED
  BY <1>8, <1>9, <1>13, <1>15, <1>16, <1>17 DEF KeyInv

\* Where everything starts: nothing is open, nobody was told anything.
LEMMA KeyInitHolds == KeyInit => KeyInv
<1> SUFFICES ASSUME KeyInit PROVE KeyInv
  OBVIOUS
<1>1. /\ file = [stamp |-> 1, keys |-> [k \in {FirstKey} |-> Minted(First)]] /\ host = "down" /\ starts = 0
      /\ cache = [s \in Stores |-> [stamp |-> 0, keys |-> <<>>]]
      /\ ghost = [ver |-> [s \in Stores |-> 0], wrote |-> [c \in Commands |-> 0],
                  raced |-> [c \in Commands |-> FALSE], blind |-> 0, told |-> [c \in Commands |-> 0]]
  BY DEF KeyInit, Stores
<1>2. PICK l : l = [f \in Fields |-> First]
  OBVIOUS
<1>3. PICK m : IsLine(m, "idle", "add", "none", FirstKey, "rpm", l) /\ cmd = [c \in Commands |-> m]
  BY <1>2 DEF KeyInit, IsLine
<1>4. \A c \in Commands : cmd[c] = m
  BY <1>3
<1>5. m.at = "idle" /\ m.verb = "add" /\ m.via = "none" /\ m.key = FirstKey /\ m.field = "rpm" /\ m.limits = l
  BY <1>3, LineFields
<1>6. Handling = {} /\ \A c \in Commands : ~HasRead(c)
  BY <1>4, <1>5 DEF Handling, Mutating, HasRead
<1>7. /\ ghost.ver = [s \in Stores |-> 0] /\ ghost.wrote = [c \in Commands |-> 0]
      /\ ghost.raced = [c \in Commands |-> FALSE] /\ ghost.blind = 0 /\ ghost.told = [c \in Commands |-> 0]
  BY <1>1
<1>8. KeyTypeOK
  <2>1. file = [stamp |-> file.stamp, keys |-> file.keys] /\ file.stamp \in Nat /\ starts \in Nat
    BY <1>1
  <2>2. cache = [s \in Stores |-> cache[s]]
        /\ \A s \in Stores : cache[s] = [stamp |-> cache[s].stamp, keys |-> cache[s].keys] /\ cache[s].stamp \in Nat
    BY <1>1
  <2>3. cmd = [c \in Commands |-> cmd[c]]
    BY <1>3
  <2>4. \A c \in Commands : IsLine(cmd[c], cmd[c].at, cmd[c].verb, cmd[c].via, cmd[c].key, cmd[c].field, cmd[c].limits)
    BY <1>3, <1>4, <1>5
  <2>5. ghost = [ver |-> ghost.ver, wrote |-> ghost.wrote, raced |-> ghost.raced, blind |-> ghost.blind, told |-> ghost.told]
    BY <1>1, <1>7
  <2>6. ghost.raced \in [Commands -> BOOLEAN]
    BY <1>7
  <2>7. ghost.ver \in [Stores -> Nat] /\ ghost.wrote \in [Commands -> Nat] /\ ghost.blind \in Nat /\ ghost.told \in [Commands -> Nat]
    BY <1>7
  <2> QED
    BY <2>1, <2>2, <2>3, <2>4, <2>5, <2>6, <2>7 DEF KeyTypeOK
<1>9. file.stamp = 1 /\ \A s \in Stores : cache[s].stamp = 0 /\ ghost.ver[s] = 0
  BY <1>1, <1>7
<1>10. VersionsOK
  BY <1>1, <1>7, <1>9 DEF VersionsOK
<1>11. StampsOK
  BY <1>9 DEF StampsOK, Stores
<1>12. HostOK
  BY <1>1, <1>6 DEF HostOK
<1>13. ReadsOK
  BY <1>4, <1>5, <1>6, <1>7 DEF ReadsOK
<1>14. InForceOnReturn
  BY <1>1 DEF InForceOnReturn
<1> QED
  BY <1>8, <1>10, <1>11, <1>12, <1>13, <1>14 DEF KeyInv

\* Every step of the key file keeps the invariant.
LEMMA KeyStepKeeps == KeyInv /\ [KeyNext]_keyVars => KeyInv'
<1> SUFFICES ASSUME KeyInv, [KeyNext]_keyVars PROVE KeyInv'
  OBVIOUS
<1>1. CASE UNCHANGED keyVars
  <2>1. KeyTypeOK /\ Host \in Stores /\ Host \notin Commands
    BY KeysAssumption DEF KeyInv, Stores
  <2>2. UNCHANGED <<file, starts, cache, cmd, ghost>> /\ (host' = "down" <=> host = "down")
    BY <1>1 DEF keyVars
  <2>3. KeyTypeOK' /\ Refreshed(Host)
    BY <2>1, <2>2 DEF KeyTypeOK, Refreshed
  <2>4. ghost'.wrote = ghost.wrote /\ ghost'.blind = ghost.blind
    BY <2>2
  <2>5. \A d \in Commands \ {Host} : cmd'[d] = cmd[d] /\ ghost'.raced[d] = ghost.raced[d] /\ ghost'.told[d] = ghost.told[d]
    BY <2>2
  <2> QED
    BY <2>1, <2>2, <2>3, <2>4, <2>5, ReadKeeps
<1>2. CASE \E c \in Commands : Open(c) \/ Probe(c) \/ ChooseOffline(c) \/ ChooseOnline(c)
  BY <1>2, OpenKeeps, ProbeKeeps, ChooseOfflineKeeps, ChooseOnlineKeeps
<1>3. CASE \E c \in Commands : Accept(c) \/ GiveUp(c) \/ Applied(c) \/ Poke(c)
  BY <1>3, AcceptKeeps, FailKeeps, AppliedKeeps, PokeKeeps
<1>4. CASE \E c \in Commands : BeginMutate(c) \/ Rename(c) \/ WriteFails(c) \/ StatAfterSave(c)
  BY <1>4, BeginMutateKeeps, RenameKeeps, FailKeeps, StatKeeps
<1>5. CASE \E sec \in Authors : Lookup(sec)
  BY <1>5, LookupKeeps
<1>6. CASE HostLoads \/ HostListens \/ HostDies
  BY <1>6, HostLoadsKeeps, HostListensKeeps, HostDiesKeeps
<1> QED
  BY <1>1, <1>2, <1>3, <1>4, <1>5, <1>6 DEF KeyNext

\* A command's change is in force when it returns (Reload's comment), for any number of
\* commands, keys and starts of the host.
THEOREM KeyInForce == KeySpec => []InForceOnReturn
<1>1. KeyInv => InForceOnReturn
  BY DEF KeyInv
<1> QED
  BY <1>1, KeyInitHolds, KeyStepKeeps, PTL DEF KeySpec

\* Only the rename takes a command from its reload to its new file.
LEMMA OnlyRename ==
    ASSUME KeyInv, KeyNext, NEW c \in Commands, cmd[c].at = "loaded", cmd'[c].at = "renamed"
    PROVE  Rename(c)
<1>1. KeyTypeOK
  BY DEF KeyInv
<1>2. ASSUME NEW d \in Commands, NEW a, NEW vb, NEW vi, NEW k, NEW f, NEW l, CmdStep(d, a, vb, vi, k, f, l)
      PROVE  d = c /\ a = "renamed"
  BY <1>1, <1>2, CmdAfter
<1>3. ASSUME NEW d \in Commands, Open(d) PROVE FALSE
  <2>1. PICK v \in Verbs, f \in Fields : cmd' = [cmd EXCEPT ![d].at = "opened", ![d].verb = v, ![d].field = f]
    BY <1>3 DEF Open
  <2>2. CmdStep(d, "opened", v, cmd[d].via, cmd[d].key, f, cmd[d].limits)
    BY <2>1, <1>1, CmdAtVerbField
  <2> QED
    BY <2>2, <1>2
<1>4. ASSUME NEW d \in Commands, Probe(d) PROVE FALSE
  <2>1. PICK a, v : a \in {"probed", "failed"} /\ cmd' = [cmd EXCEPT ![d].at = a, ![d].via = v]
    BY <1>4 DEF Probe
  <2>2. CmdStep(d, a, cmd[d].verb, v, cmd[d].key, cmd[d].field, cmd[d].limits)
    BY <2>1, <1>1, CmdAtVia
  <2> QED
    BY <2>1, <2>2, <1>2
<1>5. ASSUME NEW d \in Commands, ChooseOffline(d) \/ ChooseOnline(d) \/ Accept(d) PROVE FALSE
  <2>1. cmd[d].at \in {"probed", "chosen"} /\ d # c
    BY <1>5 DEF ChooseOffline, ChooseOnline, Accept
  <2>2. PICK a, k, l : CmdStep(d, a, cmd[d].verb, cmd[d].via, k, cmd[d].field, l)
    <3>1. CASE ChooseOffline(d) \/ ChooseOnline(d)
      <4>1. PICK ks : Found(d, ks) \/ NotFound(d, ks) \/ KeysAdd(d, ks)
        BY <3>1 DEF ChooseOffline, ChooseOnline
      <4> QED
        BY <4>1, <1>1, ResolveMeans DEF Resolved
    <3>2. CASE \E a : cmd' = [cmd EXCEPT ![d].at = a]
      BY <3>2, <1>1, CmdAt
    <3>3. CASE \E l : cmd' = [cmd EXCEPT ![d].at = "accepted", ![d].limits = l]
      BY <3>3, <1>1, CmdAtLimits
    <3> QED
      BY <3>1, <3>2, <3>3, <1>5 DEF Accept, PostKey, PostAction, PatchKey, RouteRefuses
  <2> QED
    BY <2>1, <2>2, <1>2
<1>6. ASSUME NEW d \in Commands, NEW a, cmd' = [cmd EXCEPT ![d].at = a] PROVE d = c /\ a = "renamed"
  <2>1. CmdStep(d, a, cmd[d].verb, cmd[d].via, cmd[d].key, cmd[d].field, cmd[d].limits)
    BY <1>1, <1>6, CmdAt
  <2> QED
    BY <2>1, <1>2
<1>7. ASSUME NEW d \in Commands, GiveUp(d) \/ Applied(d) \/ Poke(d) \/ WriteFails(d) \/ StatAfterSave(d) PROVE FALSE
  <2>1. PICK a \in {"failed", "done", "saved"} : cmd' = [cmd EXCEPT ![d].at = a]
    BY <1>7 DEF GiveUp, Applied, Poke, WriteFails, StatAfterSave
  <2> QED
    BY <2>1, <1>6
<1>8. ASSUME NEW d \in Commands, BeginMutate(d) PROVE FALSE
  <2>1. CASE \E a \in {"loaded", "failed"} : cmd' = [cmd EXCEPT ![d].at = a]
    BY <2>1, <1>6
  <2>2. CASE \E k : cmd' = [cmd EXCEPT ![d].at = "loaded", ![d].key = k]
    <3>1. PICK k : cmd' = [cmd EXCEPT ![d].at = "loaded", ![d].key = k]
      BY <2>2
    <3>2. CmdStep(d, "loaded", cmd[d].verb, cmd[d].via, k, cmd[d].field, cmd[d].limits)
      BY <3>1, <1>1, CmdAtKey
    <3> QED
      BY <3>2, <1>2
  <2> QED
    BY <2>1, <2>2, <1>8 DEF BeginMutate
<1>9. ASSUME NEW d \in Commands, Rename(d) PROVE d = c
  BY <1>9, <1>6 DEF Rename
<1>10. ~(\E sec \in Authors : Lookup(sec)) /\ ~HostLoads /\ ~HostListens
  BY DEF Lookup, HostLoads, HostListens
<1>11. ~HostDies
  <2>1. ASSUME HostDies PROVE FALSE
    <3>1. PICK m : m = cmd[c]
      OBVIOUS
    <3>2. IsLine(m, m.at, m.verb, m.via, m.key, m.field, m.limits)
      BY <1>1, <3>1, CmdNow
    <3>3. cmd'[c] = [m EXCEPT !.at = "failed"] \/ cmd'[c] = m
      BY <2>1, <3>1 DEF HostDies
    <3>4. [m EXCEPT !.at = "failed"].at = "failed"
      BY <3>2 DEF IsLine
    <3> QED
      BY <3>1, <3>3, <3>4
  <2> QED
    BY <2>1
<1> QED
  BY <1>3, <1>4, <1>5, <1>7, <1>8, <1>9, <1>10, <1>11 DEF KeyNext

\* A rename that nobody raced writes the file it found, with the command's own change.
LEMMA RenameIntends ==
    ASSUME KeyInv, NEW c \in Commands, Rename(c), ~ghost.raced[c], cmd[c].via = "host" => ~HostMisled
    PROVE  file'.keys = Intended(c, file.keys)
<1>1. PICK s : s = StoreOf(c)
  OBVIOUS
<1>2. s \in Stores /\ cmd[c].at = "loaded" /\ file' = [stamp |-> file.stamp + 1, keys |-> Changed(c, cache[s].keys)]
  BY <1>1 DEF Rename, StoreOf, Stores
<1>3. ghost.ver[s] = file.stamp
  BY <1>1, <1>2 DEF KeyInv, ReadsOK
<1>4. cache[s].keys = file.keys
  BY <1>2, <1>3 DEF KeyInv, VersionsOK
<1>5. file'.keys = Changed(c, file.keys)
  BY <1>2, <1>4
<1>6. CASE cmd[c].verb = "limits"
  <2>1. HasRead(c)
    BY <1>2 DEF HasRead
  <2>2. cmd[c].limits = [file.keys[cmd[c].key].limits EXCEPT ![cmd[c].field] = c]
    BY <2>1, <1>6 DEF KeyInv, ReadsOK
  <2>3. Changed(c, file.keys) = SetLimits(c, file.keys)
    BY <1>6 DEF Changed, Adds, NewStatus
  <2>4. Intended(c, file.keys) = [file.keys EXCEPT ![cmd[c].key].limits[cmd[c].field] = c]
    BY <1>6 DEF Intended
  <2>5. PICK ks, k, f, l : ks = file.keys /\ k = cmd[c].key /\ f = cmd[c].field /\ l = cmd[c].limits
    OBVIOUS
  <2>6. [ks EXCEPT ![k].limits[f] = c] = [ks EXCEPT ![k].limits = [ks[k].limits EXCEPT ![f] = c]]
    OBVIOUS
  <2>7. SetLimits(c, file.keys) = [ks EXCEPT ![k].limits = l]
    BY <2>5 DEF SetLimits
  <2> QED
    BY <1>5, <2>2, <2>3, <2>4, <2>5, <2>6, <2>7
<1>7. CASE cmd[c].verb # "limits"
  BY <1>5, <1>7 DEF Intended
<1> QED
  BY <1>6, <1>7

\* A rename of keys.json loses no other command's change, for any number of commands and
\* any interleaving: the exceptions are the two the property names.
THEOREM KeyKeepsOthers == KeySpec => KeepsOthersChanges
<1>1. ASSUME KeyInv, [KeyNext]_keyVars
      PROVE  [\A c \in Commands :
                cmd[c].at = "loaded" /\ cmd'[c].at = "renamed" /\ ~ghost.raced[c] /\ (cmd[c].via = "host" => ~HostMisled)
                  => file'.keys = Intended(c, file.keys)]_keyVars
  <2>1. CASE UNCHANGED keyVars
    BY <2>1
  <2>2. CASE KeyNext
    BY <2>2, <1>1, OnlyRename, RenameIntends
  <2> QED
    BY <2>1, <2>2, <1>1
<1> QED
  BY <1>1, KeyInitHolds, KeyStepKeeps, PTL DEF KeySpec, KeepsOthersChanges

-----------------------------------------------------------------------------
(***************************************************************************)
(* The engines the host starts, for any finite set of callers.             *)
(* Leases: a set of callers, one caller more or less at a time.            *)
(***************************************************************************)

\* The callers with a lease are finitely many, so that they can be counted.
LEMMA LeasingFinite == IsFiniteSet(Leasing) /\ Cardinality(Leasing) \in Nat
<1>1. Leasing \subseteq Requests
  BY DEF Leasing
<1> QED
  BY <1>1, MemberAssumption, FS_Subset, FS_CardinalityType DEF MemberAssumption

\* No lease is counted exactly when nobody has one.
LEMMA NoLease == LeasesExact /\ refs = 0 => Leasing = {}
BY LeasingFinite, FS_EmptySet DEF LeasesExact

HasLease == {"looking", "waiting", "holding", "releasing"}

\* A caller that moves between two places of the same side changes no lease.
LEMMA SameLeases ==
    ASSUME MemberTypeOK, NEW r \in Requests, NEW to,
           pos' = [pos EXCEPT ![r] = to],
           (to \in HasLease) <=> (pos[r] \in HasLease)
    PROVE  Leasing' = Leasing
BY DEF MemberTypeOK, Leasing, HasLease

\* One that comes in adds a lease.
LEMMA OneMoreLease ==
    ASSUME MemberTypeOK, NEW r \in Requests, NEW to \in HasLease,
           pos' = [pos EXCEPT ![r] = to], pos[r] \notin HasLease
    PROVE  Cardinality(Leasing') = Cardinality(Leasing) + 1
<1>1. Leasing' = Leasing \cup {r} /\ r \notin Leasing
  BY DEF MemberTypeOK, Leasing, HasLease
<1> QED
  BY <1>1, LeasingFinite, FS_AddElement

\* One that leaves takes its lease with it; there was one to take.
LEMMA OneLeaseLess ==
    ASSUME MemberTypeOK, NEW r \in Requests, NEW to,
           pos' = [pos EXCEPT ![r] = to], to \notin HasLease, pos[r] \in HasLease
    PROVE  /\ Cardinality(Leasing') = Cardinality(Leasing) - 1
           /\ Cardinality(Leasing) > 0
<1>1. Leasing' = Leasing \ {r} /\ r \in Leasing
  BY DEF MemberTypeOK, Leasing, HasLease
<1>2. Cardinality(Leasing) # 0
  BY <1>1, LeasingFinite, FS_EmptySet
<1>3. Cardinality(Leasing') = Cardinality(Leasing) - 1
  BY <1>1, LeasingFinite, FS_RemoveElement
<1> QED
  BY <1>2, <1>3, LeasingFinite

\* A step that moves no caller and leaves the counter alone keeps the leases.
LEMMA LeasesKept ==
    ASSUME LeasesExact, UNCHANGED <<refs, pos>>
    PROVE  LeasesExact'
BY DEF LeasesExact, Leasing

-----------------------------------------------------------------------------
(* The invariant holds at first, and every action keeps it. *)

\* StartInstalled builds a member that satisfies the invariant.
LEMMA MemberInitInv == MemberInit => MemberInv
<1> SUFFICES ASSUME MemberInit PROVE MemberInv
  OBVIOUS
<1>1. MemberTypeOK
  <2>1. status \in {"dormant", "external", "unavailable"}
    BY MemberAssumption DEF MemberInit, Owned, MemberAssumption
  <2>2. failures \in 0..FailuresToStop
    BY DEF MemberInit, FailuresToStop
  <2> QED
    BY <2>1, <2>2 DEF MemberInit, MemberTypeOK
<1>2. Leasing = {}
  BY DEF MemberInit, Leasing
<1> QED
  BY <1>1, <1>2, FS_EmptySet DEF MemberInit, MemberInv, StartShape, OneEngine, CloseShape, LeasesExact

\* acquire's checks and its lease keep the invariant.
LEMMA EnterInv == ASSUME MemberInv, NEW r \in Requests, Enter(r) PROVE MemberInv'
<1> USE DEF MemberInv
<1>1. MemberTypeOK'
  BY DEF Enter, Goes, MemberTypeOK, launch, callers
<1>2. StartShape' /\ OneEngine' /\ CloseShape'
  BY DEF Enter, StartShape, OneEngine, CloseShape, launch
<1>3. LeasesExact'
  <2>1. CASE r \in gone \/ closed \/ ~Owned
    BY <2>1, SameLeases DEF Enter, Goes, LeasesExact, HasLease
  <2>2. CASE ~(r \in gone \/ closed \/ ~Owned)
    BY <2>2, OneMoreLease DEF Enter, Goes, LeasesExact, HasLease
  <2> QED
    BY <2>1, <2>2
<1> QED
  BY <1>1, <1>2, <1>3

\* startLocked, with no start under way and no process: a start begins, or
\* nothing happens because the host is closed.
LEMMA StartingShape ==
    ASSUME MemberInv, StartUnlessClosed, ~starting, process = "none",
           UNCHANGED <<closed, loop, closer>>
    PROVE  StartShape' /\ OneEngine' /\ CloseShape'
<1>1. CASE closed
  <2>1. ~starting' /\ UNCHANGED <<status, starter, process, child, lost>>
    BY <1>1, Zenon DEF StartUnlessClosed
  <2> QED
    BY <2>1 DEF MemberInv, StartShape, OneEngine, CloseShape
<1>2. CASE ~closed
  <2>1. starting' /\ starter' = "verify" /\ UNCHANGED <<process, child, lost>>
    BY <1>2, Zenon DEF StartUnlessClosed
  <2>2. child = "none"
    BY DEF MemberInv, OneEngine
  <2> QED
    BY <1>2, <2>1, <2>2 DEF MemberInv, StartShape, OneEngine, CloseShape
<1> QED
  BY <1>1, <1>2

\* The head of acquire's loop keeps it, the start it may begin included.
LEMMA LookInv == ASSUME MemberInv, NEW r \in Requests, Look(r) PROVE MemberInv'
<1> USE DEF MemberInv
<1>1. MemberTypeOK'
  <2>1. CASE UNCHANGED <<status, healthy, process, starting, launch>>
    BY <2>1 DEF Look, Goes, MemberTypeOK, launch
  <2>2. CASE StartUnlessClosed
    <3>1. starting' \in BOOLEAN /\ healthy' \in BOOLEAN
      BY <2>2, Zenon DEF StartUnlessClosed
    <3> QED
      BY <2>2, <3>1 DEF Look, StartUnlessClosed, Goes, MemberTypeOK
  <2> QED
    BY <2>1, <2>2 DEF Look
<1>2. StartShape' /\ OneEngine' /\ CloseShape'
  <2>1. CASE UNCHANGED <<status, healthy, process, starting, launch>>
    BY <2>1 DEF Look, StartShape, OneEngine, CloseShape, launch
  <2>2. CASE status # "ready" /\ ~starting /\ StartUnlessClosed
    BY <2>2, StartingShape DEF Look, StartShape
  <2> QED
    BY <2>1, <2>2 DEF Look
<1>3. LeasesExact'
  <2>1. PICK to \in HasLease : pos' = [pos EXCEPT ![r] = to]
    BY DEF Look, Goes, HasLease
  <2> QED
    BY <2>1, SameLeases DEF Look, LeasesExact, HasLease
<1> QED
  BY <1>1, <1>2, <1>3

\* A caller that is woken, gives up or finds no answer keeps its lease so far.
LEMMA StayInv ==
    ASSUME MemberInv, NEW r \in Requests, Wake(r) \/ GivesUp(r) \/ RefreshFails(r)
    PROVE  MemberInv'
<1> USE DEF MemberInv
<1>1. PICK to \in HasLease : pos' = [pos EXCEPT ![r] = to]
  BY DEF Wake, GivesUp, RefreshFails, Goes, HasLease
<1>2. UNCHANGED <<policy, closed, shared, launch, loop, closer, told, gone>> /\ pos[r] \in HasLease
  BY DEF Wake, GivesUp, RefreshFails, HasLease
<1>3. MemberTypeOK'
  BY <1>1, <1>2 DEF MemberTypeOK, HasLease, shared, launch
<1>4. StartShape' /\ OneEngine' /\ CloseShape'
  BY <1>2 DEF StartShape, OneEngine, CloseShape, shared, launch
<1>5. LeasesExact'
  BY <1>1, <1>2, SameLeases DEF LeasesExact, shared
<1> QED
  BY <1>3, <1>4, <1>5

\* release takes back one lease, and there was one.
LEMMA ReleaseInv == ASSUME MemberInv, NEW r \in Requests, Release(r) PROVE MemberInv'
<1> USE DEF MemberInv
<1>1. LeasesExact' /\ refs' \in Nat
  <2>1. pos' = [pos EXCEPT ![r] = "over"] /\ refs' = refs - 1 /\ pos[r] \in HasLease
    BY DEF Release, Goes, HasLease
  <2> QED
    <3>1. Cardinality(Leasing') = Cardinality(Leasing) - 1 /\ Cardinality(Leasing) > 0
      BY <2>1, OneLeaseLess DEF HasLease
    <3> QED
      BY <2>1, <3>1, LeasingFinite DEF LeasesExact
<1>2. MemberTypeOK'
  BY <1>1 DEF Release, Goes, MemberTypeOK, launch
<1>3. StartShape' /\ OneEngine' /\ CloseShape'
  BY DEF Release, StartShape, OneEngine, CloseShape, launch
<1> QED
  BY <1>1, <1>2, <1>3

\* A departing friend and the next call touch nothing that is shared.
LEMMA CallerInv ==
    ASSUME MemberInv, NEW r \in Requests, Depart(r) \/ NextCall(r)
    PROVE  MemberInv'
<1> USE DEF MemberInv
<1>1. MemberTypeOK'
  BY DEF Depart, NextCall, Goes, MemberTypeOK, shared, launch
<1>2. StartShape' /\ OneEngine' /\ CloseShape'
  BY DEF Depart, NextCall, StartShape, OneEngine, CloseShape, shared, launch
<1>3. LeasesExact'
  <2>1. CASE Depart(r)
    BY <2>1, LeasesKept DEF Depart, shared
  <2>2. CASE NextCall(r)
    BY <2>2, SameLeases DEF NextCall, Goes, LeasesExact, HasLease, shared
  <2> QED
    BY <2>1, <2>2
<1> QED
  BY <1>1, <1>2, <1>3

\* The goroutine of a start, to its last critical section, keeps the invariant.
LEMMA StartInv == ASSUME MemberInv, StartGoesOn PROVE MemberInv'
<1> USE DEF MemberInv
<1>1. MemberTypeOK'
  <2>1. CASE Verify \/ Spawn \/ WaitHealth \/ AbortStart
    BY <2>1 DEF Verify, Spawn, WaitHealth, AbortStart, MemberTypeOK, shared, callers
  <2>2. CASE Install
    <3>1. healthy' \in BOOLEAN /\ retry' \in BOOLEAN
      BY <2>2, Zenon DEF Install
    <3>2. failures' \in 0..FailuresToStop
      BY <2>2 DEF Install, MemberTypeOK, FailuresToStop
    <3>3. lost' \in Nat
      BY <2>2 DEF Install, MemberTypeOK
    <3>4. told' \subseteq Requests
      BY <2>2 DEF Install, MemberTypeOK
    <3>5. /\ process' \in {"none", "running", "exited"}
          /\ starting' \in BOOLEAN
          /\ status' \in {"ready", "backoff"}
          /\ starter' = "none" /\ child' = "none"
      BY <2>2 DEF Install, MemberTypeOK
    <3> QED
      BY <2>2, <3>1, <3>2, <3>3, <3>4, <3>5 DEF Install, MemberTypeOK
  <2> QED
    BY <2>1, <2>2 DEF StartGoesOn
<1>2. StartShape' /\ OneEngine' /\ CloseShape'
  BY DEF StartGoesOn, Verify, Spawn, WaitHealth, AbortStart, Install, MemberTypeOK,
         StartShape, OneEngine, CloseShape, shared, callers
<1>3. LeasesExact'
  BY LeasesKept DEF StartGoesOn, Verify, Spawn, WaitHealth, AbortStart, Install, shared, callers
<1> QED
  BY <1>1, <1>2, <1>3

\* Each branch of the loop's tick keeps it.
LEMMA TickInv == ASSUME MemberInv, Ticks PROVE MemberInv'
<1> USE DEF MemberInv
<1>1. MemberTypeOK'
  <2>1. CASE TickIdle \/ TickExited \/ TickProbe
    BY <2>1 DEF TickIdle, TickExited, TickProbe, Failed, MemberTypeOK, shared, launch, callers
  <2>2. CASE TickStart
    <3>1. starting' \in BOOLEAN /\ healthy' \in BOOLEAN
      BY <2>2, Zenon DEF TickStart, StartUnlessClosed
    <3> QED
      BY <2>2, <3>1 DEF TickStart, StartUnlessClosed, MemberTypeOK, callers
  <2> QED
    BY <2>1, <2>2 DEF Ticks
<1>2. StartShape' /\ OneEngine' /\ CloseShape'
  <2>1. CASE TickIdle \/ TickExited \/ TickProbe
    BY <2>1 DEF TickIdle, TickExited, TickProbe, MayTick, Failed, StartShape, OneEngine,
                CloseShape, shared, launch
  <2>2. CASE TickStart
    BY <2>2, StartingShape DEF TickStart, MayTick
  <2> QED
    BY <2>1, <2>2 DEF Ticks
<1>3. LeasesExact'
  BY LeasesKept DEF Ticks, TickIdle, TickExited, TickStart, TickProbe, shared, callers
<1> QED
  BY <1>1, <1>2, <1>3

\* So do the probe's answer, the look at an engine of others and the loop's end.
LEMMA LoopInv == ASSUME MemberInv, Probed \/ TickExternal \/ LoopEnds PROVE MemberInv'
<1> USE DEF MemberInv
<1>1. MemberTypeOK'
  <2>1. CASE TickExternal \/ LoopEnds
    BY <2>1 DEF TickExternal, LoopEnds, MemberTypeOK, shared, launch, callers
  <2>2. CASE Probed
    <3>1. failures' \in 0..FailuresToStop
      BY <2>2 DEF Probed, MemberTypeOK, FailuresToStop
    <3> QED
      BY <2>2, <3>1, ZenonT(60) DEF Probed, Failed, MemberTypeOK, launch, callers
  <2> QED
    BY <2>1, <2>2
<1>2. StartShape' /\ OneEngine' /\ CloseShape'
  BY DEF Probed, TickExternal, LoopEnds, Failed, MemberTypeOK, StartShape, OneEngine, CloseShape,
         shared, launch
<1>3. LeasesExact'
  BY LeasesKept DEF Probed, TickExternal, LoopEnds, shared, callers
<1> QED
  BY <1>1, <1>2, <1>3

\* Close goes on only when nobody is left who could start an engine.
LEMMA CloseInv == ASSUME MemberInv, CloseCancels \/ Closes PROVE MemberInv'
<1> USE DEF MemberInv
<1>1. MemberTypeOK'
  BY DEF CloseCancels, Closes, CloseDrains, CloseStops, MemberTypeOK, shared, launch, callers
<1>2. StartShape' /\ OneEngine' /\ CloseShape'
  BY DEF CloseCancels, Closes, CloseDrains, CloseStops, MemberTypeOK, StartShape, OneEngine,
         CloseShape, shared, launch
<1>3. LeasesExact'
  BY LeasesKept DEF CloseCancels, Closes, CloseDrains, CloseStops, shared, callers
<1> QED
  BY <1>1, <1>2, <1>3

\* Engines that exit and clocks that run keep the invariant.
LEMMA WorldInv == ASSUME MemberInv, EngineExits \/ RetryDue \/ IdleElapses PROVE MemberInv'
<1> USE DEF MemberInv
<1>1. MemberTypeOK'
  BY DEF EngineExits, RetryDue, IdleElapses, MemberTypeOK, launch, callers
<1>2. StartShape' /\ OneEngine' /\ CloseShape'
  BY DEF EngineExits, RetryDue, IdleElapses, MemberTypeOK, StartShape, OneEngine, CloseShape, launch
<1>3. LeasesExact'
  BY LeasesKept DEF EngineExits, RetryDue, IdleElapses, callers
<1> QED
  BY <1>1, <1>2, <1>3

\* Every step keeps the invariant.
LEMMA MemberStepInv == MemberInv /\ [MemberNext]_memberVars => MemberInv'
<1> SUFFICES ASSUME MemberInv, [MemberNext]_memberVars PROVE MemberInv'
  OBVIOUS
<1>1. CASE UNCHANGED memberVars
  BY <1>1 DEF memberVars, shared, launch, callers, MemberInv, MemberTypeOK, StartShape, OneEngine,
              CloseShape, LeasesExact, Leasing
<1>2. ASSUME NEW r \in Requests, Enter(r) \/ Acquires(r) \/ RefreshFails(r) \/ Release(r)
                                 \/ Depart(r) \/ NextCall(r)
      PROVE  MemberInv'
  BY <1>2, EnterInv, LookInv, StayInv, ReleaseInv, CallerInv DEF Acquires
<1>3. CASE \/ StartGoesOn \/ Ticks \/ Probed \/ TickExternal \/ LoopEnds
           \/ CloseCancels \/ Closes \/ EngineExits \/ RetryDue \/ IdleElapses
  BY <1>3, StartInv, TickInv, LoopInv, CloseInv, WorldInv
<1> QED
  BY <1>1, <1>2, <1>3 DEF MemberNext

\* The conjunction of the member's invariants is inductive: it holds in every
\* reachable state, whatever the number of callers.
THEOREM MemberInvariant == MemberSafety => []MemberInv
BY MemberInitInv, MemberStepInv, PTL DEF MemberSafety

-----------------------------------------------------------------------------
(* What follows from it. *)

\* The host never has two children, and forgets none: startLocked is reached
\* only with no start under way and no process.
THEOREM NeverTwoEngines == MemberSafety => []OneEngine
<1>1. MemberInv => OneEngine
  BY DEF MemberInv
<1> QED
  BY <1>1, MemberInvariant, PTL

\* Close leaves no child behind, and no start that could bring one.
THEOREM CloseLeavesNone == MemberSafety => []NoneSurvives
<1>1. MemberInv => NoneSurvives
  BY DEF MemberInv, NoneSurvives, CloseShape, StartShape, MemberTypeOK
<1> QED
  BY <1>1, MemberInvariant, PTL

\* An engine that runs is not stopped under a caller's lease: the loop's two
\* looks at refs, before and after the unlocked probe, are enough.
THEOREM LeaseKeepsEngine == MemberSafety => HeldEngineRuns
<1>1. ASSUME MemberInv, [MemberNext]_memberVars, process = "running", process' = "none"
      PROVE  Leasing = {} \/ closed
  <2>1. CASE TickIdle \/ Probed
    BY <2>1, <1>1, NoLease DEF TickIdle, IdleTooLong, Probed, Failed, MemberInv
  <2>2. CASE CloseStops
    BY <2>2, <1>1 DEF CloseStops, MemberInv, CloseShape
  <2>3. CASE Install
    BY <2>3, <1>1 DEF Install, MemberInv, StartShape, OneEngine
  <2>4. CASE ~(TickIdle \/ Probed \/ CloseStops \/ Install)
    <3>1. CASE \E r \in Requests : Enter(r) \/ Acquires(r) \/ RefreshFails(r) \/ Release(r)
                                   \/ Depart(r) \/ NextCall(r)
      BY <3>1, <1>1 DEF Enter, Acquires, Look, StartUnlessClosed, Wake, GivesUp, RefreshFails,
                        Release, Depart, NextCall, shared
    <3>2. CASE ~(\E r \in Requests : Enter(r) \/ Acquires(r) \/ RefreshFails(r) \/ Release(r)
                                     \/ Depart(r) \/ NextCall(r))
      BY <3>2, <2>4, <1>1 DEF MemberNext, memberVars, StartGoesOn, Verify, Spawn, WaitHealth,
             AbortStart, Ticks, TickExited, TickStart, TickProbe, TickExternal, LoopEnds,
             CloseCancels, Closes, CloseDrains, EngineExits, RetryDue, IdleElapses,
             StartUnlessClosed, shared
    <3> QED
      BY <3>1, <3>2
  <2> QED
    BY <2>1, <2>2, <2>3, <2>4
<1>2. MemberInv /\ [MemberNext]_memberVars =>
          [process = "running" /\ process' = "none" => Leasing = {} \/ closed]_memberVars
  BY <1>1
<1> QED
  BY <1>2, MemberInvariant, PTL DEF MemberSafety, HeldEngineRuns

-----------------------------------------------------------------------------
(***************************************************************************)
(* Setup, for any profile: until a host undoes it, what the installation   *)
(* in hand and the one in config.json record is on the disk (SetupInv).    *)
(***************************************************************************)

\* What an installation records, in the trees and the downloads of the disk: trees that are
\* complete, downloads with the pinned bytes.
Recorded(in, trees, files) ==
    /\ \A p \in in.at : p \in Assets \X Trees /\ trees[p[2]] = "whole"
    /\ \A t \in in.odd : t \in Trees /\ trees[t] = "whole"
    /\ \A a \in in.files : a \in Assets /\ files[a] = "good"
IsInstallation(in) == in = [at |-> in.at, files |-> in.files, odd |-> in.odd, bad |-> in.bad, ext |-> in.ext]

\* The steps at which an asset is in hand.
WithAsset == {"copy", "verify", "unpack", "walk"}

\* Where setup is, and what it holds.
PlaceOK ==
    /\ holder \in {"free", "setup", "serve"}
    /\ step # "idle" => holder = "setup"
    /\ turn \in 1..Len(Profile) /\ need \in Nat \ {0}
    /\ step \in WithAsset => need <= Len(Needs[Member])
    /\ step = "walk" => stage \in Trees /\ unpacked[stage] = "partial"

\* The disk: no published download is wrong; what the installation in hand records is there,
\* and so is what the configuration's does; what is retired is not what was just saved.
DiskOK ==
    /\ download \in [Assets -> {"none", "good"}]
    /\ unpacked \in [Trees -> {"none", "partial", "whole"}]
    /\ IsInstallation(inst) /\ Recorded(inst, unpacked, download)
    /\ config = [install |-> config.install, field |-> config.field]
    /\ config.install # None => Recorded(config.install, unpacked, download)
    /\ step = "retire" => config.install = inst
    /\ \A m \in ProfileMembers : config.field[m] \in {"none", "profile", "own"}
    /\ config.field = [m \in ProfileMembers |-> config.field[m]]

\* No endpoint of the profile at an unavailable member, unless somebody stated it.
FieldsOK ==
    config.install # None =>
        \A m \in ProfileMembers : config.field[m] = "profile" => m \notin config.install.bad \/ m \in stated

\* All the time, until a host undoes a setup.
SetupInv == ~undone => PlaceOK /\ DiskOK /\ FieldsOK

\* The member and the asset setup is busy with.
LEMMA InHand ==
    ASSUME PlaceOK
    PROVE  /\ Member \in ProfileMembers /\ Needs[Member] \in Seq(Assets)
           /\ need <= Len(Needs[Member]) => Asset \in Assets
<1>1. Profile \in Seq(ProfileMembers)
  BY SetupAssumption DEF SetupAssumption
<1>2. Member \in ProfileMembers
  BY <1>1 DEF PlaceOK, Member, ProfileMembers
<1>3. Needs[Member] \in Seq(Assets)
  BY <1>2, SetupAssumption DEF SetupAssumption
<1>4. need \in Nat \ {0}
  BY DEF PlaceOK
<1> QED
  BY <1>2, <1>3, <1>4 DEF Asset

\* A step that leaves the configuration alone and spoils nothing that is complete: what is
\* then in hand was recorded before, or is there now.
LEMMA DiskStays ==
    ASSUME DiskOK, FieldsOK, UNCHANGED <<config, stated>>,
           unpacked' \in [Trees -> {"none", "partial", "whole"}], download' \in [Assets -> {"none", "good"}],
           \A t \in Trees : unpacked[t] = "whole" => unpacked'[t] = "whole",
           \A a \in Assets : download[a] = "good" => download'[a] = "good",
           IsInstallation(inst'),
           inst'.at \subseteq inst.at \cup {p \in Assets \X Trees : unpacked'[p[2]] = "whole"},
           inst'.odd \subseteq inst.odd \cup {t \in Trees : unpacked'[t] = "whole"},
           inst'.files \subseteq inst.files \cup {a \in Assets : download'[a] = "good"},
           step' = "retire" => step = "retire" /\ inst' = inst
    PROVE  DiskOK' /\ FieldsOK'
<1>1. Recorded(inst', unpacked', download')
  <2>1. Recorded(inst, unpacked, download)
    BY DEF DiskOK
  <2>2. \A p \in inst.at : p \in Assets \X Trees /\ unpacked'[p[2]] = "whole"
    BY <2>1 DEF Recorded
  <2>3. \A a \in inst.files : a \in Assets /\ download'[a] = "good"
    BY <2>1 DEF Recorded
  <2>4. \A t \in inst.odd : t \in Trees /\ unpacked'[t] = "whole"
    BY <2>1 DEF Recorded
  <2> QED
    BY <2>2, <2>3, <2>4 DEF Recorded
<1>2. config.install # None => Recorded(config.install, unpacked', download')
  <2> SUFFICES ASSUME config.install # None PROVE Recorded(config.install, unpacked', download')
    OBVIOUS
  <2>1. Recorded(config.install, unpacked, download)
    BY DEF DiskOK
  <2> QED
    BY <2>1 DEF Recorded
<1>3. FieldsOK'
  BY DEF FieldsOK
<1> QED
  BY <1>1, <1>2, <1>3 DEF DiskOK

\* The moves of setup: what they leave, and where.
LEMMA Moves ==
    ASSUME PlaceOK, DiskOK, NEW in, IsInstallation(in)
    PROVE  /\ Quit => PlaceOK' /\ inst' = Blank /\ step' = "idle"
           /\ NextMember(in) /\ holder = "setup" => PlaceOK' /\ inst' = in /\ step' \in {"member", "save"}
           /\ NextAsset(in) /\ holder = "setup" => PlaceOK' /\ inst' = in /\ step' = "asset"
<1>1. Len(Profile) \in Nat /\ Profile \in Seq(ProfileMembers)
  BY SetupAssumption DEF SetupAssumption
<1>2. turn \in 1..Len(Profile)
  BY DEF PlaceOK
<1>3. ASSUME Quit PROVE PlaceOK' /\ inst' = Blank /\ step' = "idle"
  BY <1>1, <1>2, <1>3 DEF Quit, PlaceOK, WithAsset
<1>4. ASSUME NextMember(in), holder = "setup" PROVE PlaceOK' /\ inst' = in /\ step' \in {"member", "save"}
  BY <1>1, <1>2, <1>4 DEF NextMember, PlaceOK, WithAsset
<1>5. ASSUME NextAsset(in), holder = "setup" PROVE PlaceOK' /\ inst' = in /\ step' = "asset"
  BY <1>1, <1>2, <1>5 DEF NextAsset, PlaceOK, WithAsset
<1> QED
  BY <1>3, <1>4, <1>5

\* A member that is done with, or given up, and a setup that ends: the disk stays.
LEMMA LeavesMember ==
    ASSUME PlaceOK, DiskOK, FieldsOK, holder = "setup", UNCHANGED <<config, stated>>,
           unpacked' \in [Trees -> {"none", "partial", "whole"}], download' \in [Assets -> {"none", "good"}],
           \A t \in Trees : unpacked[t] = "whole" => unpacked'[t] = "whole",
           \A a \in Assets : download[a] = "good" => download'[a] = "good",
           \/ Quit \/ MemberFails \/ NextMember(inst) \/ NextMember([inst EXCEPT !.ext = @ \cup {Member}])
           \/ \E S \in SUBSET {t \in Trees : unpacked'[t] = "whole"} : FailsWith([inst EXCEPT !.odd = @ \cup S])
    PROVE  PlaceOK' /\ DiskOK' /\ FieldsOK'
<1>1. ASSUME NEW in, IsInstallation(in), in.at = inst.at, in.files = inst.files, NextMember(in),
             in.odd \subseteq inst.odd \cup {t \in Trees : unpacked'[t] = "whole"}
      PROVE  PlaceOK' /\ DiskOK' /\ FieldsOK'
  <2>1. PlaceOK' /\ inst' = in /\ step' \in {"member", "save"}
    BY <1>1, Moves
  <2> QED
    BY <2>1, <1>1, DiskStays
<1>2. CASE Quit
  <2>1. PlaceOK' /\ inst' = Blank /\ step' = "idle"
    BY <1>2, Moves, IsInstallation(inst) DEF DiskOK
  <2>2. IsInstallation(Blank) /\ Blank.at = {} /\ Blank.files = {} /\ Blank.odd = {}
    BY DEF IsInstallation, Blank
  <2> QED
    BY <2>1, <2>2, DiskStays
<1>3. CASE NextMember(inst)
  BY <1>1, <1>3 DEF DiskOK
<1>4. CASE NextMember([inst EXCEPT !.ext = @ \cup {Member}])
  BY <1>1, <1>4 DEF DiskOK, IsInstallation
<1>5. ASSUME NEW S \in SUBSET {t \in Trees : unpacked'[t] = "whole"}, FailsWith([inst EXCEPT !.odd = @ \cup S])
      PROVE  PlaceOK' /\ DiskOK' /\ FieldsOK'
  <2> DEFINE more == [inst EXCEPT !.odd = @ \cup S]
             in == [more EXCEPT !.bad = @ \cup {Member}]
  <2>1. inst = [at |-> inst.at, files |-> inst.files, odd |-> inst.odd, bad |-> inst.bad, ext |-> inst.ext]
    BY DEF DiskOK, IsInstallation
  <2>2. in = [at |-> inst.at, files |-> inst.files, odd |-> inst.odd \cup S, bad |-> inst.bad \cup {Member}, ext |-> inst.ext]
    <3>1. more = [at |-> inst.at, files |-> inst.files, odd |-> inst.odd \cup S, bad |-> inst.bad, ext |-> inst.ext]
      BY ONLY <2>1
    <3> HIDE DEF more
    <3> QED
      BY ONLY <3>1
  <2>3. Quit \/ NextMember(in)
    BY <1>5 DEF FailsWith
  <2> HIDE DEF in
  <2>4. /\ IsInstallation(in) /\ in.at = inst.at /\ in.files = inst.files
        /\ in.odd \subseteq inst.odd \cup {t \in Trees : unpacked'[t] = "whole"}
    BY <2>2 DEF IsInstallation
  <2> QED
    BY <1>1, <1>2, <2>3, <2>4
<1>6. CASE MemberFails
  <2>1. inst = [at |-> inst.at, files |-> inst.files, odd |-> inst.odd, bad |-> inst.bad, ext |-> inst.ext]
    BY DEF DiskOK, IsInstallation
  <2>2. [inst EXCEPT !.odd = @ \cup {}] = inst
    BY ONLY <2>1
  <2>3. FailsWith([inst EXCEPT !.odd = @ \cup {}])
    BY <1>6, <2>2 DEF MemberFails
  <2>4. {} \in SUBSET {t \in Trees : unpacked'[t] = "whole"}
    OBVIOUS
  <2> QED
    BY ONLY <1>5, <2>3, <2>4
<1> QED
  BY <1>2, <1>3, <1>4, <1>5, <1>6

\* A step of setup that moves it within the member, and leaves the disk alone.
LEMMA GoesOn ==
    ASSUME PlaceOK, DiskOK, FieldsOK, holder = "setup", NEW s, GoTo(s), s # "retire", s # "walk",
           s \in WithAsset => need <= Len(Needs[Member]), UNCHANGED <<config, stated, download, unpacked>>
    PROVE  PlaceOK' /\ DiskOK' /\ FieldsOK'
<1>1. PlaceOK'
  BY DEF GoTo, PlaceOK, Member
<1> QED
  BY <1>1, DiskStays DEF GoTo, DiskOK

\* The asset in hand is recorded, and the next one is asked for.
LEMMA GoesToNext ==
    ASSUME PlaceOK, DiskOK, FieldsOK, holder = "setup", NEW in, IsInstallation(in), NextAsset(in),
           UNCHANGED <<config, stated>>,
           unpacked' \in [Trees -> {"none", "partial", "whole"}], download' \in [Assets -> {"none", "good"}],
           \A t \in Trees : unpacked[t] = "whole" => unpacked'[t] = "whole",
           \A a \in Assets : download[a] = "good" => download'[a] = "good",
           in.at \subseteq inst.at \cup {p \in Assets \X Trees : unpacked'[p[2]] = "whole"},
           in.odd = inst.odd, in.files \subseteq inst.files \cup {a \in Assets : download'[a] = "good"}
    PROVE  PlaceOK' /\ DiskOK' /\ FieldsOK'
<1>1. PlaceOK' /\ inst' = in /\ step' = "asset"
  BY Moves
<1> QED
  BY <1>1, DiskStays

\* The download is there and right: it is recorded, and unpacked when it is an archive.
LEMMA ObtainedKeeps ==
    ASSUME PlaceOK, DiskOK, FieldsOK, holder = "setup", Asset \in Assets, need <= Len(Needs[Member]), Obtained,
           UNCHANGED <<config, stated, unpacked>>, download' \in [Assets -> {"none", "good"}],
           \A a \in Assets : download[a] = "good" => download'[a] = "good", download'[Asset] = "good"
    PROVE  PlaceOK' /\ DiskOK' /\ FieldsOK'
<1> DEFINE in == [inst EXCEPT !.files = @ \cup {Asset}]
<1>1. IsInstallation(in) /\ in.at = inst.at /\ in.odd = inst.odd /\ in.files = inst.files \cup {Asset}
  <2>1. inst = [at |-> inst.at, files |-> inst.files, odd |-> inst.odd, bad |-> inst.bad, ext |-> inst.ext]
    BY DEF DiskOK, IsInstallation
  <2>2. in = [at |-> inst.at, files |-> inst.files \cup {Asset}, odd |-> inst.odd, bad |-> inst.bad, ext |-> inst.ext]
    BY ONLY <2>1
  <2> QED
    BY <2>2 DEF IsInstallation
<1>2. unpacked' \in [Trees -> {"none", "partial", "whole"}]
  BY DEF DiskOK
<1>3. NextAsset(in) \/ (inst' = in /\ step' = "unpack" /\ UNCHANGED <<holder, stopping, turn, need, stage>>)
  BY DEF Obtained
<1> HIDE DEF in
<1>4. CASE NextAsset(in)
  BY <1>1, <1>2, <1>4, GoesToNext
<1>5. CASE inst' = in /\ step' = "unpack" /\ UNCHANGED <<holder, stopping, turn, need, stage>>
  <2>1. PlaceOK'
    BY <1>5 DEF PlaceOK, Member, WithAsset
  <2> QED
    BY <1>1, <1>2, <1>5, <2>1, DiskStays
<1> QED
  BY <1>3, <1>4, <1>5

\* The steps of a setup under way.
LEMMA FetchesKeep ==
    ASSUME PlaceOK, DiskOK, FieldsOK, CheckMember \/ ObtainAsset \/ CopyBytes \/ DryCheck \/ Save
    PROVE  PlaceOK' /\ DiskOK' /\ FieldsOK'
<1>1. step # "idle" => holder = "setup"
  BY DEF PlaceOK
<1>2. /\ unpacked \in [Trees -> {"none", "partial", "whole"}] /\ download \in [Assets -> {"none", "good"}]
      /\ IsInstallation(inst)
  BY DEF DiskOK
<1>3. UNCHANGED <<config, stated, unpacked, download>>
  BY DEF CheckMember, ObtainAsset, CopyBytes, DryCheck, Save, diskVars, fetchVars
<1>4. CASE CheckMember
  <2>1. NextMember([inst EXCEPT !.ext = @ \cup {Member}]) \/ GoTo("asset") \/ MemberFails
    BY <1>4 DEF CheckMember
  <2>2. holder = "setup"
    BY <1>1, <1>4 DEF CheckMember
  <2>3. CASE GoTo("asset")
    BY <1>3, <2>2, <2>3, GoesOn DEF WithAsset
  <2> QED
    BY <1>2, <1>3, <2>1, <2>2, <2>3, LeavesMember
<1>5. CASE ObtainAsset
  <2>1. holder = "setup" /\ step = "asset"
    BY <1>1, <1>5 DEF ObtainAsset
  <2>2. CASE need > Len(Needs[Member])
    <3>1. GoTo("dry")
      BY <1>5, <2>2 DEF ObtainAsset
    <3> QED
      BY <1>3, <2>1, <3>1, GoesOn DEF WithAsset
  <2>3. CASE ~(need > Len(Needs[Member]))
    <3>1. need <= Len(Needs[Member]) /\ Asset \in Assets
      <4>1. need \in Nat /\ Len(Needs[Member]) \in Nat
        BY InHand DEF PlaceOK
      <4> QED
        BY <2>3, <4>1, InHand
    <3>2. \/ NextAsset(inst) \/ GoTo("unpack") \/ MemberFails \/ GoTo("verify") \/ GoTo("copy")
          \/ Obtained /\ download[Asset] # "none"
      BY <1>5, <2>3 DEF ObtainAsset
    <3>3. CASE NextAsset(inst)
      BY <1>2, <1>3, <2>1, <3>3, GoesToNext
    <3>4. CASE MemberFails
      BY <1>2, <1>3, <2>1, <3>4, LeavesMember
    <3>5. CASE Obtained /\ download[Asset] # "none"
      BY <1>2, <1>3, <2>1, <3>1, <3>5, ObtainedKeeps
    <3> QED
      BY <1>3, <2>1, <3>1, <3>2, <3>3, <3>4, <3>5, GoesOn
  <2> QED
    BY <2>2, <2>3
<1>6. CASE CopyBytes
  <2>1. holder = "setup" /\ step = "copy"
    BY <1>1, <1>6 DEF CopyBytes
  <2>2. need <= Len(Needs[Member])
    BY <2>1 DEF PlaceOK, WithAsset
  <2>3. UNCHANGED <<holder, step, stopping, turn, need, stage, inst>> \/ MemberFails \/ GoTo("verify")
    BY <1>6 DEF CopyBytes
  <2>4. CASE UNCHANGED <<holder, step, stopping, turn, need, stage, inst>>
    <3>1. PlaceOK'
      BY <1>3, <2>4 DEF PlaceOK, Member
    <3> QED
      BY <1>2, <1>3, <2>4, <3>1, DiskStays
  <2>5. CASE MemberFails
    BY <1>2, <1>3, <2>1, <2>5, LeavesMember
  <2> QED
    BY <1>3, <2>1, <2>2, <2>3, <2>4, <2>5, GoesOn
<1>7. CASE DryCheck
  <2>1. holder = "setup" /\ (NextMember(inst) \/ MemberFails)
    BY <1>1, <1>7 DEF DryCheck
  <2> QED
    BY <1>2, <1>3, <2>1, LeavesMember
<1>8. CASE Save
  <2>1. holder = "setup" /\ (GoTo("config") \/ Quit)
    BY <1>1, <1>8 DEF Save
  <2>2. CASE GoTo("config")
    BY <1>3, <2>1, <2>2, GoesOn DEF WithAsset
  <2> QED
    BY <1>2, <1>3, <2>1, <2>2, LeavesMember
<1> QED
  BY <1>4, <1>5, <1>6, <1>7, <1>8

\* Only a part with the pinned hash is published.
LEMMA PublishKeeps ==
    ASSUME PlaceOK, DiskOK, FieldsOK, Publish
    PROVE  PlaceOK' /\ DiskOK' /\ FieldsOK'
<1>1. holder = "setup" /\ need <= Len(Needs[Member])
  BY DEF PlaceOK, Publish, WithAsset
<1>2. Asset \in Assets
  BY <1>1, InHand
<1>3. /\ unpacked \in [Trees -> {"none", "partial", "whole"}] /\ download \in [Assets -> {"none", "good"}]
  BY DEF DiskOK
<1>4. UNCHANGED <<config, stated, unpacked>>
  BY DEF Publish
<1>5. CASE Obtained /\ download' = [download EXCEPT ![Asset] = "good"]
  <2>1. /\ download' \in [Assets -> {"none", "good"}] /\ download'[Asset] = "good"
        /\ \A a \in Assets : download[a] = "good" => download'[a] = "good"
    BY <1>2, <1>3, <1>5
  <2> QED
    BY <1>1, <1>2, <1>4, <1>5, <2>1, ObtainedKeeps
<1>6. CASE MemberFails /\ UNCHANGED download
  BY <1>1, <1>3, <1>4, <1>6, LeavesMember
<1> QED
  BY <1>5, <1>6 DEF Publish, fetchVars

\* A tree is unpacked under a name of its own, and recorded when it is complete.
LEMMA UnpackKeeps ==
    ASSUME PlaceOK, DiskOK, FieldsOK, UnpackStarts \/ UnpackEnds
    PROVE  PlaceOK' /\ DiskOK' /\ FieldsOK'
<1>1. holder = "setup" /\ need <= Len(Needs[Member])
  BY DEF PlaceOK, UnpackStarts, UnpackEnds, WithAsset
<1>2. Asset \in Assets
  BY <1>1, InHand
<1>3. /\ unpacked \in [Trees -> {"none", "partial", "whole"}] /\ download \in [Assets -> {"none", "good"}]
      /\ IsInstallation(inst)
  BY DEF DiskOK
<1>4. UNCHANGED <<config, stated, download>>
  BY DEF UnpackStarts, UnpackEnds, fetchVars
<1>5. CASE UnpackStarts
  <2>1. PICK t \in Trees : unpacked[t] = "none" /\ stage' = t /\ unpacked' = [unpacked EXCEPT ![t] = "partial"]
    BY <1>5 DEF UnpackStarts
  <2>2. /\ unpacked' \in [Trees -> {"none", "partial", "whole"}] /\ unpacked'[t] = "partial"
        /\ \A u \in Trees : unpacked[u] = "whole" => unpacked'[u] = "whole"
    BY <1>3, <2>1
  <2>3. UNCHANGED <<holder, stopping, turn, need, inst>> /\ step' = "walk" /\ stage' \in Trees
    BY <1>5, <2>1 DEF UnpackStarts
  <2>4. PlaceOK'
    BY <1>1, <2>1, <2>2, <2>3 DEF PlaceOK, Member
  <2> QED
    BY <1>3, <1>4, <2>2, <2>3, <2>4, DiskStays
<1>6. CASE UnpackEnds
  <2>1. stage \in Trees /\ unpacked[stage] = "partial"
    BY <1>6 DEF UnpackEnds, PlaceOK
  <2>2. /\ unpacked' \in [Trees -> {"none", "partial", "whole"}]
        /\ \A u \in Trees : unpacked[u] = "whole" => unpacked'[u] = "whole"
    BY <1>3, <1>6, <2>1 DEF UnpackEnds
  <2>3. CASE MemberFails
    BY <1>1, <1>3, <1>4, <2>2, <2>3, LeavesMember
  <2>5. ASSUME NEW seen \in {{}, {stage}}, unpacked' = [unpacked EXCEPT ![stage] = "whole"],
               FailsWith([inst EXCEPT !.odd = @ \cup seen])
        PROVE  PlaceOK' /\ DiskOK' /\ FieldsOK'
    <3>1. seen \in SUBSET {t \in Trees : unpacked'[t] = "whole"}
      BY <1>3, <2>1, <2>5
    <3>2. \E S \in SUBSET {t \in Trees : unpacked'[t] = "whole"} : FailsWith([inst EXCEPT !.odd = @ \cup S])
      BY <2>5, <3>1
    <3> QED
      BY <1>1, <1>3, <1>4, <2>2, <3>2, LeavesMember
  <2> DEFINE in == [inst EXCEPT !.at = @ \cup {<<Asset, stage>>}]
  <2>4. CASE unpacked' = [unpacked EXCEPT ![stage] = "whole"] /\ NextAsset(in)
    <3>1. inst = [at |-> inst.at, files |-> inst.files, odd |-> inst.odd, bad |-> inst.bad, ext |-> inst.ext]
      BY <1>3 DEF IsInstallation
    <3>2. in = [at |-> inst.at \cup {<<Asset, stage>>}, files |-> inst.files, odd |-> inst.odd, bad |-> inst.bad, ext |-> inst.ext]
      BY <3>1
    <3>3. IsInstallation(in) /\ in.at = inst.at \cup {<<Asset, stage>>} /\ in.odd = inst.odd /\ in.files = inst.files
      BY <3>2 DEF IsInstallation
    <3>4. <<Asset, stage>> \in Assets \X Trees /\ unpacked'[<<Asset, stage>>[2]] = "whole"
      BY <1>2, <1>3, <2>1, <2>4
    <3> HIDE DEF in
    <3>5. NextAsset(in)
      BY <2>4
    <3>6. \A a \in Assets : download[a] = "good" => download'[a] = "good"
      BY <1>4
    <3> QED
      BY <1>1, <1>3, <1>4, <2>2, <3>3, <3>4, <3>5, <3>6, GoesToNext
  <2> QED
    BY <1>6, <2>3, <2>4, <2>5 DEF UnpackEnds
<1> QED
  BY <1>5, <1>6

\* The installation is committed with the configuration that names it, whole as it was in hand;
\* then only trees it does not name are removed.
LEMMA CommitKeeps ==
    ASSUME PlaceOK, DiskOK, FieldsOK, SaveConfig \/ Retire
    PROVE  PlaceOK' /\ DiskOK' /\ FieldsOK'
<1>1. holder = "setup"
  BY DEF PlaceOK, SaveConfig, Retire
<1>2. /\ unpacked \in [Trees -> {"none", "partial", "whole"}] /\ download \in [Assets -> {"none", "good"}]
      /\ IsInstallation(inst) /\ Recorded(inst, unpacked, download)
  BY DEF DiskOK
<1>3. CASE Quit /\ UNCHANGED <<config, stated, unpacked, download>>
  BY <1>1, <1>2, <1>3, LeavesMember
<1>4. CASE GoTo("retire") /\ config' = [install |-> inst, field |-> Endpoints] /\ stated' = {}
             /\ UNCHANGED <<download, unpacked>>
  <2>1. PlaceOK'
    BY <1>1, <1>4 DEF GoTo, PlaceOK, WithAsset
  <2>2. inst' = inst /\ config'.install = inst /\ config'.field = Endpoints
    BY <1>4 DEF GoTo
  <2>3. \A m \in ProfileMembers : /\ Endpoints[m] \in {"none", "profile", "own"}
                                  /\ Endpoints[m] = "profile" => m \notin inst.bad
    BY DEF Endpoints, DiskOK
  <2>4. Endpoints = [m \in ProfileMembers |-> Endpoints[m]]
    BY DEF Endpoints
  <2>5. DiskOK'
    BY <1>2, <1>4, <2>2, <2>3, <2>4 DEF DiskOK
  <2>6. FieldsOK'
    BY <2>2, <2>3 DEF FieldsOK
  <2> QED
    BY <2>1, <2>5, <2>6
<1>5. ASSUME NEW t \in Trees \ (TreesOf(inst, Assets) \cup inst.odd), step = "retire", unpacked' = [unpacked EXCEPT ![t] = "none"],
             GoTo("retire"), UNCHANGED <<config, stated, download>>
      PROVE  PlaceOK' /\ DiskOK' /\ FieldsOK'
  <2>1. \A p \in inst.at : p[2] # t
    BY <1>2, <1>5 DEF Recorded, TreesOf
  <2>2. Recorded(inst, unpacked', download)
    BY <1>2, <1>5, <2>1 DEF Recorded
  <2>3. inst' = inst /\ config.install = inst
    BY <1>5 DEF GoTo, DiskOK
  <2>4. unpacked' \in [Trees -> {"none", "partial", "whole"}]
    BY <1>2, <1>5
  <2>5. DiskOK'
    BY <1>5, <2>2, <2>3, <2>4 DEF DiskOK
  <2>6. PlaceOK' /\ FieldsOK'
    BY <1>1, <1>5 DEF GoTo, PlaceOK, FieldsOK, WithAsset
  <2> QED
    BY <2>5, <2>6
<1>6. CASE SaveConfig
  BY <1>3, <1>4, <1>6 DEF SaveConfig, fetchVars
<1>7. CASE Retire
  <2>1. step = "retire" /\ UNCHANGED <<config, stated, download>>
    BY <1>7 DEF Retire, fetchVars
  <2> QED
    BY <1>3, <1>5, <1>7, <2>1 DEF Retire
<1> QED
  BY <1>6, <1>7

\* The lock, interruptions and kills, and a custom setup.
LEMMA LocksKeep ==
    ASSUME PlaceOK, DiskOK, FieldsOK,
           SetupStarts \/ Interrupt \/ Killed \/ ServeLoads \/ ServeGivesUp \/ SetupCustom
    PROVE  PlaceOK' /\ DiskOK' /\ FieldsOK'
<1>1. /\ unpacked \in [Trees -> {"none", "partial", "whole"}] /\ download \in [Assets -> {"none", "good"}]
      /\ IsInstallation(inst)
  BY DEF DiskOK
<1>2. CASE Killed
  <2>1. Quit /\ UNCHANGED <<config, stated, unpacked, download>>
    BY <1>2 DEF Killed, diskVars, fetchVars
  <2>2. PlaceOK' /\ inst' = Blank /\ step' = "idle"
    BY <1>1, <2>1, Moves
  <2>3. IsInstallation(Blank) /\ Blank.at = {} /\ Blank.files = {} /\ Blank.odd = {}
    BY DEF IsInstallation, Blank
  <2> QED
    BY <1>1, <2>1, <2>2, <2>3, DiskStays
<1>3. CASE SetupStarts \/ Interrupt \/ ServeLoads \/ ServeGivesUp
  <2>1. UNCHANGED <<config, stated, unpacked, download, inst>>
    BY <1>3 DEF SetupStarts, Interrupt, ServeLoads, ServeGivesUp, diskVars, fetchVars, runVars
  <2>2. PlaceOK' /\ (step' = "retire" => step = "retire")
    BY <1>3 DEF SetupStarts, Interrupt, ServeLoads, ServeGivesUp, runVars, diskVars, PlaceOK, WithAsset, Member
  <2> QED
    BY <1>1, <2>1, <2>2, DiskStays
<1>4. CASE SetupCustom
  <2>1. PICK url \in [ProfileMembers -> {"none", "profile", "own"}], up \in SUBSET ProfileMembers :
            /\ config' = [config EXCEPT !.field = [m \in ProfileMembers |-> IF m \in up THEN url[m] ELSE @[m]]]
            /\ stated' = stated \cup up
    BY <1>4 DEF SetupCustom
  <2>2. holder = "free" /\ UNCHANGED runVars /\ UNCHANGED <<unpacked, download>>
    BY <1>4 DEF SetupCustom, fetchVars
  <2>3. PlaceOK' /\ step' = "idle" /\ inst' = inst
    BY <2>2 DEF PlaceOK, runVars, Member, WithAsset
  <2>4. config = [install |-> config.install, field |-> config.field]
    BY DEF DiskOK
  <2>5. config' = [install |-> config.install,
                   field |-> [m \in ProfileMembers |-> IF m \in up THEN url[m] ELSE config.field[m]]]
    BY ONLY <2>1, <2>4
  <2>6. /\ config'.install = config.install
        /\ config'.field = [m \in ProfileMembers |-> IF m \in up THEN url[m] ELSE config.field[m]]
    BY <2>5
  <2>7. /\ config'.field = [m \in ProfileMembers |-> config'.field[m]]
        /\ \A m \in ProfileMembers : config'.field[m] \in {"none", "profile", "own"}
    <3>1. \A m \in ProfileMembers : config.field[m] \in {"none", "profile", "own"}
      BY DEF DiskOK
    <3> QED
      BY <2>6, <3>1
  <2>8. DiskOK'
    BY <2>2, <2>3, <2>5, <2>6, <2>7 DEF DiskOK
  <2>9. FieldsOK'
    BY <2>1, <2>6 DEF FieldsOK
  <2> QED
    BY <2>3, <2>8, <2>9
<1> QED
  BY <1>2, <1>3, <1>4

\* A host that saves what it has read: it is the configuration, or it undoes a setup.
LEMMA ServeKeeps ==
    ASSUME PlaceOK, DiskOK, FieldsOK, ServeStarts, ~undone'
    PROVE  PlaceOK' /\ DiskOK' /\ FieldsOK'
<1>1. load = config
  BY DEF ServeStarts
<1>2. PICK field \in [ProfileMembers -> {"none", "profile", "own"}] :
          /\ config' = [load EXCEPT !.field = field]
          /\ stated' = stated \cup {m \in ProfileMembers : field[m] = "profile" /\ load.field[m] # "profile"}
  BY DEF ServeStarts
<1>3. holder = "free" /\ holder' = "serve" /\ UNCHANGED <<step, turn, need, stage, inst, unpacked, download>>
  BY DEF ServeStarts, fetchVars
<1>4. PlaceOK' /\ step' = "idle"
  BY <1>3 DEF PlaceOK, Member, WithAsset
<1>5. config = [install |-> config.install, field |-> config.field]
  BY DEF DiskOK
<1>6. config' = [install |-> config.install, field |-> field]
  BY ONLY <1>1, <1>2, <1>5
<1>7. config'.install = config.install /\ config'.field = field
  BY <1>6
<1>8. DiskOK'
  BY <1>3, <1>4, <1>6, <1>7 DEF DiskOK
<1>9. FieldsOK'
  BY <1>1, <1>2, <1>7 DEF FieldsOK
<1> QED
  BY <1>4, <1>8, <1>9

\* A data directory nobody has used yet.
LEMMA SetupInvInit == SetupInit => SetupInv
<1> SUFFICES ASSUME SetupInit PROVE PlaceOK /\ DiskOK /\ FieldsOK
  BY DEF SetupInv
<1>1. Profile \in Seq(ProfileMembers) /\ Len(Profile) \in 1..Len(Profile) /\ Len(Profile) >= 1
  BY SetupAssumption DEF SetupAssumption, ProfileMembers
<1>2. 1 \in 1..Len(Profile)
  BY <1>1
<1>3. PlaceOK
  BY <1>2 DEF SetupInit, PlaceOK, WithAsset
<1>4. IsInstallation(inst) /\ inst.at = {} /\ inst.files = {} /\ inst.odd = {}
  BY DEF SetupInit, IsInstallation, Blank
<1>5. DiskOK
  BY <1>4 DEF SetupInit, DiskOK, Recorded
<1>6. FieldsOK
  BY DEF SetupInit, FieldsOK
<1> QED
  BY <1>3, <1>5, <1>6

\* No step of a setup or of a host leaves the configuration unsound.
LEMMA SetupInvNext == SetupInv /\ [SetupNext]_setupVars => SetupInv'
<1> SUFFICES ASSUME SetupInv, [SetupNext]_setupVars, ~undone' PROVE PlaceOK' /\ DiskOK' /\ FieldsOK'
  BY DEF SetupInv
<1>1. CASE SetupNext
  <2>1. PlaceOK /\ DiskOK /\ FieldsOK
    BY <1>1 DEF SetupNext, SetupInv
  <2> QED
    BY <1>1, <2>1, LocksKeep, ServeKeeps, FetchesKeep, PublishKeeps, UnpackKeeps, CommitKeeps DEF SetupNext
<1>2. CASE UNCHANGED setupVars
  BY <1>2 DEF setupVars, runVars, diskVars, fetchVars, hostVars, SetupInv, PlaceOK, Member, DiskOK, FieldsOK
<1> QED
  BY <1>1, <1>2

\* For every profile, however often setup is interrupted or killed, downloads are cut off or
\* wrong, and hosts start meanwhile with any flags: what the saved configuration names is complete
\* and has the pinned bytes, and it points at no engine that its installation has as unavailable
\* unless somebody stated that address since (Publish, obtain, SaveInstallation, saveConfig,
\* RetireTrees, cmdServe).
THEOREM ConfigurationAlwaysSound == SetupSpec => []ConfigurationSound
<1>1. SetupInv => ConfigurationSound
  <2>1. ASSUME SetupInv, ~undone, config.install # None
        PROVE  /\ \A t \in TreesOf(config.install, Assets) \cup config.install.odd : unpacked[t] = "whole"
               /\ \A a \in config.install.files : download[a] = "good"
    BY <2>1 DEF SetupInv, DiskOK, Recorded, TreesOf
  <2>2. ASSUME SetupInv, ~undone PROVE FieldsOK
    BY <2>2 DEF SetupInv
  <2> QED
    BY <2>1, <2>2 DEF ConfigurationSound, ConfiguredIsWhole, EndpointHasEngine, FieldsOK
<1> QED
  BY <1>1, SetupInvInit, SetupInvNext, PTL DEF SetupSpec

-----------------------------------------------------------------------------
(***************************************************************************)
(* The owner's console, for any finite set of calls and any peers: the     *)
(* failures a peer's entry still counts are the last of its failures, and  *)
(* the others are a minute old (ConsoleInv).                               *)
(***************************************************************************)

\* The calls whose code is being hashed for a peer, and its failures of the last minute.
Hashing(p) == {c \in Calls : call[c].at = "reserved" /\ call[c].peer = p}
Failing(p) == {i \in DOMAIN refusals[p] : clock - refusals[p][i] < Minute}

CallsOK ==
    \A c \in Calls : /\ call[c] = [at |-> call[c].at, peer |-> call[c].peer, code |-> call[c].code, kind |-> call[c].kind]
                     /\ call[c].peer \in Peers

\* At t, an entry e of a peer with n calls being hashed and the refusals rs: what it still counts
\* are the last of them, the others are a minute old, and so are those after its last touch.
EntryOK(e, n, rs, t) ==
    /\ e = [started |-> e.started, failed |-> e.failed, active |-> e.active]
    /\ e.started \in Nat /\ e.failed \in Seq(Nat) /\ e.active = n
    /\ Len(e.failed) + n <= MaxFailures
    /\ Len(e.failed) <= Len(rs)
    /\ \A j \in 1..Len(e.failed) : e.failed[j] = rs[(Len(rs) - Len(e.failed)) + j]
    /\ \A i \in 1..(Len(rs) - Len(e.failed)) : t - rs[i] >= Minute
    /\ \A i \in 1..Len(rs) : rs[i] <= e.started \/ t - rs[i] >= Minute

\* A peer the table f does not remember has nothing under way and nothing of the last minute.
PeerOK(p, f, n, rs, t) ==
    /\ rs \in Seq(Nat) /\ n \in Nat /\ \A i \in 1..Len(rs) : rs[i] <= t
    /\ p \notin DOMAIN f => n = 0 /\ \A i \in 1..Len(rs) : t - rs[i] >= Minute
    /\ p \in DOMAIN f => EntryOK(f[p], n, rs, t)

PeersOK == \A p \in Peers : PeerOK(p, peerFailures, Cardinality(Hashing(p)), refusals[p], clock)

\* admin.json has the code in memory, and a code that was shown is that code.
CodeOK ==
    /\ code = [live |-> code.live, file |-> code.file, minted |-> code.minted, shown |-> code.shown]
    /\ code.shown # 0 => code.live = code.shown /\ code.file = code.shown

ConsoleInv ==
    /\ clock \in Nat /\ refusals = [p \in Peers |-> refusals[p]] /\ call = [c \in Calls |-> call[c]]
    /\ CallsOK /\ PeersOK /\ CodeOK

\* Few enough attempts are being hashed to be counted.
LEMMA HashingFinite == ASSUME NEW p PROVE IsFiniteSet(Hashing(p)) /\ Cardinality(Hashing(p)) \in Nat
<1>1. Hashing(p) \subseteq Calls
  BY DEF Hashing
<1> QED
  BY <1>1, ConsoleAssumption, FS_Subset, FS_CardinalityType DEF ConsoleAssumption

\* What leads a list and is a minute old goes: the rest follows in its order.
LEMMA RecentFacts ==
    ASSUME clock \in Nat, NEW ts \in Seq(Nat)
    PROVE  /\ Stale(ts) \in 0..Len(ts) /\ \A i \in 1..Stale(ts) : clock - ts[i] >= Minute
           /\ Recent(ts) \in Seq(Nat) /\ Len(Recent(ts)) = Len(ts) - Stale(ts)
           /\ \A i \in 1..(Len(ts) - Stale(ts)) : Recent(ts)[i] = ts[Stale(ts) + i]
<1> DEFINE N == {i \in 1..Len(ts) : clock - ts[i] < Minute}
           P(j) == /\ \A i \in 1..j : clock - ts[i] >= Minute
                   /\ j < Len(ts) => clock - ts[j + 1] < Minute
<1>0. /\ Len(ts) \in Nat /\ Minute \in Nat /\ \A i \in 1..Len(ts) : ts[i] \in Nat
  BY ConsoleAssumption DEF ConsoleAssumption
<1>1. \E j \in 0..Len(ts) : P(j)
  <2>1. CASE N = {}
    <3>1. P(Len(ts))
      BY <1>0, <2>1
    <3> QED
      BY <1>0, <3>1
  <2>2. CASE N # {}
    <3>1. N \in SUBSET Nat
      BY <1>0
    <3>2. PICK m \in N : \A n \in N : m <= n
      BY <2>2, <3>1, LeastNatural
    <3>3. m - 1 \in 0..Len(ts) /\ (m - 1) + 1 = m /\ m \in 1..Len(ts)
      BY <1>0
    <3>4. ASSUME NEW i \in 1..(m - 1) PROVE clock - ts[i] >= Minute
      <4>1. i \in 1..Len(ts) /\ ~(m <= i)
        BY <3>3
      <4>2. i \notin N
        BY <3>2, <4>1
      <4> QED
        BY <1>0, <4>1, <4>2
    <3>5. P(m - 1)
      BY <3>3, <3>4
    <3> QED
      BY <3>3, <3>5
  <2> QED
    BY <2>1, <2>2
<1> DEFINE k == Stale(ts)
<1>2. k = CHOOSE j \in 0..Len(ts) : P(j)
  BY DEF Stale
<1>3. k \in 0..Len(ts) /\ P(k)
  <2> HIDE DEF P, k
  <2> QED
    BY <1>1, <1>2
<1> HIDE DEF k
<1>4. \A i \in (k + 1)..Len(ts) : ts[i] \in Nat
  BY <1>0, <1>3
<1>5. k + 1 \in Int /\ Len(ts) \in Int
  BY <1>0, <1>3
<1> DEFINE u == SubSeq(ts, k + 1, Len(ts))
<1>6. /\ u \in Seq(Nat)
      /\ Len(u) = IF k + 1 <= Len(ts) THEN Len(ts) - (k + 1) + 1 ELSE 0
      /\ \A i \in 1..(Len(ts) - (k + 1) + 1) : u[i] = ts[(k + 1) + i - 1]
  BY <1>4, <1>5, SubSeqProperties
<1>7. Recent(ts) = u
  BY DEF Recent, k
<1> HIDE DEF u
<1>8. \A i \in 1..(Len(ts) - k) : (k + 1) + i - 1 = k + i
  BY <1>0, <1>3
<1>9. /\ u \in Seq(Nat) /\ Len(u) = Len(ts) - k
      /\ \A i \in 1..(Len(ts) - k) : u[i] = ts[k + i]
  BY <1>0, <1>3, <1>6, <1>8
<1> QED
  BY <1>3, <1>7, <1>9 DEF k

\* An entry that is pruned counts what it has to.
LEMMA PrunedEntry ==
    ASSUME clock \in Nat, NEW rs \in Seq(Nat), NEW n \in Nat, NEW e, EntryOK(e, n, rs, clock)
    PROVE  EntryOK([e EXCEPT !.failed = Recent(@)], n, rs, clock)
<1> DEFINE a == Stale(e.failed)
           u == Recent(e.failed)
           L == Len(rs)
           M == Len(e.failed)
<1>1. e = [started |-> e.started, failed |-> e.failed, active |-> e.active]
  BY DEF EntryOK
<1>2. [e EXCEPT !.failed = Recent(@)] = [started |-> e.started, failed |-> u, active |-> e.active]
  BY ONLY <1>1
<1>3. e.failed \in Seq(Nat)
  BY DEF EntryOK
<1>4. /\ a \in 0..M /\ \A i \in 1..a : clock - e.failed[i] >= Minute
      /\ u \in Seq(Nat) /\ Len(u) = M - a
      /\ \A i \in 1..(M - a) : u[i] = e.failed[a + i]
  BY <1>3, RecentFacts
<1>5. L \in Nat /\ M \in Nat /\ M <= L /\ MaxFailures \in Nat /\ Minute \in Nat
  BY <1>3, ConsoleAssumption DEF EntryOK, ConsoleAssumption
<1>6. /\ \A j \in 1..M : e.failed[j] = rs[(L - M) + j]
      /\ \A i \in 1..(L - M) : clock - rs[i] >= Minute
      /\ M + n <= MaxFailures /\ e.active = n /\ e.started \in Nat
      /\ \A i \in 1..L : rs[i] <= e.started \/ clock - rs[i] >= Minute
  BY DEF EntryOK
<1> HIDE DEF a, u, L, M
<1>7. \A j \in 1..(M - a) : u[j] = rs[(L - (M - a)) + j]
  <2> SUFFICES ASSUME NEW j \in 1..(M - a) PROVE u[j] = rs[(L - (M - a)) + j]
    OBVIOUS
  <2>1. a + j \in 1..M /\ (L - M) + (a + j) = (L - (M - a)) + j
    BY <1>4, <1>5
  <2> QED
    BY <1>4, <1>6, <2>1
<1>8. \A i \in 1..(L - (M - a)) : clock - rs[i] >= Minute
  <2> SUFFICES ASSUME NEW i \in 1..(L - (M - a)) PROVE clock - rs[i] >= Minute
    OBVIOUS
  <2>1. CASE i <= L - M
    BY <1>4, <1>5, <1>6, <2>1
  <2>2. CASE i > L - M
    <3> DEFINE j == i - (L - M)
    <3>1. j \in 1..a /\ j \in 1..M /\ (L - M) + j = i
      BY <1>4, <1>5, <2>2
    <3> HIDE DEF j
    <3> QED
      BY <1>4, <1>6, <3>1
  <2> QED
    BY <1>4, <1>5, <2>1, <2>2
<1>9. (M - a) + n <= MaxFailures /\ M - a <= L
  BY <1>4, <1>5, <1>6
<1> DEFINE v == [started |-> e.started, failed |-> u, active |-> e.active]
<1>10. v = [started |-> v.started, failed |-> v.failed, active |-> v.active]
       /\ v.started = e.started /\ v.failed = u /\ v.active = e.active
  OBVIOUS
<1> HIDE DEF v
<1>11. EntryOK(v, n, rs, clock)
  BY <1>4, <1>6, <1>7, <1>8, <1>9, <1>10 DEF EntryOK, L
<1> QED
  BY <1>2, <1>11 DEF v

\* Nothing is lost with a peer that the sweep forgets.
LEMMA SweptKeeps ==
    ASSUME clock \in Nat, NEW p, NEW n, NEW rs, PeerOK(p, peerFailures, n, rs, clock)
    PROVE  PeerOK(p, Swept, n, rs, clock)
<1>1. /\ DOMAIN Swept \subseteq DOMAIN peerFailures
      /\ \A q \in DOMAIN Swept : Swept[q] = peerFailures[q]
      /\ \A q \in DOMAIN peerFailures \ DOMAIN Swept :
            ~(peerFailures[q].active > 0) /\ ~(clock - peerFailures[q].started < Minute)
  BY DEF Swept
<1>2. CASE p \in DOMAIN Swept
  BY <1>1, <1>2 DEF PeerOK
<1>3. CASE p \notin DOMAIN peerFailures
  BY <1>1, <1>3 DEF PeerOK
<1>4. CASE p \in DOMAIN peerFailures \ DOMAIN Swept
  <2> DEFINE e == peerFailures[p]
  <2>1. EntryOK(e, n, rs, clock) /\ rs \in Seq(Nat) /\ n \in Nat /\ \A i \in 1..Len(rs) : rs[i] <= clock
    BY <1>4 DEF PeerOK
  <2>2. ~(e.active > 0) /\ ~(clock - e.started < Minute) /\ e.started \in Nat /\ e.active = n
    BY <1>1, <1>4, <2>1 DEF EntryOK
  <2>3. \A i \in 1..Len(rs) : rs[i] <= e.started \/ clock - rs[i] >= Minute
    BY <2>1 DEF EntryOK
  <2>4. Minute \in Nat /\ Len(rs) \in Nat /\ \A i \in 1..Len(rs) : rs[i] \in Nat
    BY <2>1, ConsoleAssumption DEF ConsoleAssumption
  <2> HIDE DEF e
  <2>5. \A i \in 1..Len(rs) : clock - rs[i] >= Minute
    BY <2>2, <2>3, <2>4
  <2>6. n = 0
    BY <2>1, <2>2
  <2> QED
    BY <1>4, <2>1, <2>5, <2>6 DEF PeerOK
<1> QED
  BY <1>2, <1>3, <1>4

\* The entry a reservation finds or makes.
LEMMA EntryFacts ==
    ASSUME clock \in Nat, NEW p, NEW n, NEW rs, PeerOK(p, peerFailures, n, rs, clock)
    PROVE  EntryOK(Entry(p), n, rs, clock)
<1>1. PeerOK(p, Swept, n, rs, clock)
  BY SweptKeeps
<1>2. CASE p \in DOMAIN Swept
  <2>1. EntryOK(Swept[p], n, rs, clock) /\ rs \in Seq(Nat) /\ n \in Nat
    BY <1>1, <1>2 DEF PeerOK
  <2>2. EntryOK([Swept[p] EXCEPT !.failed = Recent(@)], n, rs, clock)
    BY <2>1, PrunedEntry
  <2> QED
    BY <1>2, <2>2 DEF Entry
<1>3. CASE p \notin DOMAIN Swept
  <2>1. /\ rs \in Seq(Nat) /\ n = 0 /\ Len(rs) \in Nat
        /\ \A i \in 1..Len(rs) : clock - rs[i] >= Minute
    BY <1>1, <1>3 DEF PeerOK
  <2>2. Entry(p) = [started |-> clock, failed |-> <<>>, active |-> 0]
    BY <1>3 DEF Entry
  <2>3. MaxFailures \in Nat
    BY ConsoleAssumption DEF ConsoleAssumption
  <2>4. <<>> \in Seq(Nat) /\ Len(<<>>) = 0
    BY EmptySeq
  <2> DEFINE e == [started |-> clock, failed |-> <<>>, active |-> 0]
  <2>5. e.started = clock /\ e.failed = <<>> /\ e.active = 0
        /\ e = [started |-> e.started, failed |-> e.failed, active |-> e.active]
    OBVIOUS
  <2>6. Len(rs) - 0 = Len(rs) /\ 0 + 0 <= MaxFailures /\ 0 <= Len(rs)
    BY <2>1, <2>3
  <2> HIDE DEF e
  <2>7. \A j \in 1..Len(e.failed) : e.failed[j] = rs[(Len(rs) - Len(e.failed)) + j]
    BY <2>4, <2>5
  <2>8. EntryOK(e, n, rs, clock)
    BY <2>1, <2>3, <2>4, <2>5, <2>6, <2>7 DEF EntryOK
  <2> QED
    BY <2>2, <2>8 DEF e
<1> QED
  BY <1>2, <1>3

\* A reservation: one more call is hashed for the peer, within its budget.
LEMMA ReservedEntry ==
    ASSUME NEW t \in Nat, NEW n \in Nat, NEW rs \in Seq(Nat), NEW e, EntryOK(e, n, rs, t),
           Len(e.failed) + e.active < MaxFailures
    PROVE  EntryOK([e EXCEPT !.active = @ + 1], n + 1, rs, t)
<1>1. e = [started |-> e.started, failed |-> e.failed, active |-> e.active]
  BY DEF EntryOK
<1> DEFINE v == [started |-> e.started, failed |-> e.failed, active |-> e.active + 1]
<1>2. [e EXCEPT !.active = @ + 1] = v
  BY ONLY <1>1
<1>3. v = [started |-> v.started, failed |-> v.failed, active |-> v.active]
      /\ v.started = e.started /\ v.failed = e.failed /\ v.active = e.active + 1
  OBVIOUS
<1> HIDE DEF v
<1>4. Len(e.failed) \in Nat /\ MaxFailures \in Nat /\ e.active = n
  BY ConsoleAssumption DEF ConsoleAssumption, EntryOK
<1>5. Len(v.failed) + (n + 1) <= MaxFailures
  BY <1>3, <1>4
<1>6. EntryOK(v, n + 1, rs, t)
  BY <1>3, <1>4, <1>5 DEF EntryOK
<1> QED
  BY <1>2, <1>6

\* A success gives the reservation back.
LEMMA RefundedEntry ==
    ASSUME NEW t \in Nat, NEW n \in Nat, NEW rs \in Seq(Nat), NEW e, EntryOK(e, n + 1, rs, t)
    PROVE  EntryOK([e EXCEPT !.active = @ - 1], n, rs, t)
<1>1. e = [started |-> e.started, failed |-> e.failed, active |-> e.active]
  BY DEF EntryOK
<1> DEFINE v == [started |-> e.started, failed |-> e.failed, active |-> e.active - 1]
<1>2. [e EXCEPT !.active = @ - 1] = v
  BY ONLY <1>1
<1>3. v = [started |-> v.started, failed |-> v.failed, active |-> v.active]
      /\ v.started = e.started /\ v.failed = e.failed /\ v.active = e.active - 1
  OBVIOUS
<1> HIDE DEF v
<1>4. Len(e.failed) \in Nat /\ MaxFailures \in Nat /\ e.active = n + 1
  BY ConsoleAssumption DEF ConsoleAssumption, EntryOK
<1>5. Len(v.failed) + n <= MaxFailures /\ v.active = n
  BY <1>3, <1>4 DEF EntryOK
<1>6. EntryOK(v, n, rs, t)
  BY <1>3, <1>4, <1>5 DEF EntryOK
<1> QED
  BY <1>2, <1>6

\* A failure keeps its place, as one of the last minute.
LEMMA FailedEntry ==
    ASSUME NEW t \in Nat, NEW n \in Nat, NEW rs \in Seq(Nat), NEW e, EntryOK(e, n + 1, rs, t),
           \A i \in 1..Len(rs) : rs[i] <= t
    PROVE  EntryOK([started |-> t, failed |-> Append(e.failed, t), active |-> e.active - 1], n, Append(rs, t), t)
<1> DEFINE u == Append(e.failed, t)
           ss == Append(rs, t)
           v == [started |-> t, failed |-> u, active |-> e.active - 1]
           L == Len(rs)
           M == Len(e.failed)
<1>3. v = [started |-> v.started, failed |-> v.failed, active |-> v.active]
      /\ v.started = t /\ v.failed = u /\ v.active = e.active - 1
  OBVIOUS
<1>4. e.failed \in Seq(Nat) /\ e.active = n + 1 /\ MaxFailures \in Nat
  BY ConsoleAssumption DEF ConsoleAssumption, EntryOK
<1>5. /\ u \in Seq(Nat) /\ Len(u) = M + 1 /\ \A i \in 1..M : u[i] = e.failed[i]
      /\ u[M + 1] = t
  BY <1>4, AppendProperties
<1>6. /\ ss \in Seq(Nat) /\ Len(ss) = L + 1 /\ \A i \in 1..L : ss[i] = rs[i]
      /\ ss[L + 1] = t
  BY AppendProperties
<1>7. /\ L \in Nat /\ M \in Nat /\ M <= L /\ M + (n + 1) <= MaxFailures /\ Minute \in Nat
      /\ \A i \in 1..L : rs[i] \in Nat /\ rs[i] <= t
  <2>1. M + (n + 1) <= MaxFailures /\ M <= L
    BY DEF EntryOK
  <2>2. Minute \in Nat /\ L \in Nat /\ M \in Nat
    BY <1>4, ConsoleAssumption DEF ConsoleAssumption
  <2>3. \A i \in 1..L : rs[i] \in Nat
    OBVIOUS
  <2> QED
    BY <2>1, <2>2, <2>3
<1>8. /\ \A j \in 1..M : e.failed[j] = rs[(L - M) + j]
      /\ \A i \in 1..(L - M) : t - rs[i] >= Minute
  BY DEF EntryOK
<1> HIDE DEF u, ss, v, L, M
<1>9. \A j \in 1..(M + 1) : u[j] = ss[((L + 1) - (M + 1)) + j]
  <2> SUFFICES ASSUME NEW j \in 1..(M + 1) PROVE u[j] = ss[((L + 1) - (M + 1)) + j]
    OBVIOUS
  <2>1. (L + 1) - (M + 1) = L - M
    BY <1>7
  <2>2. CASE j = M + 1
    BY SMTT(60), <1>5, <1>6, <1>7, <2>1, <2>2
  <2>3. CASE j \in 1..M
    <3>1. (L - M) + j \in 1..L
      BY <1>7, <2>3
    <3> QED
      BY <1>5, <1>6, <1>8, <2>1, <2>3, <3>1
  <2>4. M \in Nat
    BY <1>7
  <2>5. j = M + 1 \/ j \in 1..M
    BY <2>4
  <2> QED
    BY <2>2, <2>3, <2>5
<1>10. \A i \in 1..((L + 1) - (M + 1)) : t - ss[i] >= Minute
  <2>1. \A i \in 1..((L + 1) - (M + 1)) : i \in 1..(L - M) /\ i \in 1..L
    BY <1>7
  <2> QED
    BY <1>6, <1>8, <2>1
<1>11. \A i \in 1..(L + 1) : ss[i] <= t \/ t - ss[i] >= Minute
  <2>1. \A i \in 1..(L + 1) : i \in 1..L \/ i = L + 1
    BY <1>7
  <2> QED
    BY <1>6, <1>7, <2>1
<1>12. Len(v.failed) = M + 1 /\ (M + 1) + n <= MaxFailures /\ M + 1 <= L + 1 /\ v.active = n
  BY <1>3, <1>4, <1>5, <1>7
<1>13. EntryOK(v, n, ss, t)
  BY <1>3, <1>5, <1>6, <1>9, <1>10, <1>11, <1>12 DEF EntryOK
<1> QED
  BY <1>13 DEF v, u, ss

\* A step of one call that is not, and does not get, under way.
LEMMA HashingStays ==
    ASSUME NEW c \in Calls, call = [d \in Calls |-> call[d]], NEW v, call' = [call EXCEPT ![c] = v],
           call[c].at # "reserved", v.at # "reserved", NEW p
    PROVE  Hashing(p)' = Hashing(p)
BY DEF Hashing

\* On with a new code, off, or as it was.
LEMMA CodeKept == CodeOK /\ RemoteAction => CodeOK'
<1>1. ASSUME NEW rotate, Mint(rotate) PROVE CodeOK'
  BY <1>1 DEF CodeOK, Mint
<1>2. Disable => CodeOK'
  BY DEF CodeOK, Disable
<1>3. CodeOK /\ UNCHANGED code => CodeOK'
  BY DEF CodeOK
<1> QED
  BY <1>1, <1>2, <1>3 DEF RemoteAction

\* The rest of a request, and what its owner does: no peer's budget is touched.
LEMMA ServedKeeps ==
    ASSUME ConsoleInv, NEW c \in Calls, ConsoleAcquire(c) \/ Forward(c) \/ ForwardRemoteAction(c)
    PROVE  ConsoleInv'
<1>1. /\ call = [d \in Calls |-> call[d]] /\ CallsOK
  BY DEF ConsoleInv
<1>2. PICK a \in {"forwarded", "done"} : call' = [call EXCEPT ![c].at = a]
  BY DEF ConsoleAcquire, Forward, ForwardRemoteAction, Ends
<1>3. call[c].at \in {"admitted", "forwarded"} /\ UNCHANGED <<clock, peerFailures, refusals>>
  BY DEF ConsoleAcquire, Forward, ForwardRemoteAction
<1>4. /\ call[c] = [at |-> call[c].at, peer |-> call[c].peer, code |-> call[c].code, kind |-> call[c].kind]
      /\ call[c].peer \in Peers
  BY <1>1 DEF CallsOK
<1> DEFINE v == [at |-> a, peer |-> call[c].peer, code |-> call[c].code, kind |-> call[c].kind]
<1>5. call' = [call EXCEPT ![c] = v]
  <2>1. [call[c] EXCEPT !.at = a] = v
    BY ONLY <1>4
  <2>2. call' = [call EXCEPT ![c] = [call[c] EXCEPT !.at = a]]
    BY <1>2
  <2> QED
    BY ONLY <2>1, <2>2
<1>6. v.at = a /\ v.peer = call[c].peer /\ v = [at |-> v.at, peer |-> v.peer, code |-> v.code, kind |-> v.kind]
  OBVIOUS
<1> HIDE DEF v
<1>7. call' = [d \in Calls |-> call'[d]] /\ CallsOK'
  BY <1>1, <1>4, <1>5, <1>6 DEF CallsOK
<1>8. ASSUME NEW p PROVE Hashing(p)' = Hashing(p)
  BY <1>1, <1>3, <1>5, <1>6, HashingStays
<1>9. PeersOK'
  BY <1>3, <1>8 DEF ConsoleInv, PeersOK
<1>10. CodeOK'
  <2>1. RemoteAction \/ UNCHANGED code
    BY DEF ConsoleAcquire, Forward, ForwardRemoteAction
  <2>2. CodeOK
    BY DEF ConsoleInv
  <2>3. UNCHANGED code => CodeOK'
    BY <2>2 DEF CodeOK, ShownCodeWorks
  <2> QED
    BY <2>1, <2>2, <2>3, CodeKept
<1> QED
  BY <1>3, <1>7, <1>9, <1>10 DEF ConsoleInv

\* The owner at the machine.
LEMMA OwnerKeeps == ASSUME ConsoleInv, OwnerActs PROVE ConsoleInv'
<1>1. CodeOK'
  BY CodeKept DEF ConsoleInv, OwnerActs
<1>2. UNCHANGED <<clock, peerFailures, call, refusals>>
  BY DEF OwnerActs
<1>3. PeersOK' /\ CallsOK'
  BY <1>2 DEF ConsoleInv, PeersOK, CallsOK, Hashing
<1> QED
  BY <1>1, <1>2, <1>3 DEF ConsoleInv

\* What is a minute old stays so.
LEMMA TickKeeps == ASSUME ConsoleInv, Tick PROVE ConsoleInv'
<1>1. clock \in Nat /\ clock' = clock + 1 /\ UNCHANGED <<code, peerFailures, call, refusals>> /\ Minute \in Nat
  BY ConsoleAssumption DEF Tick, ConsoleInv, ConsoleAssumption
<1>2. ASSUME NEW p, NEW n, NEW rs, PeerOK(p, peerFailures, n, rs, clock)
      PROVE  PeerOK(p, peerFailures, n, rs, clock + 1)
  <2>1. rs \in Seq(Nat) /\ n \in Nat /\ Len(rs) \in Nat /\ \A i \in 1..Len(rs) : rs[i] <= clock /\ rs[i] \in Nat
    BY <1>2 DEF PeerOK
  <2>2. \A i \in 1..Len(rs) : /\ rs[i] <= clock + 1
                              /\ clock - rs[i] >= Minute => (clock + 1) - rs[i] >= Minute
    BY <1>1, <2>1
  <2>3. CASE p \notin DOMAIN peerFailures
    BY <1>2, <2>1, <2>2, <2>3 DEF PeerOK
  <2>4. CASE p \in DOMAIN peerFailures
    <3> DEFINE e == peerFailures[p]
    <3>1. EntryOK(e, n, rs, clock)
      BY <1>2, <2>4 DEF PeerOK
    <3> HIDE DEF e
    <3>2. \A i \in 1..(Len(rs) - Len(e.failed)) : i \in 1..Len(rs)
      <4>1. Len(e.failed) \in Nat
        BY <3>1 DEF EntryOK
      <4> QED
        BY <2>1, <4>1
    <3>3. EntryOK(e, n, rs, clock + 1)
      BY <2>2, <3>1, <3>2 DEF EntryOK
    <3> QED
      BY <2>1, <2>2, <2>4, <3>3 DEF PeerOK, e
  <2> QED
    BY <2>3, <2>4
<1>3. \A p \in Peers : Hashing(p)' = Hashing(p)
  BY <1>1 DEF Hashing
<1>4. PeersOK'
  <2> SUFFICES ASSUME NEW p \in Peers
               PROVE  PeerOK(p, peerFailures', Cardinality(Hashing(p)'), refusals'[p], clock')
    BY DEF PeersOK
  <2>1. PeerOK(p, peerFailures, Cardinality(Hashing(p)), refusals[p], clock)
    BY DEF ConsoleInv, PeersOK
  <2> QED
    BY <1>1, <1>2, <1>3, <2>1
<1> QED
  BY <1>1, <1>4 DEF ConsoleInv, CallsOK, CodeOK, ShownCodeWorks

\* Nobody is remembered, nothing is under way.
LEMMA FreshPeers ==
    ASSUME NEW f, DOMAIN f = {}, NEW t \in Nat, NEW p, NEW rs, rs = <<>>
    PROVE  PeerOK(p, f, 0, rs, t)
<1>1. <<>> \in Seq(Nat) /\ Len(<<>>) = 0 /\ 1..0 = {}
  OBVIOUS
<1> QED
  BY <1>1 DEF PeerOK

\* A start of the host: the table and the requests under way are gone, a code is read back.
LEMMA RestartsKeep == ASSUME ConsoleInv, Restart PROVE ConsoleInv'
<1>1. clock' = clock /\ clock \in Nat /\ peerFailures' = <<>> /\ refusals' = [p \in Peers |-> <<>>]
  BY DEF Restart, ConsoleInv
<1>2. call' = [c \in Calls |-> IF call[c].at = "idle" THEN call[c] ELSE [call[c] EXCEPT !.at = "done"]]
  BY DEF Restart
<1>3. ASSUME NEW c \in Calls
      PROVE  /\ call'[c] = [at |-> call'[c].at, peer |-> call'[c].peer, code |-> call'[c].code, kind |-> call'[c].kind]
             /\ call'[c].peer \in Peers /\ call'[c].at # "reserved"
  <2>1. /\ call[c] = [at |-> call[c].at, peer |-> call[c].peer, code |-> call[c].code, kind |-> call[c].kind]
        /\ call[c].peer \in Peers
    BY DEF ConsoleInv, CallsOK
  <2> QED
    BY <1>2, <2>1
<1>4. CallsOK' /\ call' = [c \in Calls |-> call'[c]]
  BY <1>2, <1>3 DEF CallsOK
<1>5. ASSUME NEW p \in Peers PROVE Cardinality(Hashing(p)') = 0
  BY <1>3, FS_EmptySet DEF Hashing
<1>6. PeersOK'
  <2>1. DOMAIN peerFailures' = {}
    BY <1>1
  <2> SUFFICES ASSUME NEW p \in Peers
               PROVE  PeerOK(p, peerFailures', Cardinality(Hashing(p)'), refusals'[p], clock')
    BY DEF PeersOK
  <2>2. PeerOK(p, peerFailures', 0, refusals'[p], clock)
    BY <1>1, <2>1, FreshPeers
  <2> QED
    BY <1>1, <1>5, <2>2
<1>7. CodeOK'
  BY DEF ConsoleInv, CodeOK, ShownCodeWorks, Restart
<1> QED
  BY <1>1, <1>4, <1>6, <1>7 DEF ConsoleInv

\* The table with one entry put in.
LEMMA PutFacts ==
    ASSUME NEW f, NEW p, NEW e, NEW t
    PROVE  /\ \A q, n, rs : q # p /\ PeerOK(q, f, n, rs, t) => PeerOK(q, Put(f, p, e), n, rs, t)
           /\ \A n, rs : /\ EntryOK(e, n, rs, t) /\ rs \in Seq(Nat) /\ n \in Nat /\ \A i \in 1..Len(rs) : rs[i] <= t
                         => PeerOK(p, Put(f, p, e), n, rs, t)
<1>1. p \in DOMAIN Put(f, p, e) /\ Put(f, p, e)[p] = e
  BY DEF Put
<1>2. \A q : q # p => /\ q \in DOMAIN Put(f, p, e) <=> q \in DOMAIN f
                      /\ q \in DOMAIN f => Put(f, p, e)[q] = f[q]
  BY DEF Put
<1> QED
  BY <1>1, <1>2 DEF PeerOK

\* What a refused request does to the table: nothing, the sweep, or its peer's pruning.
LEMMA RefusedPeers ==
    ASSUME clock \in Nat, NEW p, NEW q, NEW n, NEW rs, PeerOK(q, peerFailures, n, rs, clock),
           NEW f, f \in {peerFailures, Swept, Put(Swept, p, Entry(p))}
    PROVE  PeerOK(q, f, n, rs, clock)
<1>1. PeerOK(q, Swept, n, rs, clock)
  BY SweptKeeps
<1>2. rs \in Seq(Nat) /\ n \in Nat /\ \A i \in 1..Len(rs) : rs[i] <= clock
  BY DEF PeerOK
<1>3. CASE f = Put(Swept, p, Entry(p)) /\ q # p
  BY <1>1, <1>3, PutFacts
<1>4. CASE f = Put(Swept, p, Entry(p)) /\ q = p
  <2>1. EntryOK(Entry(q), n, rs, clock)
    BY EntryFacts
  <2> QED
    BY <1>2, <1>4, <2>1, PutFacts
<1> QED
  BY <1>1, <1>3, <1>4

\* A request arrives: it is refused, or hashed within its peer's budget.
LEMMA ArriveKeeps == ASSUME ConsoleInv, NEW c \in Calls, Arrive(c) PROVE ConsoleInv'
<1>1. /\ call = [d \in Calls |-> call[d]] /\ CallsOK /\ clock \in Nat /\ PeersOK
      /\ call[c] = [at |-> call[c].at, peer |-> call[c].peer, code |-> call[c].code, kind |-> call[c].kind]
      /\ call[c].peer \in Peers
  BY DEF ConsoleInv, CallsOK
<1>2. call[c].at = "idle" /\ UNCHANGED <<clock, code, refusals>>
  BY DEF Arrive
<1>3. PICK p \in Peers, k \in Kinds, n \in 0..code.minted :
         IF code.live # 0 /\ Room(p)
         THEN /\ peerFailures' = Put(Swept, p, [Entry(p) EXCEPT !.active = @ + 1])
              /\ call' = [call EXCEPT ![c] = [at |-> "reserved", peer |-> p, code |-> n, kind |-> k]]
         ELSE /\ peerFailures' = IF code.live = 0 THEN peerFailures
                                 ELSE IF p \in DOMAIN Swept THEN Put(Swept, p, Entry(p)) ELSE Swept
              /\ Ends(c)
  BY DEF Arrive
<1>4. CodeOK'
  BY <1>2 DEF ConsoleInv, CodeOK, ShownCodeWorks
<1>5. CASE code.live # 0 /\ Room(p)
  <2> DEFINE v == [at |-> "reserved", peer |-> p, code |-> n, kind |-> k]
             e == [Entry(p) EXCEPT !.active = @ + 1]
  <2>1. peerFailures' = Put(Swept, p, e) /\ call' = [call EXCEPT ![c] = v]
    BY <1>3, <1>5
  <2>2. v.at = "reserved" /\ v.peer = p /\ v = [at |-> v.at, peer |-> v.peer, code |-> v.code, kind |-> v.kind]
    OBVIOUS
  <2> HIDE DEF v
  <2>3. call' = [d \in Calls |-> call'[d]] /\ CallsOK'
    BY <1>1, <2>1, <2>2 DEF CallsOK
  <2> HIDE DEF e
  <2>4. ASSUME NEW q \in Peers PROVE PeerOK(q, peerFailures', Cardinality(Hashing(q)'), refusals'[q], clock')
    <3>1. PeerOK(q, peerFailures, Cardinality(Hashing(q)), refusals[q], clock)
      BY <1>1 DEF PeersOK
    <3>2. CASE q # p
      <4>1. Hashing(q)' = Hashing(q)
        BY <1>1, <1>2, <2>1, <2>2, <3>2 DEF Hashing
      <4>2. PeerOK(q, Swept, Cardinality(Hashing(q)), refusals[q], clock)
        BY <1>1, <3>1, SweptKeeps
      <4> QED
        BY <1>2, <2>1, <3>2, <4>1, <4>2, PutFacts
    <3>3. CASE q = p
      <4>1. Hashing(q)' = Hashing(q) \cup {c} /\ c \notin Hashing(q)
        BY <1>1, <1>2, <2>1, <2>2, <3>3 DEF Hashing
      <4>2. Cardinality(Hashing(q)') = Cardinality(Hashing(q)) + 1
        BY <4>1, HashingFinite, FS_AddElement
      <4> DEFINE m == Cardinality(Hashing(q))
      <4>3. m \in Nat
        BY HashingFinite
      <4>4. refusals[q] \in Seq(Nat) /\ \A i \in 1..Len(refusals[q]) : refusals[q][i] <= clock
        BY <3>1 DEF PeerOK
      <4>5. EntryOK(Entry(q), m, refusals[q], clock)
        BY <1>1, <3>1, EntryFacts
      <4>6. Len(Entry(q).failed) + Entry(q).active < MaxFailures
        BY <1>5, <3>3 DEF Room
      <4> HIDE DEF m
      <4>7. EntryOK(e, m + 1, refusals[q], clock)
        BY <1>1, <3>3, <4>3, <4>4, <4>5, <4>6, ReservedEntry DEF e
      <4>8. PeerOK(q, Put(Swept, p, e), m + 1, refusals[q], clock)
        BY <3>3, <4>3, <4>4, <4>7, PutFacts
      <4> QED
        BY <1>2, <2>1, <4>2, <4>8 DEF m
    <3> QED
      BY <3>2, <3>3
  <2> QED
    BY <1>1, <1>2, <1>4, <2>3, <2>4 DEF ConsoleInv, PeersOK
<1>6. CASE ~(code.live # 0 /\ Room(p))
  <2>1. call' = [call EXCEPT ![c].at = "done"] /\ peerFailures' \in {peerFailures, Swept, Put(Swept, p, Entry(p))}
    BY <1>3, <1>6 DEF Ends
  <2> DEFINE v == [at |-> "done", peer |-> call[c].peer, code |-> call[c].code, kind |-> call[c].kind]
  <2>2. [call[c] EXCEPT !.at = "done"] = v
    BY ONLY <1>1
  <2>3. v.at = "done" /\ v.peer = call[c].peer /\ v = [at |-> v.at, peer |-> v.peer, code |-> v.code, kind |-> v.kind]
    OBVIOUS
  <2>4. call' = [call EXCEPT ![c] = [call[c] EXCEPT !.at = "done"]]
    BY <2>1
  <2> HIDE DEF v
  <2>5. call' = [call EXCEPT ![c] = v]
    BY ONLY <2>2, <2>4
  <2>6. call' = [d \in Calls |-> call'[d]] /\ CallsOK'
    BY <1>1, <2>5, <2>3 DEF CallsOK
  <2>7. ASSUME NEW q \in Peers PROVE PeerOK(q, peerFailures', Cardinality(Hashing(q)'), refusals'[q], clock')
    <3>1. PeerOK(q, peerFailures, Cardinality(Hashing(q)), refusals[q], clock)
      BY <1>1 DEF PeersOK
    <3>2. Hashing(q)' = Hashing(q)
      BY <1>1, <1>2, <2>3, <2>5, HashingStays
    <3>3. PeerOK(q, peerFailures', Cardinality(Hashing(q)), refusals[q], clock)
      BY <1>1, <2>1, <3>1, RefusedPeers
    <3> QED
      BY <1>2, <3>2, <3>3
  <2> QED
    BY <1>1, <1>2, <1>4, <2>6, <2>7 DEF ConsoleInv, PeersOK
<1> QED
  BY <1>5, <1>6

\* The hash is done: the reservation is given back, or kept as a failure.
LEMMA AuthenticateKeeps == ASSUME ConsoleInv, NEW c \in Calls, Authenticate(c) PROVE ConsoleInv'
<1>1. /\ call = [d \in Calls |-> call[d]] /\ CallsOK /\ clock \in Nat /\ PeersOK
      /\ call[c] = [at |-> call[c].at, peer |-> call[c].peer, code |-> call[c].code, kind |-> call[c].kind]
      /\ call[c].peer \in Peers /\ refusals = [p \in Peers |-> refusals[p]]
  BY DEF ConsoleInv, CallsOK
<1>0. PICK p \in Peers : p = call[c].peer
  BY <1>1
<1> DEFINE valid == code.live # 0 /\ call[c].code = code.live
           e == peerFailures[p]
           after == IF valid THEN [e EXCEPT !.active = @ - 1]
                    ELSE [started |-> clock, failed |-> Append(e.failed, clock), active |-> e.active - 1]
           a == IF valid THEN "admitted" ELSE "done"
           v == [at |-> a, peer |-> p, code |-> call[c].code, kind |-> call[c].kind]
<1>2. /\ call[c].at = "reserved" /\ UNCHANGED <<clock, code>>
      /\ peerFailures' = IF p \in DOMAIN peerFailures /\ peerFailures[p].active > 0
                         THEN [peerFailures EXCEPT ![p] = after] ELSE peerFailures
      /\ refusals' = IF valid THEN refusals ELSE [refusals EXCEPT ![p] = Append(@, clock)]
      /\ call' = [call EXCEPT ![c].at = a]
  BY <1>0 DEF Authenticate
<1>3. CodeOK'
  BY <1>2 DEF ConsoleInv, CodeOK, ShownCodeWorks
<1>4. call' = [call EXCEPT ![c] = v]
  <2>1. [call[c] EXCEPT !.at = a] = v
    BY <1>0, <1>1
  <2>2. call' = [call EXCEPT ![c] = [call[c] EXCEPT !.at = a]]
    BY <1>2
  <2> QED
    BY ONLY <2>1, <2>2
<1>5. v.at # "reserved" /\ v.peer = p /\ v = [at |-> v.at, peer |-> v.peer, code |-> v.code, kind |-> v.kind]
  OBVIOUS
<1> HIDE DEF v, a
<1>7. call' = [d \in Calls |-> call'[d]] /\ CallsOK'
  BY <1>1, <1>4, <1>5 DEF CallsOK
<1>8. c \in Hashing(p) /\ Hashing(p)' = Hashing(p) \ {c}
  BY <1>0, <1>1, <1>2, <1>4, <1>5 DEF Hashing
<1> DEFINE n == Cardinality(Hashing(p)) - 1
<1>9. n \in Nat /\ Cardinality(Hashing(p)) = n + 1 /\ Cardinality(Hashing(p)') = n
  <2>1. IsFiniteSet(Hashing(p)) /\ Cardinality(Hashing(p)) \in Nat
    BY HashingFinite
  <2>2. Cardinality(Hashing(p) \ {c}) = Cardinality(Hashing(p)) - 1
    BY <1>8, <2>1, FS_RemoveElement
  <2>3. Cardinality(Hashing(p) \ {c}) \in Nat
    BY <2>1, FS_RemoveElement, FS_CardinalityType
  <2> QED
    BY <1>8, <2>1, <2>2, <2>3
<1> DEFINE rs == refusals[p]
<1>10. PeerOK(p, peerFailures, n + 1, rs, clock)
  BY <1>1, <1>9 DEF PeersOK
<1> HIDE DEF n, rs
<1>11. /\ p \in DOMAIN peerFailures /\ EntryOK(e, n + 1, rs, clock) /\ e.active > 0
       /\ rs \in Seq(Nat) /\ \A i \in 1..Len(rs) : rs[i] <= clock
  <2>1. n + 1 # 0
    BY <1>9
  <2>2. p \in DOMAIN peerFailures /\ EntryOK(e, n + 1, rs, clock)
        /\ rs \in Seq(Nat) /\ \A i \in 1..Len(rs) : rs[i] <= clock
    BY <1>10, <2>1 DEF PeerOK
  <2>3. e.active = n + 1
    BY <2>2 DEF EntryOK
  <2> QED
    BY <1>9, <2>2, <2>3
<1>12. peerFailures' = [peerFailures EXCEPT ![p] = after]
  BY <1>2, <1>11
<1> DEFINE ss == IF valid THEN rs ELSE Append(rs, clock)
<1> HIDE DEF e
<1>13. EntryOK(after, n, ss, clock)
  <2>1. CASE valid
    BY <1>1, <1>9, <1>11, <2>1, RefundedEntry
  <2>2. CASE ~valid
    BY <1>1, <1>9, <1>11, <2>2, FailedEntry
  <2> QED
    BY <2>1, <2>2
<1>14. ss \in Seq(Nat) /\ \A i \in 1..Len(ss) : ss[i] <= clock
  <2>1. CASE valid
    BY <1>11, <2>1
  <2>2. CASE ~valid
    <3>1. /\ Append(rs, clock) \in Seq(Nat) /\ Len(Append(rs, clock)) = Len(rs) + 1
          /\ \A i \in 1..Len(rs) : Append(rs, clock)[i] = rs[i]
          /\ Append(rs, clock)[Len(rs) + 1] = clock
      BY <1>1, <1>11, AppendProperties
    <3>2. \A i \in 1..(Len(rs) + 1) : i \in 1..Len(rs) \/ i = Len(rs) + 1
      BY <1>11
    <3>3. ss = Append(rs, clock)
      BY <2>2
    <3> HIDE DEF ss
    <3> QED
      BY <1>1, <1>11, <3>1, <3>2, <3>3
  <2> QED
    BY <2>1, <2>2
<1>15. refusals' = [q \in Peers |-> refusals'[q]] /\ refusals'[p] = ss /\ \A q \in Peers \ {p} : refusals'[q] = refusals[q]
  <2>1. refusals' = IF valid THEN refusals ELSE [refusals EXCEPT ![p] = Append(rs, clock)]
    BY <1>2 DEF rs
  <2> QED
    BY <1>1, <2>1 DEF rs
<1> HIDE DEF after, ss
<1>16. ASSUME NEW q \in Peers PROVE PeerOK(q, peerFailures', Cardinality(Hashing(q)'), refusals'[q], clock')
  <2>1. CASE q = p
    <3>1. p \in DOMAIN peerFailures' /\ peerFailures'[p] = after
      BY <1>11, <1>12
    <3>2. PeerOK(p, peerFailures', n, ss, clock)
      BY <1>9, <1>13, <1>14, <3>1 DEF PeerOK
    <3> QED
      BY <1>2, <1>9, <1>15, <2>1, <3>2
  <2>2. CASE q # p
    <3>1. PeerOK(q, peerFailures, Cardinality(Hashing(q)), refusals[q], clock)
      BY <1>1 DEF PeersOK
    <3>2. Hashing(q)' = Hashing(q)
      BY <1>0, <1>1, <1>4, <1>5, <2>2 DEF Hashing
    <3>3. /\ q \in DOMAIN peerFailures' <=> q \in DOMAIN peerFailures
          /\ q \in DOMAIN peerFailures => peerFailures'[q] = peerFailures[q]
      BY <1>12, <2>2
    <3> QED
      BY <1>2, <1>15, <2>2, <3>1, <3>2, <3>3 DEF PeerOK
  <2> QED
    BY <2>1, <2>2
<1> QED
  BY <1>1, <1>2, <1>3, <1>7, <1>15, <1>16 DEF ConsoleInv, PeersOK

\* At the start no peer has tried anything.
LEMMA ConsoleInvInit == ConsoleInit => ConsoleInv
<1> SUFFICES ASSUME ConsoleInit PROVE ConsoleInv
  OBVIOUS
<1>1. /\ clock = 0 /\ peerFailures = <<>> /\ refusals = [p \in Peers |-> <<>>]
      /\ call = [c \in Calls |-> [at |-> "idle", peer |-> CHOOSE p \in Peers : TRUE, code |-> 0, kind |-> "read"]]
      /\ code = [live |-> 1, file |-> 1, minted |-> 1, shown |-> 1]
  BY DEF ConsoleInit
<1>2. (CHOOSE p \in Peers : TRUE) \in Peers
  BY ConsoleAssumption DEF ConsoleAssumption
<1>3. CallsOK /\ call = [c \in Calls |-> call[c]]
  BY <1>1, <1>2 DEF CallsOK
<1>4. ASSUME NEW p \in Peers PROVE PeerOK(p, peerFailures, Cardinality(Hashing(p)), refusals[p], clock)
  <2>1. Hashing(p) = {}
    BY <1>1 DEF Hashing
  <2>2. Cardinality(Hashing(p)) = 0
    BY <2>1, FS_EmptySet
  <2>3. DOMAIN peerFailures = {} /\ refusals[p] = <<>> /\ clock \in Nat
    BY <1>1
  <2> QED
    BY <2>2, <2>3, FreshPeers
<1>5. CodeOK
  BY <1>1 DEF CodeOK, ShownCodeWorks
<1> QED
  BY <1>1, <1>3, <1>4, <1>5 DEF ConsoleInv, PeersOK

\* No step lets a peer's failures be forgotten within their minute.
LEMMA ConsoleInvNext == ConsoleInv /\ [ConsoleNext]_consoleVars => ConsoleInv'
<1> SUFFICES ASSUME ConsoleInv, [ConsoleNext]_consoleVars PROVE ConsoleInv'
  OBVIOUS
<1>1. CASE UNCHANGED consoleVars
  BY <1>1 DEF consoleVars, ConsoleInv, CallsOK, PeersOK, Hashing, CodeOK, ShownCodeWorks
<1> QED
  BY <1>1, ArriveKeeps, AuthenticateKeeps, ServedKeeps, OwnerKeeps, RestartsKeep, TickKeeps DEF ConsoleNext

\* The failures of the last minute are among the last that the peer's entry counts.
LEMMA CeilingHolds == ConsoleInv => FailureCeiling
<1> SUFFICES ASSUME ConsoleInv, NEW p \in Peers PROVE Cardinality(Failing(p)) <= MaxFailures
  BY DEF FailureCeiling, Failing
<1> DEFINE rs == refusals[p]
           n == Cardinality(Hashing(p))
           L == Len(rs)
<1>1. PeerOK(p, peerFailures, n, rs, clock)
  BY DEF ConsoleInv, PeersOK
<1>2. rs \in Seq(Nat) /\ n \in Nat /\ L \in Nat /\ DOMAIN rs = 1..L
  BY <1>1 DEF PeerOK
<1>3. clock \in Nat /\ Minute \in Nat /\ MaxFailures \in Nat /\ \A i \in 1..L : rs[i] \in Nat
  BY <1>2, ConsoleAssumption DEF ConsoleAssumption, ConsoleInv
<1>4. Failing(p) = {i \in 1..L : clock - rs[i] < Minute}
  BY <1>2 DEF Failing
<1>5. PICK m \in Nat : m <= L /\ m <= MaxFailures /\ \A i \in 1..(L - m) : clock - rs[i] >= Minute
  <2>1. CASE p \notin DOMAIN peerFailures
    <3>1. \A i \in 1..L : clock - rs[i] >= Minute
      BY <1>1, <2>1 DEF PeerOK
    <3>2. L - 0 = L
      BY <1>2
    <3> QED
      BY <1>2, <1>3, <3>1, <3>2
  <2>2. CASE p \in DOMAIN peerFailures
    <3> DEFINE M == Len(peerFailures[p].failed)
    <3>1. EntryOK(peerFailures[p], n, rs, clock)
      BY <1>1, <2>2 DEF PeerOK
    <3>2. M \in Nat /\ M <= L /\ M + n <= MaxFailures /\ \A i \in 1..(L - M) : clock - rs[i] >= Minute
      BY <3>1 DEF EntryOK
    <3> HIDE DEF M
    <3> QED
      BY <1>2, <1>3, <3>2
  <2> QED
    BY <2>1, <2>2
<1> HIDE DEF rs, L, n
<1>6. Failing(p) \subseteq (L - m + 1)..L
  <2> SUFFICES ASSUME NEW i \in 1..L, clock - rs[i] < Minute PROVE i \in (L - m + 1)..L
    BY <1>4
  <2>1. ~(clock - rs[i] >= Minute)
    BY <1>3
  <2>2. i \notin 1..(L - m)
    BY <1>5, <2>1
  <2> QED
    BY <1>2, <1>5, <2>2
<1>7. IsFiniteSet((L - m + 1)..L) /\ Cardinality((L - m + 1)..L) = m
  BY <1>2, <1>5, FS_Interval
<1> QED
  <2>1. IsFiniteSet(Failing(p)) /\ Cardinality(Failing(p)) <= m
    BY <1>6, <1>7, FS_Subset
  <2>2. Cardinality(Failing(p)) \in Nat
    BY <2>1, FS_CardinalityType
  <2> QED
    BY <1>3, <1>5, <2>1, <2>2

\* For any number of peers and calls, sweeps, restarts and minutes that turn while codes are
\* being hashed: no peer has more failed attempts in a minute than its budget, and the code its
\* owner was last shown opens the console (reserveAuthentication, Mint, Open).
THEOREM ConsoleAlwaysGuarded == ConsoleSpec => []ConsoleGuarded
<1>1. ConsoleInv => ConsoleGuarded
  BY CeilingHolds DEF ConsoleGuarded, ConsoleInv, CodeOK, ShownCodeWorks
<1> QED
  BY <1>1, ConsoleInvInit, ConsoleInvNext, PTL DEF ConsoleSpec
=============================================================================
