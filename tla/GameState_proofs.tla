-------------------------- MODULE GameState_proofs --------------------------
(***************************************************************************)
(* Proofs about GameState, for any number of maps, restarts, config strings *)
(* and downloads, and any losses: the client's config strings are those of  *)
(* its gamestate and the changes since, it enters the world with the map's  *)
(* gamestate, and it is never dropped for its checksums. They suppose what  *)
(* the code relies on: no map restarts before the client is in it, and no   *)
(* snapshot needs fragments.                                                *)
(***************************************************************************)
EXTENDS GameState, NumberTheorems

GamestateRecord == [map : Nat, serverId : Nat, cs : Nat, commands : Nat]

SvRecord == [serverId : Nat, restartedServerId : Nat, systemInfo : Nat, cs : Nat,
             pure : BOOLEAN]
ScRecord == [state : {"CONNECTED", "PRIMED", "ACTIVE"}, reliableAcknowledge : Nat,
             lastClientCommand : Nat, pureReceived : BOOLEAN, pureAuthentic : BOOLEAN,
             downloading : BOOLEAN]
ClientRecord == [state : {"CONNECTED", "LOADING", "PRIMED", "ACTIVE"},
                 download : {"none", "http", "server", "cancelled"}, later : BOOLEAN,
                 gamestate : GamestateRecord, serverId : Nat, cs : Nat,
                 serverCommandSequence : Nat, lastExecuted : Nat, cgame : Nat,
                 bad : SUBSET Nat, snap : [commands : Nat, active : BOOLEAN]]

ServerCommand == [kind : {"cs", "systemInfo", "map_restart"}, value : Nat]
ClientCommand == [kind : {"cp", "vdr", "download", "donedl"}, serverId : Nat, map : Nat]

DownRecord == [kind : {"gamestate", "snapshot"}, gamestate : GamestateRecord,
               first : Nat, last : Nat, active : BOOLEAN, download : BOOLEAN, later : BOOLEAN]
UpRecord == [serverId : Nat, later : BOOLEAN, acknowledge : Nat, commands : Nat,
             moves : BOOLEAN]

-----------------------------------------------------------------------------
(* The inductive invariant. It is said of the parts of a state: v is sv, s is *)
(* sc, D are the server's commands, T the messages on their way to the client, *)
(* U those to the server, c is client, and C are the client's commands.      *)

Types(v, s, D, T, U, c, C) ==
    /\ v \in SvRecord /\ s \in ScRecord /\ c \in ClientRecord
    /\ D \in Seq(ServerCommand) /\ C \in Seq(ClientCommand)
    /\ T \in Seq(DownRecord) /\ U \in Seq(UpRecord)

\* What arrives is newer than what the client has, and leaves no gap.
Follows(m, D, c) ==
    /\ m.first <= c.serverCommandSequence + 1
    /\ c.serverCommandSequence <= m.last /\ m.last <= Len(D)
    /\ m.kind = "gamestate" => m.gamestate.commands = m.last

InOrder(s, D, T, U, c) ==
    /\ c.serverCommandSequence <= Len(D)
    /\ s.reliableAcknowledge <= c.serverCommandSequence
    /\ \A i \in 1 .. Len(U) : U[i].acknowledge <= c.serverCommandSequence
    /\ \A i \in 1 .. Len(T) : Follows(T[i], D, c)
    /\ \A i, j \in 1 .. Len(T) : i < j => T[i].last <= T[j].last

\* The values of config strings go up, and so does the serverId, which after a map's
\* first is only set by commands once the map has restarted.
StringsInOrder(v, D) ==
    /\ v.restartedServerId <= v.systemInfo /\ v.systemInfo <= v.serverId
    /\ \A n \in 1 .. Len(D) :
          /\ D[n].kind = "cs" => 1 <= D[n].value /\ D[n].value <= v.cs
          /\ D[n].kind = "systemInfo" =>
                /\ D[n].value <= v.systemInfo
                /\ D[n].value >= v.restartedServerId => v.serverId > v.restartedServerId
    /\ \A k, n \in 1 .. Len(D) :
          D[k].kind = "cs" /\ D[n].kind = "cs" /\ k < n => D[k].value <= D[n].value

\* A gamestate has the values of the commands before it, and none of those after it.
Divides(g, v, D) ==
    /\ g.map <= v.restartedServerId /\ g.map <= g.serverId /\ g.serverId <= v.systemInfo
    /\ g.cs <= v.cs
    /\ g.serverId >= v.restartedServerId => g.map = v.restartedServerId
    /\ \A n \in 1 .. Len(D) :
          /\ D[n].kind = "cs" /\ n <= g.commands => D[n].value <= g.cs
          /\ D[n].kind = "cs" /\ n > g.commands => g.cs <= D[n].value
          /\ D[n].kind = "systemInfo" /\ n > g.commands => g.serverId <= D[n].value

\* The newest of the client's config strings since its gamestate.
Latest(D, c) ==
    LET ns == {n \in c.gamestate.commands + 1 .. c.cgame : D[n].kind = "cs"}
    IN  IF ns = {} THEN c.gamestate.cs ELSE D[Max(ns)].value

\* Commands are bad up to the gamestate, and good after it; cgame is not ahead of
\* what has come, and starts again where it was.
ClientStrings(v, D, c) ==
    /\ Divides(c.gamestate, v, D)
    /\ c.gamestate.commands <= c.serverCommandSequence
    /\ \A n \in 1 .. Len(D) :
          /\ n <= c.gamestate.commands /\ IsConfigString(D[n]) => n \in c.bad
          /\ n > c.gamestate.commands /\ n <= c.serverCommandSequence => n \notin c.bad
    /\ c.lastExecuted <= c.cgame /\ c.cgame <= c.serverCommandSequence
    /\ c.cgame > c.gamestate.commands => c.lastExecuted = c.cgame
    /\ c.snap.commands <= c.serverCommandSequence
    /\ c.cs = Latest(D, c)
    /\ c.cs <= v.cs

\* The client has a serverId of the map it has the gamestate of, and of no later one;
\* on the server the client is in the game with the gamestate of the map.
HasMap(v, c) == c.gamestate.map = v.restartedServerId

Ids(v, s, c, C) ==
    /\ c.gamestate.map <= c.serverId /\ c.serverId <= v.serverId
    /\ c.serverId >= v.restartedServerId => HasMap(v, c)
    /\ s.state = "ACTIVE" \/ v.serverId > v.restartedServerId => HasMap(v, c)
    /\ \A n \in 1 .. Len(C) : C[n].kind = "cp" =>
          /\ C[n].map <= C[n].serverId /\ C[n].serverId <= v.serverId
          /\ C[n].serverId >= v.restartedServerId => C[n].map = v.restartedServerId

\* A message from the map's time is followed by such messages and checksums only.
ChecksumsOfMap(n, v, C) ==
    \A k \in 1 .. Len(C) : k > n /\ C[k].kind = "cp" => C[k].serverId >= v.restartedServerId

UpIds(v, U, c, C) ==
    /\ \A i \in 1 .. Len(U) :
          /\ U[i].serverId <= v.serverId
          /\ U[i].serverId >= v.restartedServerId =>
                HasMap(v, c) /\ ChecksumsOfMap(U[i].commands, v, C)
          /\ U[i].serverId < v.restartedServerId /\ U[i].later => ~ HasMap(v, c)
    /\ \A i, j \in 1 .. Len(U) :
          i < j /\ U[i].serverId >= v.restartedServerId => U[j].serverId >= v.restartedServerId

\* Checksums follow a vid_restart in the game at once: no message ends between them.
Paired(n, U, C) ==
    /\ n < Len(C) /\ C[n + 1].kind = "cp"
    /\ \A i \in 1 .. Len(U) : U[i].commands # n

PairedAfter(e, U, C) ==
    \A n \in 1 .. Len(C) : n > e /\ C[n].kind = "vdr" => Paired(n, U, C)

\* The server has those of the map's files from a client that is in the game, or that
\* it will take for one. A client that is not has sent no moves since the gamestate.
Checked(v, s, U, c, C) ==
    /\ s.lastClientCommand <= Len(C)
    /\ \A i \in 1 .. Len(U) : U[i].commands <= Len(C)
    /\ \A i \in 1 .. Len(U) :
          U[i].moves /\ U[i].serverId >= v.restartedServerId => PairedAfter(U[i].commands, U, C)
    /\ s.state = "ACTIVE" =>
          /\ v.pure => s.pureReceived
          /\ ChecksumsOfMap(s.lastClientCommand, v, C)
          /\ PairedAfter(s.lastClientCommand, U, C)
    /\ c.state \in {"CONNECTED", "LOADING"} /\ HasMap(v, c) =>
          /\ s.state # "ACTIVE"
          /\ \A i \in 1 .. Len(U) : U[i].serverId >= v.restartedServerId => ~ U[i].moves

\* What the client has downloaded, and the server has not been told.
Told(s, C) == \A n \in 1 .. Len(C) : n > s.lastClientCommand => C[n].kind # "donedl"

Waits(c) == c.state = "CONNECTED" /\ c.download = "none"

\* A client that waits adds no commands but those of a vid_restart.
OnlyVids(e, C) == \A n \in 1 .. Len(C) : n > e => C[n].kind = "vdr"

\* A gamestate on its way is the only one, the server knows of nothing that came after
\* it, and the client has not got it yet.
Newer(g, v, s, D, c, C) ==
    /\ Divides(g, v, D)
    /\ c.gamestate.cs <= g.cs
    /\ c.gamestate.map <= g.map
    /\ c.gamestate.map = g.map => Waits(c) /\ OnlyVids(s.lastClientCommand, C)

Alone(i, T) ==
    /\ \A j \in 1 .. i : ~ T[j].later
    /\ \A j \in 1 .. Len(T) : j > i => ~ T[j].download
    /\ \A j \in 1 .. Len(T) : T[j].kind = "gamestate" => j = i

Unknown(s, U, c, C) ==
    /\ ~ c.later /\ \A j \in 1 .. Len(U) : ~ U[j].later
    /\ ~ s.downloading /\ Told(s, C)

OnTheWay(v, s, D, T, U, c, C) ==
    \A i \in 1 .. Len(T) : T[i].kind = "gamestate" =>
       Newer(T[i].gamestate, v, s, D, c, C) /\ Alone(i, T) /\ Unknown(s, U, c, C)

\* Blocks that come to a client that waits for them come from a server that sends
\* them still.
Downloading(v, s, T, U, c, C) ==
    /\ c.download # "none" => c.state = "CONNECTED"
    /\ c.download = "server" => \A i \in 1 .. Len(T) : T[i].download => s.downloading
    /\ ~ Told(s, C) =>
          /\ s.downloading /\ Waits(c)
          /\ \A n \in 1 .. Len(C) : n > s.lastClientCommand /\ C[n].kind = "donedl" =>
                /\ OnlyVids(n, C)
                /\ \A i \in 1 .. Len(U) : U[i].commands >= n => ~ U[i].moves
    /\ s.downloading /\ s.state # "CONNECTED" =>
          /\ HasMap(v, c)
          /\ \A i \in 1 .. Len(U) : U[i].serverId >= v.restartedServerId
          /\ ChecksumsOfMap(s.lastClientCommand, v, C)

Good(v, s, D, T, U, c, C) ==
    /\ Types(v, s, D, T, U, c, C)
    /\ InOrder(s, D, T, U, c)
    /\ StringsInOrder(v, D)
    /\ ClientStrings(v, D, c)
    /\ Ids(v, s, c, C)
    /\ UpIds(v, U, c, C)
    /\ Checked(v, s, U, c, C)
    /\ OnTheWay(v, s, D, T, U, c, C)
    /\ Downloading(v, s, T, U, c, C)

\* Only a gamestate is ever in fragments, and no message waits behind it.
NetOK(net) ==
    /\ net \in [flight : Seq(DownRecord), fragmented : Seq(DownRecord), queue : {<< >>}]
    /\ Len(net.fragmented) <= 1
    /\ \A i \in 1 .. Len(net.fragmented) : net.fragmented[i].kind = "gamestate"

Messages(net) == net.flight \o net.fragmented

GameStateInv ==
    NetOK(down) /\ Good(sv, sc, commands, Messages(down), up, client, clientCommands)

-----------------------------------------------------------------------------
(* Sequences of messages *)

\* The tail of a sequence.
LEMMA TailIs ==
    ASSUME NEW S, NEW q \in Seq(S), q # << >>
    PROVE  /\ Tail(q) \in Seq(S) /\ Len(Tail(q)) = Len(q) - 1
           /\ 1 \in 1 .. Len(q) /\ Head(q) = q[1] /\ q[1] \in S
           /\ \A i \in 1 .. Len(Tail(q)) : i + 1 \in 1 .. Len(q) /\ Tail(q)[i] = q[i + 1]
  OBVIOUS

\* A sequence with one more at its end.
LEMMA AppendIs ==
    ASSUME NEW S, NEW q \in Seq(S), NEW m \in S
    PROVE  /\ Append(q, m) \in Seq(S) /\ Len(Append(q, m)) = Len(q) + 1
           /\ Append(q, m)[Len(q) + 1] = m
           /\ \A i \in 1 .. Len(q) : Append(q, m)[i] = q[i]
  OBVIOUS

\* NotLater changes nothing of a message but that it is later.
LEMMA NotLaterDown ==
    ASSUME NEW q \in Seq(DownRecord)
    PROVE  /\ NotLater(q) \in Seq(DownRecord) /\ Len(NotLater(q)) = Len(q)
           /\ \A i \in 1 .. Len(q) :
                 /\ ~ NotLater(q)[i].later
                 /\ NotLater(q)[i].kind = q[i].kind
                 /\ NotLater(q)[i].gamestate = q[i].gamestate
                 /\ NotLater(q)[i].first = q[i].first
                 /\ NotLater(q)[i].last = q[i].last
                 /\ NotLater(q)[i].active = q[i].active
                 /\ NotLater(q)[i].download = q[i].download
<1>1. \A i \in 1 .. Len(q) : q[i] \in DownRecord
  OBVIOUS
<1>2. NotLater(q) = [i \in 1 .. Len(q) |-> [q[i] EXCEPT !.later = FALSE]]
  BY DEF NotLater
<1>3. ASSUME NEW i \in 1 .. Len(q)
      PROVE  LET m == [q[i] EXCEPT !.later = FALSE]
             IN  /\ m \in DownRecord /\ ~ m.later /\ m.kind = q[i].kind
                 /\ m.gamestate = q[i].gamestate /\ m.first = q[i].first /\ m.last = q[i].last
                 /\ m.active = q[i].active /\ m.download = q[i].download
  BY <1>1 DEF DownRecord
<1>4. \A i \in 1 .. Len(q) : NotLater(q)[i] = [q[i] EXCEPT !.later = FALSE]
  BY <1>2
<1>5. NotLater(q) \in Seq(DownRecord) /\ Len(NotLater(q)) = Len(q)
  BY <1>2, <1>3
<1>6. QED
  BY <1>3, <1>4, <1>5

\* The same for messages to the server.
LEMMA NotLaterUp ==
    ASSUME NEW q \in Seq(UpRecord)
    PROVE  /\ NotLater(q) \in Seq(UpRecord) /\ Len(NotLater(q)) = Len(q)
           /\ \A i \in 1 .. Len(q) :
                 /\ ~ NotLater(q)[i].later
                 /\ NotLater(q)[i].serverId = q[i].serverId
                 /\ NotLater(q)[i].acknowledge = q[i].acknowledge
                 /\ NotLater(q)[i].commands = q[i].commands
                 /\ NotLater(q)[i].moves = q[i].moves
<1>1. \A i \in 1 .. Len(q) : q[i] \in UpRecord
  OBVIOUS
<1>2. NotLater(q) = [i \in 1 .. Len(q) |-> [q[i] EXCEPT !.later = FALSE]]
  BY DEF NotLater
<1>3. ASSUME NEW i \in 1 .. Len(q)
      PROVE  LET m == [q[i] EXCEPT !.later = FALSE]
             IN  /\ m \in UpRecord /\ ~ m.later /\ m.serverId = q[i].serverId
                 /\ m.acknowledge = q[i].acknowledge /\ m.commands = q[i].commands
                 /\ m.moves = q[i].moves
  BY <1>1 DEF UpRecord
<1>4. \A i \in 1 .. Len(q) : NotLater(q)[i] = [q[i] EXCEPT !.later = FALSE]
  BY <1>2
<1>5. NotLater(q) \in Seq(UpRecord) /\ Len(NotLater(q)) = Len(q)
  BY <1>2, <1>3
<1>6. QED
  BY <1>3, <1>4, <1>5

-----------------------------------------------------------------------------
(* The client's commands and the messages that carry them *)

\* With no other messages than before, the checksums are still those they were.
LEMMA CheckedWithFewer ==
    ASSUME NEW v, NEW s, NEW U, NEW u, NEW c, NEW C, NEW d,
           Checked(v, s, U, c, C),
           d.state = c.state, d.gamestate = c.gamestate,
           \A i \in 1 .. Len(u) : \E j \in 1 .. Len(U) :
              /\ u[i].serverId = U[j].serverId /\ u[i].moves = U[j].moves
              /\ u[i].commands = U[j].commands
    PROVE  Checked(v, s, u, d, C)
<1>1. ASSUME NEW e, PairedAfter(e, U, C) PROVE PairedAfter(e, u, C)
  BY <1>1 DEF PairedAfter, Paired
<1>2. ASSUME NEW i \in 1 .. Len(u), u[i].moves, u[i].serverId >= v.restartedServerId
      PROVE  PairedAfter(u[i].commands, u, C)
  <2>1. PICK j \in 1 .. Len(U) :
              /\ u[i].serverId = U[j].serverId /\ u[i].moves = U[j].moves
              /\ u[i].commands = U[j].commands
    OBVIOUS
  <2>2. PairedAfter(U[j].commands, U, C)
    BY <1>2, <2>1 DEF Checked
  <2>3. QED
    BY <1>1, <2>1, <2>2
<1>3. HasMap(v, d) <=> HasMap(v, c)
  BY DEF HasMap
<1>4. /\ s.lastClientCommand <= Len(C)
      /\ \A i \in 1 .. Len(u) : u[i].commands <= Len(C)
  BY DEF Checked
<1>5. s.state = "ACTIVE" =>
          /\ v.pure => s.pureReceived
          /\ ChecksumsOfMap(s.lastClientCommand, v, C)
          /\ PairedAfter(s.lastClientCommand, u, C)
  BY <1>1 DEF Checked
<1>6. d.state \in {"CONNECTED", "LOADING"} /\ HasMap(v, d) =>
          /\ s.state # "ACTIVE"
          /\ \A i \in 1 .. Len(u) : u[i].serverId >= v.restartedServerId => ~ u[i].moves
  BY <1>3 DEF Checked
<1>7. QED
  BY <1>2, <1>4, <1>5, <1>6 DEF Checked

\* A vid_restart that was followed by checksums is so when there are more commands.
LEMMA StaysPaired ==
    ASSUME NEW C, NEW E, Len(C) \in Nat, Len(E) \in Nat, Len(C) <= Len(E),
           \A n \in 1 .. Len(C) : E[n] = C[n],
           NEW U, \A n \in 1 .. Len(E) : n > Len(C) /\ E[n].kind = "vdr" => Paired(n, U, E),
           NEW e, PairedAfter(e, U, C)
    PROVE  PairedAfter(e, U, E)
<1> SUFFICES ASSUME NEW n \in 1 .. Len(E), n > e, E[n].kind = "vdr" PROVE Paired(n, U, E)
  BY DEF PairedAfter
<1>1. CASE n > Len(C)
  BY <1>1
<1>2. CASE ~ n > Len(C)
  <2>1. n \in 1 .. Len(C) /\ C[n].kind = "vdr"
    BY <1>2
  <2>2. Paired(n, U, C)
    BY <2>1 DEF PairedAfter
  <2>3. n + 1 \in 1 .. Len(C) /\ n < Len(E)
    BY <2>1, <2>2 DEF Paired
  <2>4. QED
    BY <2>2, <2>3 DEF Paired
<1>3. QED
  BY <1>1, <1>2

\* The client has added commands, and changed its state.
LEMMA CheckedWithMore ==
    ASSUME NEW v, NEW s, NEW U, NEW c, NEW c2, NEW C, NEW E, Checked(v, s, U, c, C),
           s.lastClientCommand \in Nat, \A i \in 1 .. Len(U) : U[i].commands \in Nat,
           Len(C) \in Nat, Len(E) \in Nat, Len(C) <= Len(E),
           \A n \in 1 .. Len(C) : E[n] = C[n],
           \A n \in 1 .. Len(E) : n > Len(C) /\ E[n].kind = "vdr" => Paired(n, U, E),
           s.state = "ACTIVE" => ChecksumsOfMap(s.lastClientCommand, v, E),
           c2.state \in {"CONNECTED", "LOADING"} /\ HasMap(v, c2) =>
              /\ s.state # "ACTIVE"
              /\ \A i \in 1 .. Len(U) : U[i].serverId >= v.restartedServerId => ~ U[i].moves
    PROVE  Checked(v, s, U, c2, E)
<1>1. s.lastClientCommand <= Len(E) /\ \A i \in 1 .. Len(U) : U[i].commands <= Len(E)
  BY DEF Checked
<1>2. ASSUME NEW e, PairedAfter(e, U, C) PROVE PairedAfter(e, U, E)
  BY <1>2, StaysPaired
<1>3. \A i \in 1 .. Len(U) :
         U[i].moves /\ U[i].serverId >= v.restartedServerId => PairedAfter(U[i].commands, U, E)
  BY <1>2 DEF Checked
<1>4. s.state = "ACTIVE" => (v.pure => s.pureReceived) /\ PairedAfter(s.lastClientCommand, U, E)
  BY <1>2 DEF Checked
<1>5. QED
  BY <1>1, <1>3, <1>4 DEF Checked

-----------------------------------------------------------------------------
(* Messages are lost or added *)

\* The message that has been on its way longest is lost.
LEMMA LosesDown ==
    ASSUME NEW v, NEW s, NEW D, NEW T, NEW U, NEW c, NEW C,
           Good(v, s, D, T, U, c, C), T # << >>
    PROVE  Good(v, s, D, Tail(T), U, c, C)
<1> DEFINE t == Tail(T)
<1>1. /\ t \in Seq(DownRecord) /\ Len(t) = Len(T) - 1 /\ Len(T) \in Nat /\ Len(t) \in Nat
      /\ \A i \in 1 .. Len(t) : i + 1 \in 1 .. Len(T) /\ t[i] = T[i + 1]
  BY TailIs DEF Good, Types
<1> HIDE DEF t
<1>2. InOrder(s, D, t, U, c)
  <2>1. \A i \in 1 .. Len(t) : Follows(t[i], D, c)
    BY <1>1 DEF Good, InOrder
  <2>2. \A i, j \in 1 .. Len(t) : i < j => t[i].last <= t[j].last
    BY <1>1 DEF Good, InOrder
  <2>3. QED
    BY <2>1, <2>2 DEF Good, InOrder
<1>3. OnTheWay(v, s, D, t, U, c, C)
  <2> SUFFICES ASSUME NEW i \in 1 .. Len(t), t[i].kind = "gamestate"
               PROVE  Newer(t[i].gamestate, v, s, D, c, C) /\ Alone(i, t) /\ Unknown(s, U, c, C)
    BY DEF OnTheWay
  <2>1. i + 1 \in 1 .. Len(T) /\ T[i + 1].kind = "gamestate" /\ t[i] = T[i + 1]
    BY <1>1
  <2>2. Newer(T[i + 1].gamestate, v, s, D, c, C) /\ Alone(i + 1, T) /\ Unknown(s, U, c, C)
    BY <2>1 DEF Good, OnTheWay
  <2>3. Alone(i, t)
    <3>1. i \in Nat /\ \A j \in 1 .. i : j \in 1 .. Len(t) /\ j + 1 \in 1 .. i + 1
      BY <1>1
    <3>2. \A j \in 1 .. i : ~ t[j].later
      BY <1>1, <2>2, <3>1 DEF Alone
    <3>3. \A j \in 1 .. Len(t) : j > i => ~ t[j].download
      BY <1>1, <2>2, <3>1 DEF Alone
    <3>4. \A j \in 1 .. Len(t) : t[j].kind = "gamestate" => j = i
      BY <1>1, <2>2, <3>1 DEF Alone
    <3>5. QED
      BY <3>2, <3>3, <3>4 DEF Alone
  <2>4. QED
    BY <2>1, <2>2, <2>3
<1>4. Downloading(v, s, t, U, c, C)
  BY <1>1 DEF Good, Downloading
<1>5. QED
  BY <1>1, <1>2, <1>3, <1>4 DEF Good, Types, t

\* The same of a message to the server.
LEMMA LosesUp ==
    ASSUME NEW v, NEW s, NEW D, NEW T, NEW U, NEW c, NEW C,
           Good(v, s, D, T, U, c, C), U # << >>
    PROVE  Good(v, s, D, T, Tail(U), c, C)
<1> DEFINE u == Tail(U)
<1>1. /\ u \in Seq(UpRecord) /\ Len(u) = Len(U) - 1 /\ Len(U) \in Nat /\ Len(u) \in Nat
      /\ \A i \in 1 .. Len(u) : i + 1 \in 1 .. Len(U) /\ u[i] = U[i + 1]
  BY TailIs DEF Good, Types
<1> HIDE DEF u
<1>2. InOrder(s, D, T, u, c)
  BY <1>1 DEF Good, InOrder
<1>3. OnTheWay(v, s, D, T, u, c, C)
  BY <1>1 DEF Good, OnTheWay, Unknown
<1>4. Downloading(v, s, T, u, c, C)
  BY <1>1 DEF Good, Downloading
<1>5. UpIds(v, u, c, C)
  <2>1. \A i, j \in 1 .. Len(u) :
           i < j /\ u[i].serverId >= v.restartedServerId => u[j].serverId >= v.restartedServerId
    BY <1>1 DEF Good, UpIds
  <2>2. QED
    BY <1>1, <2>1 DEF Good, UpIds
<1>6. Checked(v, s, u, c, C)
  BY <1>1, CheckedWithFewer DEF Good
<1>7. QED
  BY <1>1, <1>2, <1>3, <1>4, <1>5, <1>6 DEF Good, Types, u

\* A message that is sent now comes after all others.
LEMMA AddsInOrder ==
    ASSUME NEW v, NEW s, NEW D, NEW T, NEW U, NEW c, NEW C,
           Good(v, s, D, T, U, c, C),
           NEW m \in DownRecord, m.first = s.reliableAcknowledge + 1, m.last = Len(D),
           m.kind = "gamestate" => m.gamestate.commands = Len(D)
    PROVE  InOrder(s, D, Append(T, m), U, c)
<1> DEFINE t == Append(T, m)
           l == Len(T) + 1
<1>1. /\ t \in Seq(DownRecord) /\ Len(t) = l /\ Len(T) \in Nat /\ t[l] = m
      /\ \A i \in 1 .. Len(T) : t[i] = T[i]
      /\ 1 .. l = (1 .. Len(T)) \cup {l} /\ l \in Nat /\ l \notin 1 .. Len(T)
  BY AppendIs DEF Good, Types
<1>2. /\ Len(D) \in Nat /\ c.serverCommandSequence \in Nat /\ s.reliableAcknowledge \in Nat
      /\ m.last \in Nat /\ \A i \in 1 .. Len(T) : T[i].last \in Nat
  <2>1. \A i \in 1 .. Len(T) : T[i] \in DownRecord
    BY DEF Good, Types
  <2>2. QED
    BY <2>1 DEF Good, Types, ClientRecord, ScRecord, DownRecord
<1> HIDE DEF t, l
<1>3. InOrder(s, D, t, U, c)
  <2>1. Follows(m, D, c)
    BY <1>2 DEF Good, InOrder, Follows
  <2>2. \A i \in 1 .. l : Follows(t[i], D, c)
    BY <1>1, <2>1 DEF Good, InOrder
  <2>3. \A i \in 1 .. Len(T) : T[i].last <= m.last
    BY <1>2 DEF Good, InOrder, Follows
  <2>4. \A i, j \in 1 .. l : i < j => t[i].last <= t[j].last
    <3> SUFFICES ASSUME NEW i \in 1 .. l, NEW j \in 1 .. l, i < j PROVE t[i].last <= t[j].last
      OBVIOUS
    <3>1. i \in 1 .. Len(T)
      BY <1>1 DEF l
    <3>2. CASE j = l
      BY <1>1, <2>3, <3>1, <3>2
    <3>3. CASE j \in 1 .. Len(T)
      BY <1>1, <3>1, <3>3 DEF Good, InOrder
    <3>4. QED
      BY <1>1, <3>2, <3>3
  <2>5. QED
    BY <1>1, <2>2, <2>4 DEF Good, InOrder
<1>4. QED
  BY <1>3 DEF t

\* A snapshot is sent.
LEMMA AddsSnapshot ==
    ASSUME NEW v, NEW s, NEW D, NEW T, NEW U, NEW c, NEW C,
           Good(v, s, D, T, U, c, C),
           NEW m \in DownRecord, m.kind = "snapshot", m.first = s.reliableAcknowledge + 1,
           m.last = Len(D), m.download = s.downloading
    PROVE  Good(v, s, D, Append(T, m), U, c, C)
<1> DEFINE t == Append(T, m)
           l == Len(T) + 1
<1>1. /\ t \in Seq(DownRecord) /\ Len(t) = l /\ Len(T) \in Nat /\ t[l] = m
      /\ \A i \in 1 .. Len(T) : t[i] = T[i]
      /\ 1 .. l = (1 .. Len(T)) \cup {l} /\ l \in Nat /\ l \notin 1 .. Len(T)
  BY AppendIs DEF Good, Types
<1>2. InOrder(s, D, t, U, c)
  BY AddsInOrder
<1> HIDE DEF t, l
<1>4. OnTheWay(v, s, D, t, U, c, C)
  <2> SUFFICES ASSUME NEW i \in 1 .. l, t[i].kind = "gamestate"
               PROVE  Newer(t[i].gamestate, v, s, D, c, C) /\ Alone(i, t) /\ Unknown(s, U, c, C)
    BY <1>1 DEF OnTheWay
  <2>1. i \in 1 .. Len(T) /\ t[i] = T[i]
    BY <1>1
  <2>2. Newer(T[i].gamestate, v, s, D, c, C) /\ Alone(i, T) /\ Unknown(s, U, c, C)
    BY <2>1 DEF Good, OnTheWay
  <2>3. \A j \in 1 .. i : j \in 1 .. Len(T)
    BY <1>1, <2>1
  <2>4. \A j \in 1 .. l : j > i => ~ t[j].download
    BY <1>1, <2>2 DEF Alone, Unknown
  <2>5. \A j \in 1 .. l : t[j].kind = "gamestate" => j = i
    BY <1>1, <2>2 DEF Alone
  <2>6. Alone(i, t)
    BY <1>1, <2>2, <2>3, <2>4, <2>5 DEF Alone
  <2>7. QED
    BY <2>1, <2>2, <2>6
<1>5. Downloading(v, s, t, U, c, C)
  BY <1>1 DEF Good, Downloading
<1>6. QED
  BY <1>1, <1>2, <1>4, <1>5 DEF Good, Types, t

\* Once a gamestate is sent, no message is later.
LEMMA ForgetsLater ==
    ASSUME NEW v, NEW s, NEW D, NEW T, NEW U, NEW c, NEW C,
           Good(v, s, D, T, U, c, C)
    PROVE  Good(v, s, D, NotLater(T), NotLater(U), [c EXCEPT !.later = FALSE], C)
<1> DEFINE t == NotLater(T)
           u == NotLater(U)
           d == [c EXCEPT !.later = FALSE]
<1>1. /\ t \in Seq(DownRecord) /\ Len(t) = Len(T)
      /\ \A i \in 1 .. Len(T) :
            /\ ~ t[i].later /\ t[i].kind = T[i].kind /\ t[i].gamestate = T[i].gamestate
            /\ t[i].first = T[i].first /\ t[i].last = T[i].last /\ t[i].active = T[i].active
            /\ t[i].download = T[i].download
  BY NotLaterDown DEF Good, Types
<1>2. /\ u \in Seq(UpRecord) /\ Len(u) = Len(U)
      /\ \A i \in 1 .. Len(U) :
            /\ ~ u[i].later /\ u[i].serverId = U[i].serverId
            /\ u[i].acknowledge = U[i].acknowledge
            /\ u[i].commands = U[i].commands /\ u[i].moves = U[i].moves
  BY NotLaterUp DEF Good, Types
<1>3. /\ d \in ClientRecord /\ ~ d.later /\ d.state = c.state /\ d.download = c.download
      /\ d.gamestate = c.gamestate /\ d.serverId = c.serverId /\ d.cs = c.cs
      /\ d.serverCommandSequence = c.serverCommandSequence /\ d.lastExecuted = c.lastExecuted
      /\ d.cgame = c.cgame /\ d.bad = c.bad /\ d.snap = c.snap
  BY DEF Good, Types, ClientRecord
<1>4. Len(T) \in Nat /\ Len(U) \in Nat
  BY DEF Good, Types
<1> HIDE DEF t, u, d
<1>5. InOrder(s, D, t, u, d)
  <2>1. \A i \in 1 .. Len(T) : Follows(t[i], D, d)
    BY <1>1, <1>3 DEF Good, InOrder, Follows
  <2>2. QED
    BY <1>1, <1>2, <1>3, <2>1 DEF Good, InOrder
<1>6. ClientStrings(v, D, d)
  BY <1>3 DEF Good, ClientStrings, Latest
<1>7. Ids(v, s, d, C)
  BY <1>3 DEF Good, Ids, HasMap
<1>8. UpIds(v, u, d, C)
  BY <1>2, <1>3 DEF Good, UpIds, HasMap
<1>9. Checked(v, s, u, d, C)
  BY <1>2, <1>3, CheckedWithFewer DEF Good
<1>10. OnTheWay(v, s, D, t, u, d, C)
  <2> SUFFICES ASSUME NEW i \in 1 .. Len(T), t[i].kind = "gamestate"
               PROVE  Newer(t[i].gamestate, v, s, D, d, C) /\ Alone(i, t) /\ Unknown(s, u, d, C)
    BY <1>1 DEF OnTheWay
  <2>1. Newer(T[i].gamestate, v, s, D, c, C) /\ Alone(i, T) /\ Unknown(s, U, c, C)
    BY <1>1 DEF Good, OnTheWay
  <2>2. Newer(t[i].gamestate, v, s, D, d, C)
    BY <1>1, <1>3, <2>1 DEF Newer, Waits
  <2>3. \A j \in 1 .. i : j \in 1 .. Len(T)
    BY <1>4
  <2>4. Alone(i, t)
    BY <1>1, <2>1, <2>3 DEF Alone
  <2>5. Unknown(s, u, d, C)
    BY <1>2, <1>3, <2>1 DEF Unknown
  <2>6. QED
    BY <2>2, <2>4, <2>5
<1>11. Downloading(v, s, t, u, d, C)
  BY <1>1, <1>2, <1>3 DEF Good, Downloading, HasMap, Waits
<1>12. QED
  BY <1>1, <1>2, <1>3, <1>5, <1>6, <1>7, <1>8, <1>9, <1>10, <1>11 DEF Good, Types, t, u, d

NoGamestateIn(T) == \A i \in 1 .. Len(T) : T[i].kind # "gamestate"
NoneLater(q) == \A i \in 1 .. Len(q) : ~ q[i].later

\* When a gamestate may be sent: none is on its way, no downloading is under way, and
\* the client has the gamestate of another map, or has just downloaded.
MaySend(v, s, T, c, C) ==
    /\ NoGamestateIn(T)
    /\ ~ s.downloading /\ Told(s, C)
    /\ HasMap(v, c) => Waits(c) /\ OnlyVids(s.lastClientCommand, C)

\* A gamestate made from the state of the server divides what came before from what is
\* to come.
LEMMA NewDivides ==
    ASSUME NEW v \in SvRecord, NEW D \in Seq(ServerCommand), StringsInOrder(v, D)
    PROVE  Divides([map |-> v.restartedServerId, serverId |-> v.systemInfo, cs |-> v.cs,
                    commands |-> Len(D)], v, D)
  BY DEF Divides, StringsInOrder, SvRecord

\* A gamestate is sent.
LEMMA AddsGamestate ==
    ASSUME NEW v, NEW s, NEW D, NEW T, NEW U, NEW c, NEW C,
           Good(v, s, D, T, U, c, C), MaySend(v, s, T, c, C),
           NoneLater(T), NoneLater(U), ~ c.later,
           NEW m \in DownRecord, m.kind = "gamestate", m.first = s.reliableAcknowledge + 1,
           m.last = Len(D), m.download = s.downloading, ~ m.later,
           m.gamestate = [map |-> v.restartedServerId, serverId |-> v.systemInfo,
                          cs |-> v.cs, commands |-> Len(D)]
    PROVE  Good(v, s, D, Append(T, m), U, c, C)
<1> DEFINE t == Append(T, m)
           l == Len(T) + 1
<1>1. /\ t \in Seq(DownRecord) /\ Len(t) = l /\ Len(T) \in Nat /\ t[l] = m
      /\ \A i \in 1 .. Len(T) : t[i] = T[i]
      /\ 1 .. l = (1 .. Len(T)) \cup {l} /\ l \in Nat /\ l \notin 1 .. Len(T)
  BY AppendIs DEF Good, Types
<1>2. InOrder(s, D, t, U, c)
  BY AddsInOrder
<1> HIDE DEF t, l
<1>4. OnTheWay(v, s, D, t, U, c, C)
  <2> SUFFICES ASSUME NEW i \in 1 .. l, t[i].kind = "gamestate"
               PROVE  Newer(t[i].gamestate, v, s, D, c, C) /\ Alone(i, t) /\ Unknown(s, U, c, C)
    BY <1>1 DEF OnTheWay
  <2>1. i = l /\ t[i] = m
    BY <1>1 DEF MaySend, NoGamestateIn
  <2>2. Divides(m.gamestate, v, D)
    BY NewDivides DEF Good, Types
  <2>3. m.gamestate.map = v.restartedServerId /\ m.gamestate.cs = v.cs
    OBVIOUS
  <2>4. c.gamestate.map <= v.restartedServerId /\ c.gamestate.cs <= v.cs
    BY DEF Good, ClientStrings, Divides
  <2>5. Newer(t[i].gamestate, v, s, D, c, C)
    BY <2>1, <2>2, <2>3, <2>4 DEF Newer, MaySend, HasMap
  <2>6. \A j \in 1 .. l : ~ t[j].later
    BY <1>1 DEF NoneLater
  <2>7. \A j \in 1 .. l : ~ j > l
    BY <1>1
  <2>8. \A j \in 1 .. l : t[j].kind = "gamestate" => j = l
    BY <1>1 DEF MaySend, NoGamestateIn
  <2>9. Alone(i, t)
    BY <1>1, <2>1, <2>6, <2>7, <2>8 DEF Alone
  <2>10. Unknown(s, U, c, C)
    BY DEF Unknown, MaySend, NoneLater
  <2>11. QED
    BY <2>5, <2>9, <2>10
<1>5. Downloading(v, s, t, U, c, C)
  BY <1>1 DEF Good, Downloading
<1>6. QED
  BY <1>1, <1>2, <1>4, <1>5 DEF Good, Types, t

-----------------------------------------------------------------------------
(* The server's netchan *)

\* The first of two sequences that are one after the other loses its head.
LEMMA TailOfBoth ==
    ASSUME NEW S, NEW p \in Seq(S), NEW q \in Seq(S), p # << >>
    PROVE  Tail(p) \o q = Tail(p \o q) /\ Head(p) = Head(p \o q) /\ p \o q # << >>
<1>1. Tail(p) \o q \in Seq(S) /\ Tail(p \o q) \in Seq(S)
  OBVIOUS
<1>2. Len(Tail(p) \o q) = Len(Tail(p \o q))
  OBVIOUS
<1>3. ASSUME NEW i \in 1 .. Len(Tail(p) \o q) PROVE (Tail(p) \o q)[i] = Tail(p \o q)[i]
  <2>1. CASE i <= Len(p) - 1
    BY <2>1
  <2>2. CASE i > Len(p) - 1
    BY <2>2
  <2>3. QED
    BY <2>1, <2>2
<1>4. Tail(p) \o q = Tail(p \o q)
  <2> DEFINE a == Tail(p) \o q
             b == Tail(p \o q)
  <2> HIDE DEF a, b
  <2>1. a \in Seq(S) /\ b \in Seq(S) /\ Len(a) = Len(b) /\ \A i \in 1 .. Len(a) : a[i] = b[i]
    BY <1>1, <1>2, <1>3 DEF a, b
  <2>2. a = b
    BY <2>1
  <2>3. QED
    BY <2>2 DEF a, b
<1>5. QED
  BY <1>4

\* A sequence with a sequence of one behind it.
LEMMA OneMore ==
    ASSUME NEW S, NEW p \in Seq(S), NEW x \in S
    PROVE  p \o <<x>> = Append(p, x)
  OBVIOUS

\* A sequence with none behind it.
LEMMA NoMore ==
    ASSUME NEW S, NEW p \in Seq(S)
    PROVE  p \o << >> = p
  OBVIOUS

\* Where the second of two sequences begins.
LEMMA SecondBegins ==
    ASSUME NEW S, NEW p \in Seq(S), NEW q \in Seq(S), q # << >>
    PROVE  Len(p) + 1 \in 1 .. Len(p \o q) /\ (p \o q)[Len(p) + 1] = q[1]
<1>1. Len(p) \in Nat /\ Len(q) \in Nat /\ Len(q) >= 1 /\ Len(p \o q) = Len(p) + Len(q)
  OBVIOUS
<1>2. Len(p) + 1 \in 1 .. Len(p) + Len(q)
  BY <1>1
<1>3. (p \o q)[Len(p) + 1] = q[Len(p) + 1 - Len(p)]
  BY <1>2
<1>4. QED
  BY <1>1, <1>2, <1>3

\* A message arrives, or is lost.
LEMMA FirstLeaves ==
    ASSUME NEW net, NetOK(net), net.flight # << >>
    PROVE  LET after == [net EXCEPT !.flight = Tail(@)]
           IN  /\ NetOK(after) /\ Messages(net) # << >>
               /\ Messages(after) = Tail(Messages(net)) /\ Head(net.flight) = Head(Messages(net))
<1> DEFINE after == [net EXCEPT !.flight = Tail(@)]
<1>1. net.flight \in Seq(DownRecord) /\ net.fragmented \in Seq(DownRecord)
  BY DEF NetOK
<1>2. Tail(net.flight) \in Seq(DownRecord)
  BY <1>1
<1>3. after.flight = Tail(net.flight) /\ after.fragmented = net.fragmented
  BY DEF NetOK
<1>4. NetOK(after)
  BY <1>2 DEF NetOK
<1>5. QED
  BY <1>1, <1>3, <1>4, TailOfBoth DEF Messages

\* The last fragment is sent.
LEMMA LastFragmentLeaves ==
    ASSUME NEW v, NEW s, NEW D, NEW U, NEW c, NEW C, NEW net,
           NetOK(net), net.fragmented # << >>, Good(v, s, D, Messages(net), U, c, C)
    PROVE  NetOK(Completed(net)) /\ Good(v, s, D, Messages(Completed(net)), U, c, C)
<1> DEFINE m == net.fragmented[1]
           flight == Sent(net.flight, m)
<1>1. /\ net.flight \in Seq(DownRecord) /\ net.fragmented \in Seq(DownRecord)
      /\ m \in DownRecord /\ net.fragmented = <<m>>
  BY DEF NetOK
<1>2. flight \in Seq(DownRecord)
  BY <1>1, GameStateAssumption DEF Sent
<1>3. Completed(net) = [net EXCEPT !.flight = flight, !.fragmented = << >>]
  BY DEF Completed
<1> HIDE DEF flight
<1>4. NetOK(Completed(net)) /\ Messages(Completed(net)) = flight
  <2>1. NetOK(Completed(net))
    <3>1. Completed(net) = [flight |-> flight, fragmented |-> << >>, queue |-> << >>]
      BY <1>3 DEF NetOK
    <3>2. QED
      BY <1>2, <3>1 DEF NetOK
  <2>2. Completed(net).flight = flight /\ Completed(net).fragmented = << >>
    BY <1>3 DEF NetOK
  <2>3. QED
    BY <1>2, <2>1, <2>2, NoMore DEF Messages
<1> HIDE DEF m
<1>5. Messages(net) = Append(net.flight, m)
  BY <1>1, OneMore DEF Messages
<1>6. CASE Len(net.flight) < MaxInFlight
  BY <1>4, <1>5, <1>6 DEF Sent, flight, m
<1>7. CASE ~ Len(net.flight) < MaxInFlight
  <2>1. net.flight # << >>
    BY <1>7, GameStateAssumption
  <2>2. flight = Append(Tail(net.flight), m)
    BY <1>7 DEF Sent, flight, m
  <2>3. Append(Tail(net.flight), m) = Tail(net.flight) \o <<m>>
    BY <1>1, <2>1, OneMore
  <2>4. flight = Tail(Messages(net)) /\ Messages(net) # << >>
    BY <1>1, <2>1, <2>2, <2>3, TailOfBoth DEF Messages
  <2>5. QED
    BY <1>4, <2>4, LosesDown
<1>8. QED
  BY <1>6, <1>7

\* A snapshot is sent whole.
LEMMA SendsSnapshot ==
    ASSUME NEW v, NEW s, NEW D, NEW U, NEW c, NEW C, NEW net,
           NetOK(net), net.fragmented = << >>, Good(v, s, D, Messages(net), U, c, C),
           "snapshot" \notin Large,
           NEW m \in DownRecord, m.kind = "snapshot", m.first = s.reliableAcknowledge + 1,
           m.last = Len(D), m.download = s.downloading,
           NEW after \in Started(net, m)
    PROVE  NetOK(after) /\ Good(v, s, D, Messages(after), U, c, C)
<1> DEFINE flight == Sent(net.flight, m)
<1>1. net.flight \in Seq(DownRecord) /\ Len(net.flight) \in Nat
  BY DEF NetOK
<1>2. flight \in Seq(DownRecord)
  BY <1>1, GameStateAssumption DEF Sent
<1>3. after = [net EXCEPT !.flight = flight]
  BY DEF Started
<1> HIDE DEF flight
<1>4. NetOK(after) /\ after.flight = flight /\ after.fragmented = << >>
  BY <1>2, <1>3 DEF NetOK
<1>5. Messages(after) = flight /\ Messages(net) = net.flight
  BY <1>1, <1>2, <1>4, NoMore DEF Messages
<1>6. CASE Len(net.flight) < MaxInFlight
  <2>1. flight = Append(net.flight, m)
    BY <1>6 DEF Sent, flight
  <2>2. QED
    BY <1>4, <1>5, <2>1, AddsSnapshot
<1>7. CASE ~ Len(net.flight) < MaxInFlight
  <2>1. net.flight # << >>
    BY <1>7, GameStateAssumption
  <2>2. flight = Append(Tail(net.flight), m)
    BY <1>7 DEF Sent, flight
  <2>3. Good(v, s, D, Tail(net.flight), U, c, C)
    BY <1>5, <2>1, LosesDown
  <2>4. QED
    BY <1>4, <1>5, <2>2, <2>3, AddsSnapshot
<1>8. QED
  BY <1>6, <1>7

\* A gamestate is sent, in fragments or whole.
LEMMA SendsGamestate ==
    ASSUME NEW v, NEW s, NEW D, NEW U, NEW c, NEW C, NEW net,
           NetOK(net), Good(v, s, D, Messages(net), U, c, C),
           MaySend(v, s, Messages(net), c, C),
           NEW m \in DownRecord, m.kind = "gamestate", m.first = s.reliableAcknowledge + 1,
           m.last = Len(D), m.download = s.downloading, ~ m.later,
           m.gamestate = [map |-> v.restartedServerId, serverId |-> v.systemInfo,
                          cs |-> v.cs, commands |-> Len(D)],
           NEW after \in Transmitted([flight     |-> NotLater(net.flight),
                                      fragmented |-> NotLater(net.fragmented),
                                      queue      |-> net.queue], m)
    PROVE  /\ NetOK(after)
           /\ Good(v, s, D, Messages(after), NotLater(U), [c EXCEPT !.later = FALSE], C)
<1> DEFINE T == NotLater(net.flight)
           d == [c EXCEPT !.later = FALSE]
           flight == Sent(T, m)
<1>1. /\ net.flight \in Seq(DownRecord) /\ net.queue = << >>
      /\ net.fragmented \in Seq(DownRecord) /\ Len(net.fragmented) \in Nat
  BY DEF NetOK
<1>2. net.fragmented = << >> /\ Messages(net) = net.flight
  <2>1. ASSUME net.fragmented # << >> PROVE FALSE
    <3> DEFINE k == Len(net.flight) + 1
    <3>1. 1 \in 1 .. Len(net.fragmented)
      BY <1>1, <2>1
    <3>2. k \in 1 .. Len(Messages(net)) /\ Messages(net)[k] = net.fragmented[1]
      BY <1>1, <2>1, SecondBegins DEF Messages
    <3>3. QED
      BY <3>1, <3>2 DEF MaySend, NoGamestateIn, NetOK
  <2>2. QED
    BY <1>1, <2>1, NoMore DEF Messages
<1>3. /\ T \in Seq(DownRecord) /\ Len(T) = Len(net.flight) /\ Len(T) \in Nat
      /\ \A i \in 1 .. Len(T) : ~ T[i].later /\ T[i].kind = net.flight[i].kind
  BY <1>1, NotLaterDown
<1>4. NoneLater(T) /\ NoGamestateIn(T)
  BY <1>2, <1>3 DEF NoneLater, NoGamestateIn, MaySend
<1>5. NotLater(<< >>) = << >>
  BY DEF NotLater
<1>6. Good(v, s, D, T, NotLater(U), d, C)
  BY <1>2, ForgetsLater
<1>7. NoneLater(NotLater(U)) /\ ~ d.later
  BY NotLaterUp DEF NoneLater, Good, Types, ClientRecord
<1>8. MaySend(v, s, T, d, C)
  <2>1. d.gamestate = c.gamestate /\ d.state = c.state /\ d.download = c.download
    BY DEF Good, Types, ClientRecord
  <2>2. QED
    BY <1>4, <2>1 DEF MaySend, HasMap, Waits
<1>9. after \in {[flight |-> flight, fragmented |-> << >>, queue |-> << >>],
                 [flight |-> T, fragmented |-> <<m>>, queue |-> << >>]}
  BY <1>1, <1>2, <1>5 DEF Transmitted, Started
<1> HIDE DEF T, d, flight
<1>10. Good(v, s, D, Append(T, m), NotLater(U), d, C)
  BY <1>4, <1>6, <1>7, <1>8, AddsGamestate
<1>11. CASE after = [flight |-> T, fragmented |-> <<m>>, queue |-> << >>]
  <2>1. NetOK(after)
    BY <1>3, <1>11 DEF NetOK
  <2>2. Messages(after) = Append(T, m)
    BY <1>3, <1>11, OneMore DEF Messages
  <2>3. QED
    BY <1>10, <2>1, <2>2 DEF d
<1>12. CASE after = [flight |-> flight, fragmented |-> << >>, queue |-> << >>]
  <2>1. flight \in Seq(DownRecord)
    BY <1>3, GameStateAssumption DEF Sent, flight
  <2>2. NetOK(after) /\ Messages(after) = flight
    BY <1>12, <2>1, NoMore DEF NetOK, Messages
  <2>3. CASE Len(T) < MaxInFlight
    <3>1. flight = Append(T, m)
      BY <2>3 DEF Sent, flight
    <3>2. QED
      BY <1>10, <2>2, <3>1 DEF d
  <2>4. CASE ~ Len(T) < MaxInFlight
    <3>1. T # << >>
      BY <2>4, GameStateAssumption
    <3>2. flight = Append(Tail(T), m)
      BY <2>4 DEF Sent, flight
    <3>3. Good(v, s, D, Tail(T), NotLater(U), d, C)
      BY <1>6, <3>1, LosesDown
    <3>4. NoneLater(Tail(T)) /\ NoGamestateIn(Tail(T))
      BY <1>3, <1>4, <3>1, TailIs DEF NoneLater, NoGamestateIn
    <3>5. MaySend(v, s, Tail(T), d, C)
      BY <1>8, <3>4 DEF MaySend
    <3>6. QED
      BY <1>7, <2>2, <3>2, <3>3, <3>4, <3>5, AddsGamestate DEF d
  <2>5. QED
    BY <2>3, <2>4
<1>13. QED
  BY <1>9, <1>11, <1>12

-----------------------------------------------------------------------------
(* The level changes *)

\* The latest config string is the gamestate's, or that of the last command.
LEMMA LatestIs ==
    ASSUME NEW D, NEW c, c \in ClientRecord
    PROVE  LET range == c.gamestate.commands + 1 .. c.cgame
           IN  \/ /\ \A n \in range : D[n].kind # "cs"
                  /\ Latest(D, c) = c.gamestate.cs
               \/ \E m \in range :
                     /\ D[m].kind = "cs" /\ \A n \in range : D[n].kind = "cs" => n <= m
                     /\ Latest(D, c) = D[m].value
<1> DEFINE range == c.gamestate.commands + 1 .. c.cgame
           ns == {n \in range : D[n].kind = "cs"}
<1>1. c.gamestate.commands \in Nat /\ c.cgame \in Nat
  BY DEF ClientRecord, GamestateRecord
<1>2. ns \in SUBSET (0 .. c.cgame)
  BY <1>1
<1>3. Latest(D, c) = IF ns = {} THEN c.gamestate.cs ELSE D[Max(ns)].value
  BY DEF Latest
<1>4. CASE ns = {}
  BY <1>3, <1>4
<1>5. CASE ns # {}
  <2>1. Max(ns) \in ns /\ \A n \in ns : n <= Max(ns)
    <3> HIDE DEF ns
    <3>1. QED
      BY <1>1, <1>2, <1>5, MaxProperties
  <2>2. Latest(D, c) = D[Max(ns)].value
    BY <1>3, <1>5
  <2>3. QED
    BY <2>1, <2>2
<1>6. QED
  BY <1>4, <1>5

\* The latest config string is said of the gamestate and of how far cgame has come.
LEMMA LatestDependsOn ==
    ASSUME NEW D, NEW c, NEW c2, c2.gamestate = c.gamestate, c2.cgame = c.cgame
    PROVE  Latest(D, c2) = Latest(D, c)
  BY DEF Latest

\* New commands do not change what the client's config strings should be.
LEMMA LatestSame ==
    ASSUME NEW v, NEW s, NEW D, NEW T, NEW U, NEW c, NEW C, Types(v, s, D, T, U, c, C),
           NEW E, \A n \in c.gamestate.commands + 1 .. c.cgame : E[n] = D[n]
    PROVE  Latest(E, c) = Latest(D, c)
<1> DEFINE range == c.gamestate.commands + 1 .. c.cgame
           ns == {n \in range : D[n].kind = "cs"}
<1>1. c.gamestate.commands \in Nat /\ c.cgame \in Nat
  BY DEF Types, ClientRecord, GamestateRecord
<1>2. {n \in range : E[n].kind = "cs"} = ns
  OBVIOUS
<1>3. CASE ns = {}
  BY <1>2, <1>3 DEF Latest
<1>4. CASE ns # {}
  <2>1. ns \in SUBSET (0 .. c.cgame)
    BY <1>1
  <2>2. Max(ns) \in ns
    <3> HIDE DEF ns
    <3>1. QED
      BY <1>1, <1>4, <2>1, MaxProperties
  <2>3. E[Max(ns)] = D[Max(ns)]
    BY <2>2
  <2>4. QED
    BY <1>2, <1>4, <2>3 DEF Latest
<1>5. QED
  BY <1>3, <1>4

\* The server announces a change within the map, or there is no one to tell.
Announced(v, v2, D, E) ==
    /\ v2.restartedServerId = v.restartedServerId /\ v2.pure = v.pure
    /\ v.cs <= v2.cs /\ v.systemInfo <= v2.systemInfo /\ v.serverId <= v2.serverId
    /\ v2.systemInfo <= v2.serverId
    /\ Len(D) <= Len(E)
    /\ \A n \in 1 .. Len(D) : E[n] = D[n]
    /\ \A n \in 1 .. Len(E) : n > Len(D) =>
          /\ n = Len(D) + 1
          /\ E[n].kind = "cs" => 1 <= E[n].value /\ v.cs <= E[n].value /\ E[n].value <= v2.cs
          /\ E[n].kind = "systemInfo" =>
                /\ v.systemInfo <= E[n].value /\ E[n].value <= v2.systemInfo
                /\ E[n].value >= v2.restartedServerId => v2.serverId > v2.restartedServerId

\* A gamestate made before a change divides the commands as before.
LEMMA StillDivides ==
    ASSUME NEW v \in SvRecord, NEW v2 \in SvRecord, NEW D \in Seq(ServerCommand),
           NEW E \in Seq(ServerCommand), Announced(v, v2, D, E),
           NEW g \in GamestateRecord, Divides(g, v, D), g.commands <= Len(D)
    PROVE  Divides(g, v2, E)
<1>1. /\ {g.map, g.serverId, g.cs, g.commands} \subseteq Nat
      /\ {v.serverId, v.restartedServerId, v.systemInfo, v.cs} \subseteq Nat
      /\ {v2.serverId, v2.restartedServerId, v2.systemInfo, v2.cs} \subseteq Nat
      /\ \A n \in 1 .. Len(E) : E[n].value \in Nat
      /\ Len(D) \in Nat /\ Len(E) \in Nat
  <2>1. \A n \in 1 .. Len(E) : E[n] \in ServerCommand
    OBVIOUS
  <2>2. QED
    BY <2>1 DEF GamestateRecord, SvRecord, ServerCommand
<1>2. ASSUME NEW n \in 1 .. Len(E)
      PROVE  /\ E[n].kind = "cs" /\ n <= g.commands => E[n].value <= g.cs
             /\ E[n].kind = "cs" /\ n > g.commands => g.cs <= E[n].value
             /\ E[n].kind = "systemInfo" /\ n > g.commands => g.serverId <= E[n].value
  <2>1. CASE n \in 1 .. Len(D)
    BY <2>1 DEF Announced, Divides
  <2>2. CASE n > Len(D)
    BY <1>1, <2>2 DEF Announced, Divides
  <2>3. QED
    BY <1>1, <2>1, <2>2
<1>3. QED
  BY <1>1, <1>2 DEF Announced, Divides

\* Within a map the invariant holds for the new values and commands.
LEMMA LevelChanges ==
    ASSUME NEW v, NEW s, NEW D, NEW T, NEW U, NEW c, NEW C,
           Good(v, s, D, T, U, c, C),
           NEW v2 \in SvRecord, NEW E \in Seq(ServerCommand), Announced(v, v2, D, E),
           v2.serverId > v2.restartedServerId => HasMap(v, c)
    PROVE  Good(v2, s, E, T, U, c, C)
<1>1. /\ {v.serverId, v.restartedServerId, v.systemInfo, v.cs} \subseteq Nat
      /\ {v2.serverId, v2.restartedServerId, v2.systemInfo, v2.cs} \subseteq Nat
      /\ Len(D) \in Nat /\ Len(E) \in Nat
  BY DEF Good, Types, SvRecord
<1>2. /\ {c.serverCommandSequence, c.cgame, c.cs, c.serverId, c.gamestate.commands} \subseteq Nat
      /\ c.gamestate \in GamestateRecord
      /\ \A i \in 1 .. Len(T) : T[i].gamestate \in GamestateRecord /\ T[i].last \in Nat
      /\ \A i \in 1 .. Len(U) : U[i].serverId \in Nat
      /\ \A n \in 1 .. Len(C) : C[n].serverId \in Nat
      /\ \A n \in 1 .. Len(E) : E[n].value \in Nat
  <2>1. /\ \A i \in 1 .. Len(T) : T[i] \in DownRecord
        /\ \A i \in 1 .. Len(U) : U[i] \in UpRecord
        /\ \A n \in 1 .. Len(C) : C[n] \in ClientCommand
        /\ \A n \in 1 .. Len(E) : E[n] \in ServerCommand
    BY DEF Good, Types
  <2>2. c \in ClientRecord
    BY DEF Good, Types
  <2>3. QED
    BY <2>1, <2>2 DEF ClientRecord, GamestateRecord, DownRecord, UpRecord, ClientCommand,
                      ServerCommand
<1>3. Announced(v, v2, D, E)
  OBVIOUS
<1>4. InOrder(s, E, T, U, c)
  <2>1. \A i \in 1 .. Len(T) : Follows(T[i], E, c)
    BY <1>1, <1>2 DEF Good, InOrder, Follows, Announced
  <2>2. QED
    BY <1>1, <1>2, <2>1 DEF Good, InOrder, Announced
<1>5. StringsInOrder(v2, E)
  <2>1. v2.restartedServerId <= v2.systemInfo /\ v2.systemInfo <= v2.serverId
    BY <1>1 DEF Good, StringsInOrder, Announced
  <2>2. ASSUME NEW n \in 1 .. Len(E)
        PROVE  /\ E[n].kind = "cs" => 1 <= E[n].value /\ E[n].value <= v2.cs
               /\ E[n].kind = "systemInfo" =>
                     /\ E[n].value <= v2.systemInfo
                     /\ E[n].value >= v2.restartedServerId => v2.serverId > v2.restartedServerId
    <3>1. CASE n \in 1 .. Len(D)
      <4>1. E[n] = D[n] /\ E[n].value \in Nat
        BY <1>2, <3>1 DEF Announced
      <4>2. /\ D[n].kind = "cs" => 1 <= D[n].value /\ D[n].value <= v.cs
            /\ D[n].kind = "systemInfo" =>
                  /\ D[n].value <= v.systemInfo
                  /\ D[n].value >= v.restartedServerId => v.serverId > v.restartedServerId
        BY <3>1 DEF Good, StringsInOrder
      <4>3. /\ v2.restartedServerId = v.restartedServerId /\ v.cs <= v2.cs
            /\ v.systemInfo <= v2.systemInfo /\ v.serverId <= v2.serverId
        BY DEF Announced
      <4>4. QED
        BY <1>1, <4>1, <4>2, <4>3
    <3>2. CASE n > Len(D)
      BY <3>2 DEF Announced
    <3>3. QED
      BY <1>1, <3>1, <3>2
  <2>3. ASSUME NEW k \in 1 .. Len(E), NEW n \in 1 .. Len(E), E[k].kind = "cs", E[n].kind = "cs",
               k < n
        PROVE  E[k].value <= E[n].value
    <3>1. k \in 1 .. Len(D)
      BY <1>1, <2>3 DEF Announced
    <3>2. D[k].kind = "cs" /\ E[k] = D[k] /\ D[k].value <= v.cs
      BY <2>3, <3>1 DEF Good, StringsInOrder, Announced
    <3>3. CASE n \in 1 .. Len(D)
      BY <2>3, <3>1, <3>3 DEF Good, StringsInOrder, Announced
    <3>4. CASE n > Len(D)
      <4>1. E[k].value <= v.cs
        BY <3>2
      <4>2. v.cs <= E[n].value
        BY <2>3, <3>4 DEF Announced
      <4>3. E[k].value \in Nat /\ v.cs \in Nat /\ E[n].value \in Nat
        BY <1>1, <1>2
      <4>4. \A i, j, l \in Nat : i <= j /\ j <= l => i <= l
        OBVIOUS
      <4>5. QED
        BY <4>1, <4>2, <4>3, <4>4
    <3>5. QED
      BY <1>1, <3>3, <3>4
  <2>4. QED
    BY <2>1, <2>2, <2>3 DEF StringsInOrder
<1>6. ClientStrings(v2, E, c)
  <2>1. ClientStrings(v, D, c) /\ c.serverCommandSequence <= Len(D)
    BY DEF Good, InOrder
  <2>2. Divides(c.gamestate, v2, E)
    BY <1>1, <1>2, <2>1, StillDivides DEF Good, Types, ClientStrings
  <2>3. \A n \in c.gamestate.commands + 1 .. c.cgame : n \in 1 .. Len(D)
    BY <1>1, <1>2, <2>1 DEF ClientStrings
  <2>4. Latest(E, c) = Latest(D, c)
    BY <2>3, LatestSame DEF Announced, Good
  <2>5. \A n \in 1 .. Len(E) :
           /\ n <= c.gamestate.commands /\ IsConfigString(E[n]) => n \in c.bad
           /\ n > c.gamestate.commands /\ n <= c.serverCommandSequence => n \notin c.bad
    <3>1. \A n \in 1 .. Len(E) : n <= c.serverCommandSequence => n \in 1 .. Len(D)
      BY <1>1, <1>2, <2>1
    <3>2. c.gamestate.commands <= c.serverCommandSequence
      BY <2>1 DEF ClientStrings
    <3>3. QED
      BY <1>1, <1>2, <2>1, <3>1, <3>2 DEF ClientStrings, Announced
  <2>6. c.cs <= v2.cs
    BY <1>1, <1>2, <2>1 DEF ClientStrings, Announced
  <2>7. QED
    BY <2>1, <2>2, <2>4, <2>5, <2>6 DEF ClientStrings
<1>7. Ids(v2, s, c, C)
  BY <1>1, <1>2 DEF Good, Ids, HasMap, Announced
<1>8. UpIds(v2, U, c, C)
  BY <1>1, <1>2 DEF Good, UpIds, HasMap, Announced, ChecksumsOfMap
<1>9. Checked(v2, s, U, c, C)
  BY DEF Good, Checked, Announced, ChecksumsOfMap, HasMap
<1>10. OnTheWay(v2, s, E, T, U, c, C)
  <2> SUFFICES ASSUME NEW i \in 1 .. Len(T), T[i].kind = "gamestate"
               PROVE  Newer(T[i].gamestate, v2, s, E, c, C) /\ Alone(i, T) /\ Unknown(s, U, c, C)
    BY DEF OnTheWay
  <2>1. Newer(T[i].gamestate, v, s, D, c, C) /\ Alone(i, T) /\ Unknown(s, U, c, C)
    BY DEF Good, OnTheWay
  <2>2. T[i].gamestate.commands <= Len(D)
    BY DEF Good, InOrder, Follows
  <2>3. Divides(T[i].gamestate, v2, E)
    BY <1>2, <2>1, <2>2, StillDivides DEF Newer, Good, Types
  <2>4. QED
    BY <2>1, <2>3 DEF Newer
<1>11. Downloading(v2, s, T, U, c, C)
  BY DEF Good, Downloading, HasMap, Announced, ChecksumsOfMap
<1>12. QED
  BY <1>4, <1>5, <1>6, <1>7, <1>8, <1>9, <1>10, <1>11 DEF Good, Types

\* Another map is spawned: what any message or command has is older.
LEMMA MapSpawns ==
    ASSUME NEW v, NEW s, NEW D, NEW T, NEW U, NEW c, NEW C,
           Good(v, s, D, T, U, c, C), NEW v2, NEW s2,
           v2 = [v EXCEPT !.serverId = v.serverId + 1, !.restartedServerId = v.serverId + 1,
                          !.systemInfo = v.serverId + 1, !.cs = @ + 1],
           s2 = [s EXCEPT !.state = "CONNECTED"]
    PROVE  Good(v2, s2, D, T, U, c, C)
<1>1. /\ v2 \in SvRecord /\ v2.pure = v.pure
      /\ v2.serverId = v.serverId + 1 /\ v2.restartedServerId = v.serverId + 1
      /\ v2.systemInfo = v.serverId + 1 /\ v2.cs = v.cs + 1
      /\ {v.serverId, v.restartedServerId, v.systemInfo, v.cs} \subseteq Nat
      /\ v.restartedServerId <= v.systemInfo /\ v.systemInfo <= v.serverId
  <2>1. v \in SvRecord /\ v.restartedServerId <= v.systemInfo /\ v.systemInfo <= v.serverId
    BY DEF Good, Types, StringsInOrder
  <2>2. {v.serverId, v.restartedServerId, v.systemInfo, v.cs} \subseteq Nat
    BY <2>1 DEF SvRecord
  <2>3. v2 = [serverId |-> v.serverId + 1, restartedServerId |-> v.serverId + 1,
              systemInfo |-> v.serverId + 1, cs |-> v.cs + 1, pure |-> v.pure]
    BY <2>1 DEF SvRecord
  <2>4. QED
    BY <2>1, <2>2, <2>3 DEF SvRecord
<1>2. /\ s2 \in ScRecord /\ s2.state = "CONNECTED" /\ s2.reliableAcknowledge = s.reliableAcknowledge
      /\ s2.lastClientCommand = s.lastClientCommand /\ s2.downloading = s.downloading
  BY DEF Good, Types, ScRecord
<1>3. /\ {c.cs, c.serverId, c.gamestate.map, c.gamestate.serverId, c.gamestate.cs} \subseteq Nat
      /\ \A i \in 1 .. Len(T) : /\ T[i].gamestate.map \in Nat /\ T[i].gamestate.serverId \in Nat
                                /\ T[i].gamestate.cs \in Nat
      /\ \A i \in 1 .. Len(U) : U[i].serverId \in Nat
      /\ \A n \in 1 .. Len(C) : C[n].serverId \in Nat
      /\ \A n \in 1 .. Len(D) : D[n].value \in Nat
  <2>1. /\ \A i \in 1 .. Len(T) : T[i] \in DownRecord
        /\ \A i \in 1 .. Len(U) : U[i] \in UpRecord
        /\ \A n \in 1 .. Len(C) : C[n] \in ClientCommand
        /\ \A n \in 1 .. Len(D) : D[n] \in ServerCommand
    BY DEF Good, Types
  <2>2. c \in ClientRecord
    BY DEF Good, Types
  <2>3. QED
    BY <2>1, <2>2 DEF ClientRecord, GamestateRecord, DownRecord, UpRecord, ClientCommand,
                      ServerCommand
<1>4. InOrder(s2, D, T, U, c)
  BY <1>2 DEF Good, InOrder
<1>5. StringsInOrder(v2, D)
  <2>1. ASSUME NEW n \in 1 .. Len(D)
        PROVE  /\ D[n].kind = "cs" => 1 <= D[n].value /\ D[n].value <= v2.cs
               /\ D[n].kind = "systemInfo" =>
                     D[n].value <= v2.systemInfo /\ ~ D[n].value >= v2.restartedServerId
    BY <1>1, <1>3 DEF Good, StringsInOrder
  <2>2. QED
    BY <1>1, <2>1 DEF Good, StringsInOrder
<1>6. ASSUME NEW g \in GamestateRecord, Divides(g, v, D)
      PROVE  Divides(g, v2, D) /\ g.map # v2.restartedServerId
  <2>1. {g.map, g.serverId, g.cs} \subseteq Nat
    BY DEF GamestateRecord
  <2>2. QED
    BY <1>1, <1>6, <2>1 DEF Divides
<1>7. ClientStrings(v2, D, c) /\ ~ HasMap(v2, c) /\ c.gamestate.map <= v.serverId
  <2>1. c.gamestate \in GamestateRecord /\ Divides(c.gamestate, v, D)
    BY DEF Good, Types, ClientRecord, ClientStrings
  <2>2. c.cs <= v2.cs
    BY <1>1, <1>3 DEF Good, ClientStrings
  <2>3. c.gamestate.map <= v.serverId
    BY <1>1, <1>3, <2>1 DEF Divides
  <2>4. QED
    BY <1>6, <2>1, <2>2, <2>3 DEF Good, ClientStrings, HasMap
<1>8. Ids(v2, s2, c, C)
  BY <1>1, <1>2, <1>3 DEF Good, Ids
<1>9. \A i \in 1 .. Len(U) :
         U[i].serverId <= v2.serverId /\ ~ U[i].serverId >= v2.restartedServerId
  BY <1>1, <1>3 DEF Good, UpIds
<1>10. UpIds(v2, U, c, C) /\ Checked(v2, s2, U, c, C)
  BY <1>2, <1>7, <1>9 DEF Good, UpIds, Checked
<1>11. OnTheWay(v2, s2, D, T, U, c, C)
  <2> SUFFICES ASSUME NEW i \in 1 .. Len(T), T[i].kind = "gamestate"
               PROVE  Newer(T[i].gamestate, v2, s2, D, c, C) /\ Alone(i, T) /\ Unknown(s2, U, c, C)
    BY DEF OnTheWay
  <2>1. Newer(T[i].gamestate, v, s, D, c, C) /\ Alone(i, T) /\ Unknown(s, U, c, C)
    BY DEF Good, OnTheWay
  <2>2. T[i].gamestate \in GamestateRecord
    <3>1. T[i] \in DownRecord
      BY DEF Good, Types
    <3>2. QED
      BY <3>1 DEF DownRecord
  <2>3. Divides(T[i].gamestate, v2, D)
    BY <1>6, <2>1, <2>2 DEF Newer
  <2>4. QED
    BY <1>2, <2>1, <2>3 DEF Newer, Unknown, Told
<1>12. Downloading(v2, s2, T, U, c, C)
  BY <1>2 DEF Good, Downloading, Told
<1>13. QED
  BY <1>1, <1>2, <1>4, <1>5, <1>7, <1>8, <1>10, <1>11, <1>12 DEF Good, Types

-----------------------------------------------------------------------------
(* The server executes the client's commands *)

\* f says what the server knows of the client after each of the first n commands.
Executes(f, m, n) ==
    f = [i \in 0 .. n |-> IF i = 0 THEN Acknowledged(m) ELSE Executed(f[i - 1], New(m)[i])]

\* What is executed can be executed one command further ...
LEMMA ExecutesLonger ==
    ASSUME NEW m, NEW n \in Nat, NEW f, Executes(f, m, n)
    PROVE  \E g : Executes(g, m, n + 1)
<1> DEFINE g == [i \in 0 .. n + 1 |-> IF i = n + 1 THEN Executed(f[n], New(m)[n + 1]) ELSE f[i]]
<1>1. \A i \in 0 .. n : g[i] = f[i]
  OBVIOUS
<1>2. \A i \in 0 .. n : f[i] = IF i = 0 THEN Acknowledged(m) ELSE Executed(f[i - 1], New(m)[i])
  BY DEF Executes
<1>3. g[n + 1] = Executed(g[n], New(m)[n + 1])
  BY <1>1
<1>4. ASSUME NEW i \in 0 .. n + 1
      PROVE  g[i] = IF i = 0 THEN Acknowledged(m) ELSE Executed(g[i - 1], New(m)[i])
  <2>1. CASE i = n + 1
    BY <2>1, <1>3
  <2>2. CASE i = 0
    BY <2>2, <1>1, <1>2
  <2>3. CASE i \in 1 .. n
    BY <2>3, <1>1, <1>2
  <2>4. QED
    BY <2>1, <2>2, <2>3
<1>5. g = [i \in 0 .. n + 1 |-> IF i = 0 THEN Acknowledged(m) ELSE Executed(g[i - 1], New(m)[i])]
  BY <1>4
<1>6. QED
  BY <1>5 DEF Executes

\* ... and so all commands of a message are executed, one by one.
LEMMA ExecuteCommandsIs ==
    ASSUME NEW m, Len(New(m)) \in Nat
    PROVE  \E f : /\ f[0] = Acknowledged(m)
                  /\ \A i \in 1 .. Len(New(m)) : f[i] = Executed(f[i - 1], New(m)[i])
                  /\ ExecuteCommands(m) = [f[Len(New(m))] EXCEPT
                        !.lastClientCommand = Max({sc.lastClientCommand, m.commands})]
<1> DEFINE after == CHOOSE f : Executes(f, m, Len(New(m)))
           Bad == {n \in Nat : ~ \E f : Executes(f, m, n)}
<1>1. \E f : Executes(f, m, Len(New(m)))
  <2>1. Bad = {}
    <3> SUFFICES ASSUME Bad # {} PROVE FALSE
      OBVIOUS
    <3>1. PICK k \in Bad : \A n \in Bad : k <= n
      <4>1. Bad \in SUBSET Nat
        OBVIOUS
      <4>2. QED
        BY <4>1, HasMinimum
    <3>2. k # 0
      <4>1. Executes([i \in 0 .. 0 |-> Acknowledged(m)], m, 0)
        BY DEF Executes
      <4>2. QED
        BY <4>1
    <3>3. k - 1 \in Nat /\ k - 1 \notin Bad
      BY <3>1, <3>2
    <3>4. PICK f : Executes(f, m, k - 1)
      BY <3>3
    <3>5. \E g : Executes(g, m, (k - 1) + 1)
      BY <3>3, <3>4, ExecutesLonger
    <3>6. QED
      BY <3>1, <3>5
  <2>2. QED
    BY <2>1
<1>2. Executes(after, m, Len(New(m)))
  BY <1>1
<1>3. ExecuteCommands(m) = [after[Len(New(m))] EXCEPT
                               !.lastClientCommand = Max({sc.lastClientCommand, m.commands})]
  BY DEF ExecuteCommands, Executes
<1> HIDE DEF after
<1>4. \A i \in 0 .. Len(New(m)) :
         after[i] = IF i = 0 THEN Acknowledged(m) ELSE Executed(after[i - 1], New(m)[i])
  BY <1>2 DEF Executes
<1>5. after[0] = Acknowledged(m)
  BY <1>4
<1>6. \A i \in 1 .. Len(New(m)) : after[i] = Executed(after[i - 1], New(m)[i])
  BY <1>4
<1>7. QED
  BY <1>3, <1>5, <1>6

\* Whether one of the first i commands of a message is of the given kind
Among(i, m, kind) == \E k \in 1 .. i : New(m)[k].kind = kind

\* What the first i commands of message m have made of the client.
ExecutedTo(i, x, m) ==
    /\ x \in ScRecord
    /\ x.reliableAcknowledge = m.acknowledge /\ x.lastClientCommand = sc.lastClientCommand
    /\ ~ Among(i, m, "donedl") =>
          /\ x.state = sc.state
          /\ x.downloading = (sc.downloading \/ Among(i, m, "download"))
          /\ sv.pure /\ sc.state = "ACTIVE" /\ (i = 0 \/ New(m)[i].kind # "vdr") => x.pureReceived
    /\ Among(i, m, "donedl") => x.state = "PRIMED" /\ ~ x.downloading

\* The commands of a message are those after the last that was executed.
LEMMA NewIs ==
    ASSUME NEW D, NEW T, NEW c, Good(sv, sc, D, T, up, c, clientCommands), up # << >>
    PROVE  LET m == Head(up)
               e == sc.lastClientCommand
               K == Len(clientCommands)
           IN  /\ m = up[1] /\ m \in UpRecord /\ 1 \in 1 .. Len(up)
               /\ e \in Nat /\ m.commands \in Nat /\ K \in Nat
               /\ e <= K /\ m.commands <= K
               /\ Len(New(m)) = IF m.commands > e THEN m.commands - e ELSE 0
               /\ Len(New(m)) \in Nat
               /\ \A i \in 1 .. Len(New(m)) :
                     /\ New(m)[i] = clientCommands[e + i] /\ e + i \in 1 .. K
                     /\ New(m)[i] \in ClientCommand
<1> DEFINE m == Head(up)
           e == sc.lastClientCommand
           K == Len(clientCommands)
<1>1. m = up[1] /\ m \in UpRecord /\ 1 \in 1 .. Len(up) /\ clientCommands \in Seq(ClientCommand)
  BY TailIs DEF Good, Types
<1>2. e \in Nat /\ m.commands \in Nat /\ K \in Nat
  BY <1>1 DEF Good, Types, ScRecord, UpRecord
<1>3. e <= K /\ m.commands <= K
  BY <1>1 DEF Good, Checked
<1> HIDE DEF m, e, K
<1>4. New(m) = SubSeq(clientCommands, e + 1, m.commands)
  BY DEF New, e
<1>5. Len(New(m)) = IF m.commands > e THEN m.commands - e ELSE 0
  BY <1>1, <1>2, <1>3, <1>4 DEF K
<1>6. ASSUME NEW i \in 1 .. Len(New(m)) PROVE New(m)[i] = clientCommands[e + i] /\ e + i \in 1 .. K
  <2>1. m.commands > e /\ i \in 1 .. m.commands - e
    BY <1>2, <1>5
  <2>2. e + i \in 1 .. K
    BY <1>2, <1>3, <2>1
  <2>3. New(m)[i] = clientCommands[(e + 1) + i - 1]
    BY <1>1, <1>2, <1>3, <1>4, <1>5, <2>1 DEF K
  <2>4. (e + 1) + i - 1 = e + i
    BY <1>2, <2>1
  <2>5. QED
    BY <2>2, <2>3, <2>4
<1>7. \A i \in 1 .. Len(New(m)) : New(m)[i] \in ClientCommand
  BY <1>1, <1>6 DEF K
<1>8. QED
  BY <1>1, <1>2, <1>3, <1>5, <1>6, <1>7 DEF m, e, K

\* Each command keeps ExecutedTo.
LEMMA OneExecuted ==
    ASSUME NEW D, NEW T, NEW c, Good(sv, sc, D, T, up, c, clientCommands), up # << >>,
           NEW i \in 1 .. Len(New(Head(up))), NEW x, ExecutedTo(i - 1, x, Head(up))
    PROVE  ExecutedTo(i, Executed(x, New(Head(up))[i]), Head(up))
<1> DEFINE m == Head(up)
           cmd == New(m)[i]
           y == Executed(x, cmd)
           e == sc.lastClientCommand
           K == Len(clientCommands)
<1>1. /\ e \in Nat /\ m.commands \in Nat /\ K \in Nat
      /\ e <= K /\ m.commands <= K /\ m \in UpRecord /\ m = up[1]
      /\ Len(New(m)) = IF m.commands > e THEN m.commands - e ELSE 0
      /\ Len(New(m)) \in Nat
      /\ \A k \in 1 .. Len(New(m)) :
            /\ New(m)[k] = clientCommands[e + k] /\ e + k \in 1 .. K
            /\ New(m)[k] \in ClientCommand
  BY NewIs
<1>2. cmd \in ClientCommand /\ cmd = clientCommands[e + i] /\ e + i \in 1 .. K
  BY <1>1
<1>3. ExecutedTo(i - 1, x, m)
  OBVIOUS
<1>4. i \in Nat /\ i > 0 /\ i <= Len(New(m))
  BY <1>1
<1> HIDE DEF m, e, K
<1>5. x \in ScRecord
  BY <1>3 DEF ExecutedTo
<1>6. ASSUME Among(i - 1, m, "donedl")
      PROVE  cmd.kind = "vdr" /\ x.state = "PRIMED" /\ ~ x.downloading
  <2>1. PICK k \in 1 .. i - 1 : New(m)[k].kind = "donedl"
    BY <1>6 DEF Among
  <2>2. /\ k \in 1 .. Len(New(m)) /\ clientCommands[e + k].kind = "donedl" /\ e + k \in 1 .. K
        /\ e + k > e /\ e + i > e + k
    <3>1. k \in Nat /\ k >= 1 /\ k < i
      BY <1>4, <2>1
    <3>2. k \in 1 .. Len(New(m))
      BY <1>1, <1>4, <3>1
    <3>3. clientCommands[e + k].kind = "donedl" /\ e + k \in 1 .. K
      BY <1>1, <2>1, <3>2
    <3>4. e + k > e /\ e + i > e + k
      BY <1>1, <1>4, <3>1
    <3>5. QED
      BY <3>2, <3>3, <3>4
  <2>3. ~ Told(sc, clientCommands)
    BY <2>2 DEF Told, K, e
  <2>4. OnlyVids(e + k, clientCommands)
    BY <2>2, <2>3 DEF Good, Downloading, K, e
  <2>5. cmd.kind = "vdr"
    BY <1>2, <2>2, <2>4 DEF OnlyVids, K
  <2>6. QED
    BY <1>3, <1>6, <2>5 DEF ExecutedTo
<1>7. ASSUME NEW kind PROVE Among(i, m, kind) <=> Among(i - 1, m, kind) \/ cmd.kind = kind
  <2>1. 1 .. i = (1 .. i - 1) \cup {i}
    BY <1>4
  <2>2. QED
    BY <2>1 DEF Among
<1> HIDE DEF cmd
<1>8. /\ x.reliableAcknowledge = m.acknowledge /\ x.lastClientCommand = sc.lastClientCommand
      /\ ~ Among(i - 1, m, "donedl") =>
            /\ x.state = sc.state
            /\ x.downloading = (sc.downloading \/ Among(i - 1, m, "download"))
  BY <1>3 DEF ExecutedTo
<1>9. cmd.kind \in {"cp", "vdr", "download", "donedl"}
  BY <1>2 DEF ClientCommand
<1>10. CASE cmd.kind = "cp"
  <2>1. y = VerifyPaks(x, cmd)
    BY <1>10 DEF Executed
  <2>2. cmd.serverId >= sv.restartedServerId => cmd.map = sv.restartedServerId
    BY <1>2, <1>10 DEF Good, Ids, K
  <2>3. {cmd.serverId, sv.restartedServerId} \subseteq Nat
    BY <1>2 DEF ClientCommand, Good, Types, SvRecord
  <2>4. y \in {x, [x EXCEPT !.pureReceived = TRUE, !.pureAuthentic = TRUE]}
    BY <2>1, <2>2, <2>3 DEF VerifyPaks
  <2>5. sv.pure /\ sc.state = "ACTIVE" => y.pureReceived
    <3> SUFFICES ASSUME sv.pure, sc.state = "ACTIVE" PROVE y.pureReceived
      OBVIOUS
    <3>1. cmd.serverId >= sv.restartedServerId
      <4>1. ChecksumsOfMap(e, sv, clientCommands)
        BY DEF Good, Checked, e
      <4>2. e + i > e
        BY <1>1, <1>4
      <4>3. QED
        BY <1>2, <1>10, <4>1, <4>2 DEF ChecksumsOfMap, K
    <3>2. ~ cmd.serverId < sv.restartedServerId
      BY <2>3, <3>1
    <3>3. y = [x EXCEPT !.pureReceived = TRUE, !.pureAuthentic = TRUE]
      BY <2>1, <2>2, <3>1, <3>2 DEF VerifyPaks
    <3>4. QED
      BY <1>5, <3>3 DEF ScRecord
  <2>6. /\ y \in ScRecord /\ y.state = x.state /\ y.downloading = x.downloading
        /\ y.reliableAcknowledge = x.reliableAcknowledge
        /\ y.lastClientCommand = x.lastClientCommand
    BY <1>5, <2>4 DEF ScRecord
  <2>7. QED
    BY <1>6, <1>7, <1>8, <1>10, <2>5, <2>6 DEF ExecutedTo, m, cmd
<1>11. CASE cmd.kind = "vdr"
  <2>1. y = [x EXCEPT !.pureReceived = FALSE, !.pureAuthentic = FALSE]
    BY <1>11 DEF Executed
  <2>2. /\ y \in ScRecord /\ y.state = x.state /\ y.downloading = x.downloading
        /\ y.reliableAcknowledge = x.reliableAcknowledge
        /\ y.lastClientCommand = x.lastClientCommand
    BY <1>5, <2>1 DEF ScRecord
  <2>3. i # 0
    BY <1>4
  <2>4. Among(i, m, "donedl") => y.state = "PRIMED" /\ ~ y.downloading
    BY <1>6, <1>7, <1>11, <2>2
  <2>5. QED
    BY <1>7, <1>8, <1>11, <2>2, <2>3, <2>4 DEF ExecutedTo, m, cmd
<1>12. CASE cmd.kind = "download"
  <2>1. y = [x EXCEPT !.downloading = TRUE]
    BY <1>12 DEF Executed
  <2>2. /\ y \in ScRecord /\ y.state = x.state /\ y.downloading
        /\ y.reliableAcknowledge = x.reliableAcknowledge
        /\ y.lastClientCommand = x.lastClientCommand /\ y.pureReceived = x.pureReceived
    BY <1>5, <2>1 DEF ScRecord
  <2>3. sc.state = "ACTIVE" => i - 1 = 0 \/ New(m)[i - 1].kind # "vdr"
    <3> SUFFICES ASSUME sc.state = "ACTIVE", i - 1 # 0, New(m)[i - 1].kind = "vdr" PROVE FALSE
      OBVIOUS
    <3>1. i - 1 \in 1 .. Len(New(m))
      BY <1>1, <1>4
    <3>2. /\ e + (i - 1) \in 1 .. K /\ clientCommands[e + (i - 1)].kind = "vdr"
          /\ e + (i - 1) > e
      BY <1>1, <1>4, <3>1
    <3>3. clientCommands[(e + (i - 1)) + 1].kind = "cp"
      BY <3>2 DEF Good, Checked, PairedAfter, Paired, K, e
    <3>4. (e + (i - 1)) + 1 = e + i
      BY <1>1, <1>4
    <3>5. QED
      BY <1>2, <1>12, <3>3, <3>4
  <2>4. ~ Among(i - 1, m, "donedl") /\ sv.pure /\ sc.state = "ACTIVE" => y.pureReceived
    BY <1>3, <2>2, <2>3 DEF ExecutedTo
  <2>5. QED
    BY <1>6, <1>7, <1>8, <1>12, <2>2, <2>4 DEF ExecutedTo, m, cmd
<1>13. CASE cmd.kind = "donedl"
  <2>1. y = [x EXCEPT !.downloading = FALSE, !.state = "PRIMED", !.pureReceived = FALSE,
                      !.pureAuthentic = FALSE]
    BY <1>13 DEF Executed, Primed
  <2>2. /\ y \in ScRecord /\ y.state = "PRIMED" /\ ~ y.downloading
        /\ y.reliableAcknowledge = x.reliableAcknowledge
        /\ y.lastClientCommand = x.lastClientCommand
    BY <1>5, <2>1 DEF ScRecord
  <2>3. QED
    BY <1>7, <1>8, <1>13, <2>2 DEF ExecutedTo, m, cmd
<1>14. QED
  BY <1>9, <1>10, <1>11, <1>12, <1>13 DEF m, cmd
Asked(m) == \E i \in 1 .. Len(New(m)) : New(m)[i].kind = "donedl"

\* What a message makes of the client: its number of commands is taken over, and unless
\* "donedl" is among them, a client in the game stays in it with its checksums known.
LEMMA CommandsExecuted ==
    ASSUME NEW D, NEW T, NEW c, Good(sv, sc, D, T, up, c, clientCommands), up # << >>
    PROVE  LET m == Head(up)
               x == ExecuteCommands(m)
               K == Len(clientCommands)
           IN  /\ x \in ScRecord /\ x.reliableAcknowledge = m.acknowledge
               /\ x.lastClientCommand \in {sc.lastClientCommand, m.commands}
               /\ x.lastClientCommand >= sc.lastClientCommand
               /\ x.lastClientCommand >= m.commands
               /\ x.lastClientCommand <= K
               /\ ~ Asked(m) =>
                     /\ x.state = sc.state
                     /\ sc.downloading => x.downloading
                     /\ x.downloading /\ ~ sc.downloading =>
                           ~ OnlyVids(sc.lastClientCommand, clientCommands)
                     /\ sv.pure /\ sc.state = "ACTIVE" => x.pureReceived
               /\ Asked(m) =>
                     /\ x.state = "PRIMED" /\ ~ x.downloading
                     /\ ~ Told(sc, clientCommands) /\ ~ m.moves
                     /\ OnlyVids(x.lastClientCommand, clientCommands)
<1> DEFINE m == Head(up)
           x == ExecuteCommands(m)
           e == sc.lastClientCommand
           K == Len(clientCommands)
           n == Len(New(m))
<1>1. /\ e \in Nat /\ m.commands \in Nat /\ K \in Nat
      /\ e <= K /\ m.commands <= K /\ m \in UpRecord /\ m = up[1] /\ 1 \in 1 .. Len(up)
      /\ n = IF m.commands > e THEN m.commands - e ELSE 0
      /\ n \in Nat
      /\ \A i \in 1 .. n :
            /\ New(m)[i] = clientCommands[e + i] /\ e + i \in 1 .. K
            /\ New(m)[i] \in ClientCommand
  BY NewIs
<1>2. PICK f : /\ f[0] = Acknowledged(m)
               /\ \A i \in 1 .. n : f[i] = Executed(f[i - 1], New(m)[i])
               /\ x = [f[n] EXCEPT !.lastClientCommand = Max({e, m.commands})]
  BY <1>1, ExecuteCommandsIs
<1>3. sc \in ScRecord /\ m.acknowledge \in Nat
  BY <1>1 DEF Good, Types, UpRecord
<1>4. ExecutedTo(0, f[0], m)
  <2>1. f[0] = [sc EXCEPT !.reliableAcknowledge = m.acknowledge]
    BY <1>2 DEF Acknowledged
  <2>2. /\ f[0] \in ScRecord /\ f[0].reliableAcknowledge = m.acknowledge
        /\ f[0].lastClientCommand = e /\ f[0].state = sc.state
        /\ f[0].downloading = sc.downloading /\ f[0].pureReceived = sc.pureReceived
    BY <1>3, <2>1 DEF ScRecord
  <2>3. ~ Among(0, m, "donedl") /\ ~ Among(0, m, "download")
    BY DEF Among
  <2>4. sv.pure /\ sc.state = "ACTIVE" => sc.pureReceived
    BY DEF Good, Checked
  <2>5. f[0].downloading = (sc.downloading \/ Among(0, m, "download"))
    <3>1. sc.downloading \in BOOLEAN
      BY <1>3 DEF ScRecord
    <3>2. QED
      BY <2>2, <2>3, <3>1
  <2>6. QED
    BY <2>2, <2>3, <2>4, <2>5 DEF ExecutedTo
<1> HIDE DEF m, x, e, K, n
<1>5. \A i \in 0 .. n : ExecutedTo(i, f[i], m)
  <2> DEFINE Bad == {i \in 0 .. n : ~ ExecutedTo(i, f[i], m)}
  <2> SUFFICES ASSUME Bad # {} PROVE FALSE
    OBVIOUS
  <2>1. PICK k \in Bad : \A i \in Bad : k <= i
    <3>1. Bad \in SUBSET Nat
      BY <1>1
    <3> HIDE DEF Bad
    <3>2. QED
      BY <3>1, HasMinimum
  <2>2. k \in 1 .. n /\ k - 1 \in 0 .. n
    BY <1>1, <1>4, <2>1
  <2>3. ExecutedTo(k - 1, f[k - 1], m)
    BY <2>1, <2>2
  <2>4. f[k] = Executed(f[k - 1], New(m)[k])
    BY <1>2, <2>2
  <2>5. ExecutedTo(k, Executed(f[k - 1], New(m)[k]), m)
    BY <2>2, <2>3, OneExecuted DEF m, n
  <2>6. QED
    BY <2>1, <2>4, <2>5
<1>6. ExecutedTo(n, f[n], m)
  BY <1>1, <1>5
<1>7. /\ Max({e, m.commands}) \in {e, m.commands} /\ Max({e, m.commands}) >= e
      /\ Max({e, m.commands}) >= m.commands
  <2>1. {e, m.commands} \in SUBSET (0 .. K)
    BY <1>1
  <2>2. Max({e, m.commands}) \in {e, m.commands} /\ \A i \in {e, m.commands} : i <= Max({e, m.commands})
    BY <1>1, <2>1, MaxProperties
  <2>3. QED
    BY <1>1, <2>2
<1>8. /\ x \in ScRecord /\ x.lastClientCommand = Max({e, m.commands})
      /\ x.reliableAcknowledge = m.acknowledge
      /\ x.state = f[n].state /\ x.downloading = f[n].downloading
      /\ x.pureReceived = f[n].pureReceived
  <2>1. f[n] \in ScRecord /\ f[n].reliableAcknowledge = m.acknowledge
    BY <1>6 DEF ExecutedTo
  <2>2. Max({e, m.commands}) \in Nat
    BY <1>1, <1>7
  <2>3. QED
    BY <1>2, <2>1, <2>2 DEF ScRecord
<1>9. Asked(m) <=> Among(n, m, "donedl")
  BY DEF Asked, Among, n
<1>10. ASSUME ~ Asked(m)
       PROVE  /\ x.state = sc.state
              /\ sc.downloading => x.downloading
              /\ x.downloading /\ ~ sc.downloading => ~ OnlyVids(e, clientCommands)
              /\ sv.pure /\ sc.state = "ACTIVE" => x.pureReceived
  <2>1. /\ x.state = sc.state
        /\ x.downloading = (sc.downloading \/ Among(n, m, "download"))
        /\ sv.pure /\ sc.state = "ACTIVE" /\ (n = 0 \/ New(m)[n].kind # "vdr") => x.pureReceived
    BY <1>6, <1>8, <1>9, <1>10 DEF ExecutedTo
  <2>2. ASSUME Among(n, m, "download") PROVE ~ OnlyVids(e, clientCommands)
    <3>1. PICK i \in 1 .. n : New(m)[i].kind = "download"
      BY <2>2 DEF Among
    <3>2. e + i \in 1 .. K /\ e + i > e /\ clientCommands[e + i].kind = "download"
      BY <1>1, <3>1
    <3>3. QED
      BY <3>2 DEF OnlyVids, K
  <2>3. sc.state = "ACTIVE" => n = 0 \/ New(m)[n].kind # "vdr"
    <3> SUFFICES ASSUME sc.state = "ACTIVE", n # 0, New(m)[n].kind = "vdr" PROVE FALSE
      OBVIOUS
    <3> DEFINE l == m.commands
    <3>0. {e, l, n} \subseteq Nat /\ n = IF l > e THEN l - e ELSE 0
      BY <1>1
    <3> HIDE DEF l
    <3>1. n \in 1 .. n /\ e + n = m.commands
      BY <3>0 DEF l
    <3>2. /\ m.commands \in 1 .. K /\ clientCommands[m.commands].kind = "vdr"
          /\ m.commands > e
      BY <1>1, <3>1
    <3>3. Paired(m.commands, up, clientCommands)
      BY <3>2 DEF Good, Checked, PairedAfter, K, e
    <3>4. QED
      BY <1>1, <3>3 DEF Paired
  <2>4. QED
    BY <2>1, <2>2, <2>3
<1>11. ASSUME Asked(m)
       PROVE  /\ x.state = "PRIMED" /\ ~ x.downloading
              /\ ~ Told(sc, clientCommands) /\ ~ m.moves
              /\ OnlyVids(x.lastClientCommand, clientCommands)
  <2>1. x.state = "PRIMED" /\ ~ x.downloading
    BY <1>6, <1>8, <1>9, <1>11 DEF ExecutedTo
  <2>2. PICK i \in 1 .. n : New(m)[i].kind = "donedl"
    BY <1>11 DEF Asked, n
  <2>3. e + i \in 1 .. K /\ e + i > e /\ clientCommands[e + i].kind = "donedl"
    BY <1>1, <2>2
  <2>4. ~ Told(sc, clientCommands)
    BY <2>3 DEF Told, e, K
  <2>5. /\ OnlyVids(e + i, clientCommands)
        /\ \A j \in 1 .. Len(up) : up[j].commands >= e + i => ~ up[j].moves
    BY <2>3, <2>4 DEF Good, Downloading, e, K
  <2>6. m.commands >= e + i
    BY <1>1, <2>2
  <2>7. ~ m.moves
    BY <1>1, <2>5, <2>6
  <2>8. x.lastClientCommand >= e + i /\ x.lastClientCommand \in Nat
    BY <1>1, <1>7, <1>8, <2>3, <2>6
  <2>9. OnlyVids(x.lastClientCommand, clientCommands)
    BY <2>3, <2>5, <2>8 DEF OnlyVids
  <2>10. QED
    BY <2>1, <2>4, <2>7, <2>9
<1>12. x.lastClientCommand <= K
  BY <1>1, <1>7, <1>8
<1>13. QED
  BY <1>7, <1>8, <1>10, <1>11, <1>12 DEF m, x, e, K

-----------------------------------------------------------------------------
(* The server's view of the client changes *)

\* What has to be so for the server to take the client to be in s2.
Allowed(v, s, s2, T, U, c, C) ==
    /\ s2 \in ScRecord
    /\ s2.reliableAcknowledge <= c.serverCommandSequence
    /\ s.lastClientCommand <= s2.lastClientCommand /\ s2.lastClientCommand <= Len(C)
    /\ s2.state = "ACTIVE" =>
          /\ HasMap(v, c) /\ (v.pure => s2.pureReceived)
          /\ c.state \notin {"CONNECTED", "LOADING"} /\ PairedAfter(s2.lastClientCommand, U, C)
    /\ s2.state = "ACTIVE" \/ (s2.downloading /\ s2.state # "CONNECTED") =>
          HasMap(v, c) /\ ChecksumsOfMap(s2.lastClientCommand, v, C)
    /\ s2.downloading /\ s2.state # "CONNECTED" =>
          \A i \in 1 .. Len(U) : U[i].serverId >= v.restartedServerId
    /\ s.downloading /\ ~ s2.downloading => c.download # "server" /\ Told(s2, C)
    /\ s2.downloading => NoGamestateIn(T)

\* The invariant holds with the server's new view.
LEMMA ServerSees ==
    ASSUME NEW v, NEW s, NEW D, NEW T, NEW U, NEW c, NEW C,
           Good(v, s, D, T, U, c, C), NEW s2, Allowed(v, s, s2, T, U, c, C)
    PROVE  Good(v, s2, D, T, U, c, C)
<1>1. /\ s.lastClientCommand \in Nat /\ s2.lastClientCommand \in Nat /\ Len(C) \in Nat
      /\ s.lastClientCommand <= s2.lastClientCommand /\ s2.lastClientCommand <= Len(C)
  BY DEF Good, Types, ScRecord, Allowed
<1>2. Told(s, C) => Told(s2, C)
  BY <1>1 DEF Told
<1>3. InOrder(s2, D, T, U, c)
  BY DEF Good, InOrder, Allowed
<1>4. Ids(v, s2, c, C)
  BY DEF Good, Ids, Allowed
<1>5. Checked(v, s2, U, c, C)
  BY DEF Good, Checked, Allowed
<1>6. OnTheWay(v, s2, D, T, U, c, C)
  <2> SUFFICES ASSUME NEW i \in 1 .. Len(T), T[i].kind = "gamestate"
               PROVE  Newer(T[i].gamestate, v, s2, D, c, C) /\ Alone(i, T) /\ Unknown(s2, U, c, C)
    BY DEF OnTheWay
  <2>1. Newer(T[i].gamestate, v, s, D, c, C) /\ Alone(i, T) /\ Unknown(s, U, c, C)
    BY DEF Good, OnTheWay
  <2>2. Newer(T[i].gamestate, v, s2, D, c, C)
    BY <1>1, <2>1 DEF Newer, OnlyVids
  <2>3. ~ s2.downloading
    BY DEF Allowed, NoGamestateIn
  <2>4. QED
    BY <1>2, <2>1, <2>2, <2>3 DEF Unknown
<1>7. Downloading(v, s2, T, U, c, C)
  <2>1. c.download = "server" => \A i \in 1 .. Len(T) : T[i].download => s2.downloading
    BY DEF Good, Downloading, Allowed
  <2>2. ASSUME ~ Told(s2, C)
        PROVE  /\ s2.downloading /\ Waits(c)
               /\ \A n \in 1 .. Len(C) : n > s2.lastClientCommand /\ C[n].kind = "donedl" =>
                     /\ OnlyVids(n, C)
                     /\ \A i \in 1 .. Len(U) : U[i].commands >= n => ~ U[i].moves
    BY <1>1, <1>2, <2>2 DEF Good, Downloading, Allowed
  <2>3. QED
    BY <2>1, <2>2 DEF Good, Downloading, Allowed
<1>8. QED
  BY <1>3, <1>4, <1>5, <1>6, <1>7 DEF Good, Types, Allowed

\* A message from another map, or from before the restart: its acknowledgement is taken.
LEMMA OnlyAcknowledges ==
    ASSUME NEW v, NEW s, NEW D, NEW T, NEW U, NEW c, NEW C,
           Good(v, s, D, T, U, c, C), U # << >>, NEW s2,
           s2 = [s EXCEPT !.reliableAcknowledge = Head(U).acknowledge]
    PROVE  Good(v, s2, D, T, Tail(U), c, C)
<1>1. Head(U) = U[1] /\ 1 \in 1 .. Len(U) /\ U[1] \in UpRecord
  BY TailIs DEF Good, Types
<1>2. Good(v, s, D, T, Tail(U), c, C)
  BY LosesUp
<1>3. s \in ScRecord /\ U[1].acknowledge \in Nat
  BY <1>1 DEF Good, Types, UpRecord
<1>4. /\ s2 \in ScRecord /\ s2.state = s.state /\ s2.lastClientCommand = s.lastClientCommand
      /\ s2.pureReceived = s.pureReceived /\ s2.downloading = s.downloading
      /\ s2.reliableAcknowledge = U[1].acknowledge
  BY <1>1, <1>3 DEF ScRecord
<1>5. Allowed(v, s, s2, T, Tail(U), c, C)
  <2>1. s2.reliableAcknowledge <= c.serverCommandSequence
    BY <1>1, <1>4 DEF Good, InOrder
  <2>2. s2.downloading => NoGamestateIn(T)
    BY <1>4 DEF Good, OnTheWay, Unknown, NoGamestateIn
  <2>3. s.lastClientCommand \in Nat
    BY <1>3 DEF ScRecord
  <2>4. s2.state = "ACTIVE" =>
           /\ HasMap(v, c) /\ (v.pure => s2.pureReceived)
           /\ c.state \notin {"CONNECTED", "LOADING"}
           /\ PairedAfter(s2.lastClientCommand, Tail(U), C)
    BY <1>2, <1>4 DEF Good, Ids, Checked
  <2>5. s2.state = "ACTIVE" \/ (s2.downloading /\ s2.state # "CONNECTED") =>
           HasMap(v, c) /\ ChecksumsOfMap(s2.lastClientCommand, v, C)
    BY <1>4 DEF Good, Ids, Checked, Downloading
  <2>6. QED
    BY <1>2, <1>4, <2>1, <2>2, <2>3, <2>4, <2>5 DEF Allowed, Good, Checked, Downloading
<1>6. QED
  BY <1>2, <1>5, ServerSees

\* It may lead to a gamestate, before which the client is taken to be primed.
LEMMA ServerPrimes ==
    ASSUME NEW v, NEW s, NEW D, NEW T, NEW U, NEW c, NEW C,
           Good(v, s, D, T, U, c, C), ~ s.downloading
    PROVE  Good(v, Primed(s), D, T, U, c, C)
<1> DEFINE s2 == Primed(s)
<1>1. s \in ScRecord
  BY DEF Good, Types
<1>2. /\ s2 \in ScRecord /\ s2.state = "PRIMED" /\ s2.lastClientCommand = s.lastClientCommand
      /\ s2.downloading = s.downloading /\ s2.reliableAcknowledge = s.reliableAcknowledge
  BY <1>1 DEF ScRecord, Primed
<1> HIDE DEF s2
<1>3. s.lastClientCommand \in Nat
  BY <1>1 DEF ScRecord
<1>4. Allowed(v, s, s2, T, U, c, C)
  BY <1>2, <1>3 DEF Allowed, Good, InOrder, Checked
<1>5. QED
  BY <1>4, ServerSees DEF s2

\* A message that is from the map, or comes while the client downloads, is executed.
LEMMA ServerExecutes ==
    ASSUME NEW D, NEW T, NEW c, Good(sv, sc, D, T, up, c, clientCommands), up # << >>,
           ~ Mismatch(Head(up))
    PROVE  LET m == Head(up)
               x == ExecuteCommands(m)
           IN  /\ Good(sv, x, D, T, Tail(up), c, clientCommands)
               /\ Asked(m) => MaySend(sv, x, T, c, clientCommands) /\ ~ m.moves
               /\ ~ Asked(m) => x.state = sc.state
               /\ ~ Asked(m) /\ x.state # "CONNECTED" =>
                     /\ HasMap(sv, c)
                     /\ ChecksumsOfMap(x.lastClientCommand, sv, clientCommands)
               /\ sv.pure /\ x.state = "ACTIVE" => x.pureReceived
               /\ ~ Asked(m) /\ x.state # "CONNECTED" /\ m.moves =>
                     /\ c.state \notin {"CONNECTED", "LOADING"}
                     /\ PairedAfter(x.lastClientCommand, Tail(up), clientCommands)
<1> DEFINE m == Head(up)
           x == ExecuteCommands(m)
           e == sc.lastClientCommand
           K == Len(clientCommands)
           r == sv.restartedServerId
<1>1. /\ e \in Nat /\ m.commands \in Nat /\ K \in Nat
      /\ e <= K /\ m.commands <= K /\ m \in UpRecord /\ m = up[1] /\ 1 \in 1 .. Len(up)
  BY NewIs
<1>2. /\ x \in ScRecord /\ x.reliableAcknowledge = m.acknowledge
      /\ x.lastClientCommand \in {e, m.commands}
      /\ x.lastClientCommand >= e
      /\ x.lastClientCommand >= m.commands
      /\ x.lastClientCommand <= K
      /\ ~ Asked(m) =>
            /\ x.state = sc.state
            /\ sc.downloading => x.downloading
            /\ x.downloading /\ ~ sc.downloading => ~ OnlyVids(e, clientCommands)
            /\ sv.pure /\ sc.state = "ACTIVE" => x.pureReceived
      /\ Asked(m) =>
            /\ x.state = "PRIMED" /\ ~ x.downloading
            /\ ~ Told(sc, clientCommands) /\ ~ m.moves
            /\ OnlyVids(x.lastClientCommand, clientCommands)
  BY CommandsExecuted
<1>3. Good(sv, sc, D, T, Tail(up), c, clientCommands)
  BY LosesUp
<1>4. /\ Tail(up) \in Seq(UpRecord)
      /\ \A i \in 1 .. Len(Tail(up)) : i + 1 \in 1 .. Len(up) /\ Tail(up)[i] = up[i + 1]
  BY TailIs DEF Good, Types
<1> HIDE DEF m, x, e, K, r
<1>5. {x.lastClientCommand, m.serverId, r, sv.serverId} \subseteq Nat /\ r <= sv.serverId
  <2>1. sv \in SvRecord /\ r <= sv.systemInfo /\ sv.systemInfo <= sv.serverId
    BY DEF Good, Types, StringsInOrder, r
  <2>2. {sv.serverId, sv.systemInfo, r} \subseteq Nat
    BY <2>1 DEF SvRecord, r
  <2>3. x.lastClientCommand \in Nat /\ m.serverId \in Nat
    BY <1>1, <1>2 DEF ScRecord, UpRecord
  <2>4. QED
    BY <2>1, <2>2, <2>3

\* Unless it downloads already, the client has the map.
<1>6. ASSUME ~ sc.downloading
      PROVE  /\ HasMap(sv, c)
             /\ \A i \in 1 .. Len(Tail(up)) : Tail(up)[i].serverId >= r
             /\ ChecksumsOfMap(m.commands, sv, clientCommands)
  <2>1. m.serverId = sv.serverId
    BY <1>6 DEF Mismatch, m
  <2>2. up[1].serverId >= r
    BY <1>1, <1>5, <2>1
  <2>3. HasMap(sv, c) /\ ChecksumsOfMap(m.commands, sv, clientCommands)
    BY <1>1, <2>2 DEF Good, UpIds, r
  <2>4. ASSUME NEW i \in 1 .. Len(Tail(up)) PROVE up[i + 1].serverId >= r
    <3>1. i + 1 \in 1 .. Len(up) /\ 1 < i + 1
      BY <1>4
    <3>2. QED
      BY <1>1, <2>2, <3>1 DEF Good, UpIds, r
  <2>5. QED
    BY <1>4, <2>3, <2>4

\* Checksums that are right for all commands after n are right for all after more.
<1>7. ASSUME NEW n \in Nat, n <= x.lastClientCommand, ChecksumsOfMap(n, sv, clientCommands)
      PROVE  ChecksumsOfMap(x.lastClientCommand, sv, clientCommands)
  BY <1>5, <1>7 DEF ChecksumsOfMap
<1>8. ASSUME ~ Asked(m), x.state # "CONNECTED"
      PROVE  HasMap(sv, c) /\ ChecksumsOfMap(x.lastClientCommand, sv, clientCommands)
  <2>1. CASE sc.downloading
    BY <1>1, <1>2, <1>7, <1>8, <2>1 DEF Good, Downloading, e
  <2>2. CASE ~ sc.downloading
    BY <1>1, <1>2, <1>6, <1>7, <2>2
  <2>3. QED
    BY <2>1, <2>2
<1>9. ASSUME ~ Asked(m), x.downloading PROVE NoGamestateIn(T)
  <2>1. CASE sc.downloading
    BY <2>1 DEF Good, OnTheWay, Unknown, NoGamestateIn
  <2>2. CASE ~ sc.downloading
    <3> SUFFICES ASSUME NEW i \in 1 .. Len(T), T[i].kind = "gamestate" PROVE FALSE
      BY DEF NoGamestateIn
    <3>1. Newer(T[i].gamestate, sv, sc, D, c, clientCommands)
      BY DEF Good, OnTheWay
    <3>2. c.gamestate.map <= T[i].gamestate.map /\ T[i].gamestate.map <= r
      BY <3>1 DEF Newer, Divides, r
    <3>3. c.gamestate.map = r
      BY <1>6, <2>2 DEF HasMap, r
    <3>4. T[i].gamestate.map \in Nat
      <4>1. T[i] \in DownRecord
        BY DEF Good, Types
      <4>2. QED
        BY <4>1 DEF DownRecord, GamestateRecord
    <3>5. OnlyVids(e, clientCommands)
      BY <1>5, <3>1, <3>2, <3>3, <3>4 DEF Newer, e
    <3>6. QED
      BY <1>2, <1>9, <2>2, <3>5
  <2>3. QED
    BY <2>1, <2>2
<1>10. Asked(m) => NoGamestateIn(T) /\ Waits(c) /\ ~ m.moves
  <2> SUFFICES ASSUME Asked(m) PROVE NoGamestateIn(T) /\ Waits(c) /\ ~ m.moves
    OBVIOUS
  <2>1. ~ Told(sc, clientCommands) /\ ~ m.moves
    BY <1>2
  <2>2. NoGamestateIn(T)
    BY <2>1 DEF Good, OnTheWay, Unknown, NoGamestateIn
  <2>3. Waits(c) /\ ~ m.moves
    BY <2>1 DEF Good, Downloading
  <2>4. QED
    BY <2>2, <2>3
<1>11. Told(x, clientCommands) \/ ~ Asked(m)
  BY <1>2 DEF Told, OnlyVids
<1>12. sv.pure /\ x.state = "ACTIVE" => x.pureReceived
  BY <1>2
<1>13. Allowed(sv, sc, x, T, Tail(up), c, clientCommands)
  <2>1. x.reliableAcknowledge <= c.serverCommandSequence
    BY <1>1, <1>2 DEF Good, InOrder
  <2>2. x.state = "ACTIVE" =>
           /\ c.state \notin {"CONNECTED", "LOADING"}
           /\ PairedAfter(x.lastClientCommand, Tail(up), clientCommands)
    <3> SUFFICES ASSUME x.state = "ACTIVE"
                 PROVE  /\ c.state \notin {"CONNECTED", "LOADING"}
                        /\ PairedAfter(x.lastClientCommand, Tail(up), clientCommands)
      OBVIOUS
    <3>1. sc.state = "ACTIVE"
      BY <1>2
    <3>2. HasMap(sv, c) /\ Checked(sv, sc, Tail(up), c, clientCommands)
      BY <1>3, <3>1 DEF Good, Ids
    <3>3. PairedAfter(e, Tail(up), clientCommands)
      BY <3>1, <3>2 DEF Checked, e
    <3>4. QED
      BY <1>1, <1>2, <1>5, <3>1, <3>2, <3>3 DEF Checked, PairedAfter
  <2>3. x.state = "ACTIVE" => ~ Asked(m)
    BY <1>2
  <2>4. x.downloading => ~ Asked(m)
    BY <1>2
  <2>5. x.downloading /\ x.state # "CONNECTED" => \A i \in 1 .. Len(Tail(up)) : Tail(up)[i].serverId >= r
    <3>1. CASE sc.downloading
      BY <1>2, <1>3, <2>4, <3>1 DEF Good, Downloading, r
    <3>2. CASE ~ sc.downloading
      BY <1>6, <3>2
    <3>3. QED
      BY <3>1, <3>2
  <2>6. sc.downloading /\ ~ x.downloading => c.download # "server" /\ Told(x, clientCommands)
    BY <1>2, <1>10, <1>11 DEF Waits
  <2>7. QED
    BY <1>2, <1>8, <1>9, <1>12, <2>1, <2>2, <2>3, <2>4, <2>5, <2>6 DEF Allowed, e, K, r
<1>14. Good(sv, x, D, T, Tail(up), c, clientCommands)
  BY <1>3, <1>13, ServerSees
<1>15. Asked(m) => MaySend(sv, x, T, c, clientCommands) /\ ~ m.moves
  BY <1>2, <1>10, <1>11 DEF MaySend

\* Moves come from a client in the game, after the checksums of its last vid_restart.
<1>16. ASSUME ~ Asked(m), x.state # "CONNECTED", m.moves
       PROVE  /\ c.state \notin {"CONNECTED", "LOADING"}
              /\ PairedAfter(x.lastClientCommand, Tail(up), clientCommands)
  <2>1. up[1].serverId >= r
    <3>1. CASE sc.downloading
      BY <1>1, <1>2, <1>16, <3>1 DEF Good, Downloading, r
    <3>2. CASE ~ sc.downloading
      BY <1>1, <1>5, <3>2 DEF Mismatch, m
    <3>3. QED
      BY <3>1, <3>2
  <2>2. HasMap(sv, c)
    BY <1>8, <1>16
  <2>3. PairedAfter(m.commands, up, clientCommands)
    BY <1>1, <1>16, <2>1 DEF Good, Checked, r
  <2>4. PairedAfter(x.lastClientCommand, up, clientCommands)
    BY <1>1, <1>2, <1>5, <2>3 DEF PairedAfter
  <2>5. PairedAfter(x.lastClientCommand, Tail(up), clientCommands)
    BY <1>4, <2>4 DEF PairedAfter, Paired
  <2>6. c.state \notin {"CONNECTED", "LOADING"}
    BY <1>1, <1>16, <2>1, <2>2 DEF Good, Checked, r
  <2>7. QED
    BY <2>5, <2>6
<1>17. QED
  BY <1>2, <1>8, <1>12, <1>14, <1>15, <1>16 DEF m, x

-----------------------------------------------------------------------------
(* The client receives *)

\* The greater of two numbers.
LEMMA MaxOfTwo ==
    ASSUME NEW a \in Nat, NEW b \in Nat
    PROVE  Max({a, b}) = IF a <= b THEN b ELSE a
<1>1. CASE a <= b
  <2>1. {a, b} \in SUBSET (0 .. b)
    BY <1>1
  <2>2. Max({a, b}) \in {a, b} /\ \A n \in {a, b} : n <= Max({a, b})
    BY <2>1, MaxProperties
  <2>3. QED
    BY <1>1, <2>2
<1>2. CASE ~ a <= b
  <2>1. {a, b} \in SUBSET (0 .. a)
    BY <1>2
  <2>2. Max({a, b}) \in {a, b} /\ \A n \in {a, b} : n <= Max({a, b})
    BY <2>1, MaxProperties
  <2>3. QED
    BY <1>2, <2>2
<1>3. QED
  BY <1>1, <1>2

\* What is known of the first message on the way.
LEMMA FirstIs ==
    ASSUME NEW v, NEW s, NEW D, NEW T, NEW U, NEW c, NEW C,
           Good(v, s, D, T, U, c, C), T # << >>
    PROVE  /\ 1 \in 1 .. Len(T) /\ Head(T) = T[1] /\ T[1] \in DownRecord
           /\ {T[1].first, T[1].last, c.serverCommandSequence, Len(D)} \subseteq Nat
           /\ T[1].first <= c.serverCommandSequence + 1
           /\ c.serverCommandSequence <= T[1].last /\ T[1].last <= Len(D)
           /\ Tail(T) \in Seq(DownRecord)
           /\ \A i \in 1 .. Len(Tail(T)) :
                 /\ i + 1 \in 1 .. Len(T) /\ Tail(T)[i] = T[i + 1]
                 /\ T[1].last <= T[i + 1].last
<1>1. /\ 1 \in 1 .. Len(T) /\ Head(T) = T[1] /\ T[1] \in DownRecord
      /\ Tail(T) \in Seq(DownRecord)
      /\ \A i \in 1 .. Len(Tail(T)) : i + 1 \in 1 .. Len(T) /\ Tail(T)[i] = T[i + 1]
  BY TailIs DEF Good, Types
<1>2. c \in ClientRecord /\ D \in Seq(ServerCommand)
  BY DEF Good, Types
<1>3. {T[1].first, T[1].last, c.serverCommandSequence, Len(D)} \subseteq Nat
  BY <1>1, <1>2 DEF DownRecord, ClientRecord
<1>4. Follows(T[1], D, c)
  BY <1>1 DEF Good, InOrder
<1>5. ASSUME NEW i \in 1 .. Len(Tail(T)) PROVE T[1].last <= T[i + 1].last
  <2>1. i + 1 \in 1 .. Len(T) /\ 1 < i + 1
    BY <1>1
  <2>2. QED
    BY <1>1, <2>1 DEF Good, InOrder
<1>6. QED
  BY <1>1, <1>3, <1>4, <1>5 DEF Follows

\* What the client has when it has parsed a message up to command "last": the messages
\* behind it follow.
LEMMA StillInOrder ==
    ASSUME NEW v, NEW s, NEW D, NEW T, NEW U, NEW c, NEW C,
           Good(v, s, D, T, U, c, C), T # << >>,
           NEW c2, c2.serverCommandSequence = T[1].last
    PROVE  InOrder(s, D, Tail(T), U, c2)
<1> DEFINE t == Tail(T)
           l == c.serverCommandSequence
           l2 == c2.serverCommandSequence
<1>1. /\ {T[1].last, l, Len(D)} \subseteq Nat
      /\ l <= l2 /\ l2 <= Len(D) /\ l2 = T[1].last
      /\ t \in Seq(DownRecord)
      /\ \A i \in 1 .. Len(t) :
            /\ i + 1 \in 1 .. Len(T) /\ t[i] = T[i + 1]
            /\ T[1].last <= T[i + 1].last
  BY FirstIs
<1> HIDE DEF t
<1>2. \A i \in 1 .. Len(t) : t[i] \in DownRecord
  BY <1>1
<1>3. ASSUME NEW i \in 1 .. Len(t) PROVE Follows(t[i], D, c2)
  <2>1. Follows(t[i], D, c)
    BY <1>1 DEF Good, InOrder
  <2>2. t[i].first \in Nat /\ t[i].last \in Nat
    BY <1>2 DEF DownRecord
  <2>3. /\ t[i].first <= c.serverCommandSequence + 1 /\ t[i].last <= Len(D)
        /\ t[i].kind = "gamestate" => t[i].gamestate.commands = t[i].last
    BY <2>1 DEF Follows
  <2>4. T[1].last <= t[i].last
    BY <1>1
  <2>5. t[i].first <= T[1].last + 1
    BY <1>1, <2>2, <2>3
  <2>6. QED
    BY <2>3, <2>4, <2>5 DEF Follows
<1>4. s.reliableAcknowledge \in Nat /\ \A i \in 1 .. Len(U) : U[i].acknowledge \in Nat
  <2>1. s \in ScRecord /\ \A i \in 1 .. Len(U) : U[i] \in UpRecord
    BY DEF Good, Types
  <2>2. QED
    BY <2>1 DEF ScRecord, UpRecord
<1>5. s.reliableAcknowledge <= l2 /\ \A i \in 1 .. Len(U) : U[i].acknowledge <= l2
  <2>1. s.reliableAcknowledge <= l /\ \A i \in 1 .. Len(U) : U[i].acknowledge <= l
    BY DEF Good, InOrder
  <2>2. QED
    BY <1>1, <1>4, <2>1
<1>6. Good(v, s, D, t, U, c, C)
  BY LosesDown DEF t
<1>7. \A i, j \in 1 .. Len(t) : i < j => t[i].last <= t[j].last
  BY <1>6 DEF Good, InOrder
<1>8. QED
  BY <1>1, <1>3, <1>5, <1>7 DEF InOrder, t

\* What the client is once it has parsed gamestate or snapshot m
GotGamestate(c2, c, m, state, download) ==
    c2 = [ParseGamestate(Stored(c, m), m.gamestate) EXCEPT
             !.later = m.later, !.state = state, !.download = download]

GotSnapshot(c2, c, m) == c2 = [ParseSnapshot(Stored(c, m)) EXCEPT !.later = m.later]

\* A gamestate is parsed: everything starts from it. If files are missing, and are to
\* come from the server, it is asked for them.
LEMMA ClientGetsGamestate ==
    ASSUME NEW v, NEW s, NEW T, NEW U, NEW c, NEW C,
           Good(v, s, commands, T, U, c, C), T # << >>, T[1].kind = "gamestate",
           NEW state, NEW download,
           \/ state = "LOADING" /\ download = "none"
           \/ state = "CONNECTED" /\ download \in {"http", "server"},
           NEW c2, GotGamestate(c2, c, T[1], state, download),
           NEW C2 \in Seq(ClientCommand), C2 = C \/ C2 = C \o Command("download")
    PROVE  Good(v, s, commands, Tail(T), U, c2, C2) /\ c.cs <= c2.cs /\ c2.cs <= v.cs
<1> DEFINE m == T[1]
           g == m.gamestate
           D == commands
           K == Len(C)
<1>1. /\ 1 \in 1 .. Len(T) /\ m \in DownRecord /\ g \in GamestateRecord
      /\ {m.last, c.serverCommandSequence, Len(D)} \subseteq Nat
      /\ c.serverCommandSequence <= m.last /\ m.last <= Len(D)
      /\ \A i \in 1 .. Len(Tail(T)) : i + 1 \in 1 .. Len(T) /\ Tail(T)[i] = T[i + 1]
  BY FirstIs DEF DownRecord
<1>2. /\ Newer(g, v, s, D, c, C) /\ Alone(1, T) /\ Unknown(s, U, c, C)
      /\ g.commands = m.last
  BY <1>1 DEF Good, OnTheWay, InOrder, Follows
<1>3. /\ Divides(g, v, D) /\ c.gamestate.map <= g.map /\ c.gamestate.cs <= g.cs
      /\ ~ m.later /\ NoGamestateIn(Tail(T))
      /\ \A i \in 1 .. Len(Tail(T)) : ~ Tail(T)[i].download
      /\ \A i \in 1 .. Len(U) : ~ U[i].later
      /\ ~ s.downloading /\ Told(s, C)
  <2>1. \A i \in 1 .. Len(Tail(T)) : i + 1 > 1 /\ i + 1 # 1
    BY <1>1
  <2>2. NoGamestateIn(Tail(T))
    BY <1>1, <1>2, <2>1 DEF Alone, NoGamestateIn
  <2>3. 1 \in 1 .. 1
    OBVIOUS
  <2>4. QED
    BY <1>1, <1>2, <2>1, <2>2, <2>3 DEF Newer, Alone, Unknown
<1>4. c \in ClientRecord /\ v \in SvRecord /\ C \in Seq(ClientCommand)
  BY DEF Good, Types
<1>5. /\ c2 \in ClientRecord /\ c2.gamestate = g /\ c2.serverId = g.serverId /\ c2.cs = g.cs
      /\ c2.bad = {n \in DOMAIN D : IsConfigString(D[n])}
      /\ c2.serverCommandSequence = g.commands /\ c2.snap = NoSnapshot
      /\ c2.lastExecuted = c.lastExecuted /\ c2.cgame = c.cgame
      /\ c2.later = m.later /\ c2.state = state /\ c2.download = download
  <2> DEFINE c1 == Stored(c, m)
             b1 == c1.bad
             s1 == c1.serverCommandSequence
             bad == {n \in DOMAIN D : IsConfigString(D[n])}
  <2>1. c1 = [c EXCEPT !.bad = b1, !.serverCommandSequence = s1]
    BY <1>4 DEF Stored, ClientRecord
  <2>2. bad \in SUBSET Nat
    BY DEF Good, Types
  <2>3. /\ {g.serverId, g.cs, g.commands} \subseteq Nat /\ m.later \in BOOLEAN
        /\ NoSnapshot \in [commands : Nat, active : BOOLEAN]
    BY <1>1 DEF GamestateRecord, DownRecord, NoSnapshot
  <2> HIDE DEF b1, s1, c1, bad
  <2>4. c2 = [c1 EXCEPT !.gamestate = g, !.serverId = g.serverId, !.cs = g.cs, !.bad = bad,
                        !.serverCommandSequence = g.commands, !.snap = NoSnapshot,
                        !.later = m.later, !.state = state, !.download = download]
    BY DEF ParseGamestate, c1, bad, GotGamestate, m, g
  <2>5. c2 = [c EXCEPT !.gamestate = g, !.serverId = g.serverId, !.cs = g.cs, !.bad = bad,
                       !.serverCommandSequence = g.commands, !.snap = NoSnapshot,
                       !.later = m.later, !.state = state, !.download = download]
    BY <1>4, <2>1, <2>4 DEF ClientRecord
  <2>6. QED
    BY <1>1, <1>4, <2>2, <2>3, <2>5 DEF ClientRecord, bad
<1>6. /\ {g.map, g.serverId, g.cs, g.commands, c.cs, c.cgame, c.lastExecuted,
          c.gamestate.map, c.gamestate.cs, c.gamestate.commands} \subseteq Nat
      /\ {v.serverId, v.restartedServerId, v.systemInfo, v.cs} \subseteq Nat
      /\ v.systemInfo <= v.serverId
  BY <1>1, <1>4 DEF GamestateRecord, ClientRecord, SvRecord, Good, StringsInOrder
<1>7. /\ K \in Nat /\ Len(C2) \in Nat /\ K <= Len(C2)
      /\ \A n \in 1 .. K : C2[n] = C[n]
      /\ \A n \in 1 .. Len(C2) : n > K => C2[n].kind = "download"
  <2>1. CASE C2 = C
    BY <1>4, <2>1
  <2>2. CASE C2 = C \o Command("download")
    <3> DEFINE cmd == [kind |-> "download", serverId |-> 0, map |-> 0]
    <3>1. cmd \in ClientCommand /\ Command("download") = <<cmd>> /\ cmd.kind = "download"
      BY DEF ClientCommand, Command
    <3> HIDE DEF cmd
    <3>2. C2 = Append(C, cmd)
      BY <1>4, <2>2, <3>1, OneMore
    <3>3. QED
      BY <1>4, <3>1, <3>2, AppendIs
  <2>3. QED
    BY <2>1, <2>2
<1> HIDE DEF m, g, D, K
<1>8. InOrder(s, D, Tail(T), U, c2)
  BY <1>2, <1>5, StillInOrder DEF D, m
<1>9. ClientStrings(v, D, c2)
  <2>1. c2.cgame <= c2.gamestate.commands
    BY <1>1, <1>2, <1>5, <1>6 DEF Good, ClientStrings
  <2>2. c2.cs = Latest(D, c2)
    <3>1. c2.gamestate.commands + 1 .. c2.cgame = {}
      BY <1>5, <1>6, <2>1
    <3>2. QED
      BY <1>5, <3>1 DEF Latest
  <2>3. \A n \in 1 .. Len(D) :
           /\ n <= c2.gamestate.commands /\ IsConfigString(D[n]) => n \in c2.bad
           /\ n > c2.gamestate.commands => ~ n <= c2.serverCommandSequence
    <3>1. DOMAIN D = 1 .. Len(D)
      BY DEF Good, Types, D
    <3>2. QED
      BY <1>5, <1>6, <3>1
  <2>4. c2.gamestate.commands <= c2.serverCommandSequence /\ c2.snap.commands <= c2.serverCommandSequence
    BY <1>5, <1>6 DEF NoSnapshot
  <2>5. c2.lastExecuted <= c2.cgame /\ ~ c2.cgame > c2.gamestate.commands
    BY <1>5, <1>6, <2>1 DEF Good, ClientStrings
  <2>6. c2.cgame <= c2.serverCommandSequence /\ c2.cs <= v.cs /\ Divides(c2.gamestate, v, D)
    BY <1>3, <1>5, <2>1 DEF Divides
  <2>7. QED
    BY <2>2, <2>3, <2>4, <2>5, <2>6 DEF ClientStrings
<1>10. HasMap(v, c) => HasMap(v, c2)
  BY <1>3, <1>5, <1>6 DEF HasMap, Divides
<1>11. /\ g.map <= g.serverId /\ g.serverId <= v.serverId
       /\ g.serverId >= v.restartedServerId => HasMap(v, c2)
  BY <1>3, <1>5, <1>6 DEF HasMap, Divides
<1>12. \A n \in 1 .. Len(C2) : C2[n].kind = "cp" => n \in 1 .. K /\ C2[n] = C[n]
  BY <1>7
<1>13. ASSUME NEW n, ChecksumsOfMap(n, v, C) PROVE ChecksumsOfMap(n, v, C2)
  BY <1>12, <1>13 DEF ChecksumsOfMap, K
<1>14. Told(s, C2)
  BY <1>3, <1>7 DEF Told, K
<1>15. Ids(v, s, c2, C2)
  BY <1>5, <1>10, <1>11, <1>12 DEF Good, Ids, K
<1>16. UpIds(v, U, c2, C2)
  BY <1>3, <1>10, <1>13 DEF Good, UpIds
<1>17. Checked(v, s, U, c2, C2)
  <2>1. s.lastClientCommand \in Nat /\ \A i \in 1 .. Len(U) : U[i].commands \in Nat
    <3>1. s \in ScRecord /\ \A i \in 1 .. Len(U) : U[i] \in UpRecord
      BY DEF Good, Types
    <3>2. QED
      BY <3>1 DEF ScRecord, UpRecord
  <2>2. \A n \in 1 .. Len(C2) : ~ (n > K /\ C2[n].kind = "vdr")
    BY <1>7
  <2>3. s.state = "ACTIVE" => ChecksumsOfMap(s.lastClientCommand, v, C2)
    BY <1>13 DEF Good, Checked
  <2>4. ASSUME HasMap(v, c2)
        PROVE  /\ s.state # "ACTIVE"
               /\ \A i \in 1 .. Len(U) : U[i].serverId >= v.restartedServerId => ~ U[i].moves
    <3>1. CASE HasMap(v, c)
      <4>1. c.gamestate.map = g.map
        BY <1>5, <2>4, <3>1 DEF HasMap
      <4>2. c.state = "CONNECTED"
        BY <1>2, <4>1 DEF Newer, Waits
      <4>3. QED
        BY <3>1, <4>2 DEF Good, Checked
    <3>2. CASE ~ HasMap(v, c)
      BY <3>2 DEF Good, Ids, UpIds
    <3>3. QED
      BY <3>1, <3>2
  <2>5. Checked(v, s, U, c, C)
    BY DEF Good
  <2>6. QED
    BY <1>7, <2>1, <2>2, <2>3, <2>4, <2>5, CheckedWithMore DEF K
<1>18. OnTheWay(v, s, D, Tail(T), U, c2, C2)
  BY <1>3 DEF OnTheWay, NoGamestateIn
<1>19. Downloading(v, s, Tail(T), U, c2, C2)
  BY <1>3, <1>5, <1>14 DEF Downloading
<1>20. c.cs <= c2.cs /\ c2.cs <= v.cs
  <2>1. c2.cs = g.cs /\ g.cs <= v.cs
    BY <1>3, <1>5 DEF Divides
  <2>2. c.cs <= g.cs
    <3>1. c.cs = Latest(D, c) /\ c.cgame <= c.serverCommandSequence
      BY DEF Good, ClientStrings, D
    <3>2. CASE Latest(D, c) = c.gamestate.cs
      BY <1>3, <3>1, <3>2
    <3>3. CASE \E n \in c.gamestate.commands + 1 .. c.cgame :
                  D[n].kind = "cs" /\ Latest(D, c) = D[n].value
      <4>1. PICK n \in c.gamestate.commands + 1 .. c.cgame :
                  D[n].kind = "cs" /\ Latest(D, c) = D[n].value
        BY <3>3
      <4>2. n \in 1 .. Len(D) /\ n <= g.commands
        <5>1. n \in Nat /\ 1 <= n /\ n <= c.cgame
          BY <1>6, <4>1
        <5>2. c.cgame <= g.commands /\ g.commands <= Len(D)
          BY <1>1, <1>2, <1>6, <3>1
        <5>3. {c.cgame, g.commands, Len(D)} \subseteq Nat
          BY <1>1, <1>6 DEF GamestateRecord
        <5>4. \A i, j, k, l \in Nat : i <= j /\ j <= k /\ k <= l => i <= k /\ i <= l
          OBVIOUS
        <5>5. n <= g.commands /\ n <= Len(D)
          BY <5>1, <5>2, <5>3, <5>4
        <5>6. QED
          BY <5>1, <5>3, <5>5
      <4>3. QED
        BY <1>3, <3>1, <4>1, <4>2 DEF Divides
    <3>4. QED
      BY <3>2, <3>3, LatestIs DEF Good, Types, D
  <2>3. QED
    BY <2>1, <2>2
<1>21. QED
  BY <1>5, <1>8, <1>9, <1>15, <1>16, <1>17, <1>18, <1>19, <1>20, FirstIs DEF Good, Types, D

\* A snapshot is parsed, and the commands that come with it are stored.
LEMMA ClientGetsSnapshot ==
    ASSUME NEW v, NEW s, NEW D, NEW T, NEW U, NEW c, NEW C,
           Good(v, s, D, T, U, c, C), T # << >>, Incoming = T[1],
           NEW c2, GotSnapshot(c2, c, T[1])
    PROVE  /\ Good(v, s, D, Tail(T), U, c2, C)
           /\ c2.cs = c.cs /\ c2.download = c.download
<1> DEFINE m == T[1]
           l == c.serverCommandSequence
           g == c.gamestate
           bad == c.bad \ (l + 1 .. m.last)
           state == IF c.state = "PRIMED" /\ m.active THEN "ACTIVE" ELSE c.state
           snap == [commands |-> m.last, active |-> m.active]
<1>1. /\ 1 \in 1 .. Len(T) /\ m \in DownRecord
      /\ {m.first, m.last, l, Len(D)} \subseteq Nat
      /\ m.first <= l + 1
      /\ l <= m.last /\ m.last <= Len(D)
      /\ Tail(T) \in Seq(DownRecord)
      /\ \A i \in 1 .. Len(Tail(T)) : i + 1 \in 1 .. Len(T) /\ Tail(T)[i] = T[i + 1]
  BY FirstIs
<1>2. c \in ClientRecord /\ D \in Seq(ServerCommand)
  BY DEF Good, Types
<1>3. Max({l + 1, m.first}) = l + 1 /\ Max({l, m.last}) = m.last
  <2>1. l + 1 \in Nat /\ (l + 1 <= m.first => m.first = l + 1)
    BY <1>1
  <2> HIDE DEF l, m
  <2>2. Max({l + 1, m.first}) = l + 1
    BY <1>1, <2>1, MaxOfTwo
  <2>3. Max({l, m.last}) = m.last
    BY <1>1, MaxOfTwo
  <2>4. QED
    BY <2>2, <2>3
<1>4. /\ c2 \in ClientRecord /\ c2.gamestate = g /\ c2.serverId = c.serverId /\ c2.cs = c.cs
      /\ c2.bad = bad /\ c2.serverCommandSequence = m.last /\ c2.snap = snap
      /\ c2.lastExecuted = c.lastExecuted /\ c2.cgame = c.cgame
      /\ c2.later = m.later /\ c2.state = state /\ c2.download = c.download
  <2>1. Stored(c, m) = [c EXCEPT !.bad = bad, !.serverCommandSequence = m.last]
    BY <1>3 DEF Stored
  <2>2. c2 = [c EXCEPT !.bad = bad, !.serverCommandSequence = m.last, !.snap = snap,
                       !.state = state, !.later = m.later]
    BY <1>2, <2>1 DEF ParseSnapshot, ClientRecord, GotSnapshot, m
  <2>3. bad \in SUBSET Nat /\ m.later \in BOOLEAN /\ snap \in [commands : Nat, active : BOOLEAN]
    BY <1>1, <1>2 DEF DownRecord, ClientRecord
  <2>4. state \in {"CONNECTED", "LOADING", "PRIMED", "ACTIVE"}
    BY <1>2 DEF ClientRecord
  <2> HIDE DEF bad, snap, state
  <2>5. QED
    BY <1>1, <1>2, <2>2, <2>3, <2>4 DEF ClientRecord
<1>5. {g.commands, c.cgame, c.snap.commands} \subseteq Nat
  BY <1>2 DEF ClientRecord, GamestateRecord
<1>6. /\ c2.state = "CONNECTED" <=> c.state = "CONNECTED"
      /\ c2.state \in {"CONNECTED", "LOADING"} => c2.state = c.state
  BY <1>4
<1> HIDE DEF m, l, g, state
<1>7. InOrder(s, D, Tail(T), U, c2)
  BY <1>4, StillInOrder DEF m
<1>8. ClientStrings(v, D, c2)
  <2>1. ClientStrings(v, D, c)
    BY DEF Good
  <2>2. \A n \in 1 .. Len(D) :
           /\ n <= g.commands /\ IsConfigString(D[n]) => n \in bad
           /\ n > g.commands /\ n <= m.last => n \notin bad
    <3> SUFFICES ASSUME NEW n \in 1 .. Len(D)
                 PROVE  /\ n <= g.commands /\ IsConfigString(D[n]) => n \in bad
                        /\ n > g.commands /\ n <= m.last => n \notin bad
      OBVIOUS
    <3>1. /\ n <= g.commands /\ IsConfigString(D[n]) => n \in c.bad
          /\ n > g.commands /\ n <= l => n \notin c.bad
          /\ g.commands <= l
      BY <2>1 DEF ClientStrings, g, l
    <3>2. n <= g.commands => ~ n \in l + 1 .. m.last
      BY <1>1, <1>5, <3>1
    <3>3. n <= m.last => n <= l \/ n \in l + 1 .. m.last
      BY <1>1
    <3>4. QED
      BY <3>1, <3>2, <3>3
  <2>3. Latest(D, c2) = Latest(D, c)
    <3>1. c2.gamestate = c.gamestate /\ c2.cgame = c.cgame
      BY <1>4 DEF g
    <3>2. QED
      BY <3>1, LatestDependsOn
  <2>4. /\ g.commands <= m.last /\ c.cgame <= m.last /\ snap.commands <= m.last
    BY <1>1, <1>5, <2>1 DEF ClientStrings, g, l
  <2> HIDE DEF bad, snap
  <2>5. QED
    BY <1>4, <2>1, <2>2, <2>3, <2>4 DEF ClientStrings, g
<1>9. Ids(v, s, c2, C)
  BY <1>4 DEF Good, Ids, HasMap, g
<1>10. UpIds(v, U, c2, C)
  BY <1>4 DEF Good, UpIds, HasMap, g
<1>11. Waits(c2) <=> Waits(c)
  BY <1>4, <1>6 DEF Waits
<1>12. Good(v, s, D, Tail(T), U, c, C)
  BY LosesDown
<1>13. OnTheWay(v, s, D, Tail(T), U, c2, C)
  <2> SUFFICES ASSUME NEW i \in 1 .. Len(Tail(T)), Tail(T)[i].kind = "gamestate"
               PROVE  /\ Newer(Tail(T)[i].gamestate, v, s, D, c2, C) /\ Alone(i, Tail(T))
                      /\ Unknown(s, U, c2, C)
    BY DEF OnTheWay
  <2>1. /\ Newer(Tail(T)[i].gamestate, v, s, D, c, C) /\ Alone(i, Tail(T))
        /\ Unknown(s, U, c, C)
    BY <1>12 DEF Good, OnTheWay
  <2>2. Newer(Tail(T)[i].gamestate, v, s, D, c2, C)
    BY <1>4, <1>11, <2>1 DEF Newer, g
  <2>3. ~ m.later
    <3>1. i + 1 \in 1 .. Len(T) /\ T[i + 1].kind = "gamestate" /\ 1 \in 1 .. i + 1
      BY <1>1
    <3>2. Alone(i + 1, T)
      BY <3>1 DEF Good, OnTheWay
    <3>3. QED
      BY <3>1, <3>2 DEF Alone, m
  <2>4. QED
    BY <1>4, <2>1, <2>2, <2>3 DEF Unknown
<1>14. Downloading(v, s, Tail(T), U, c2, C)
  BY <1>4, <1>6, <1>11, <1>12 DEF Good, Downloading, HasMap, g
<1>15. Checked(v, s, U, c2, C)
  BY <1>4, <1>6 DEF Good, Checked, HasMap, g
<1>16. QED
  BY <1>4, <1>7, <1>8, <1>9, <1>10, <1>12, <1>13, <1>14, <1>15 DEF Good, Types

\* The last block of the last file has come: the server is told, and asked for the
\* gamestate.
LEMMA ClientHasFiles ==
    ASSUME NEW v, NEW s, NEW D, NEW T, NEW U, NEW c, NEW C,
           Good(v, s, D, T, U, c, C), c.download = "server", s.downloading,
           NEW c2, c2 = [c EXCEPT !.download = "none"]
    PROVE  Good(v, s, D, T, U, c2, C \o Command("donedl"))
<1> DEFINE cmd == [kind |-> "donedl", serverId |-> 0, map |-> 0]
           E == C \o Command("donedl")
           K == Len(C)
<1>1. /\ cmd \in ClientCommand /\ Command("donedl") = <<cmd>> /\ cmd.kind = "donedl"
      /\ C \in Seq(ClientCommand)
  BY DEF ClientCommand, Command, Good, Types
<1> HIDE DEF cmd
<1>2. E = Append(C, cmd)
  BY <1>1, OneMore
<1>3. /\ E \in Seq(ClientCommand) /\ Len(E) = K + 1 /\ K \in Nat /\ E[K + 1].kind = "donedl"
      /\ \A n \in 1 .. K : E[n] = C[n]
  BY <1>1, <1>2, AppendIs
<1>4. /\ c2 \in ClientRecord /\ c2.gamestate = c.gamestate /\ c2.serverId = c.serverId
      /\ c2.cs = c.cs /\ c2.bad = c.bad /\ c2.serverCommandSequence = c.serverCommandSequence
      /\ c2.snap = c.snap /\ c2.lastExecuted = c.lastExecuted /\ c2.cgame = c.cgame
      /\ c2.later = c.later /\ c2.state = c.state /\ c2.download = "none"
  BY DEF Good, Types, ClientRecord
<1>5. s \in ScRecord /\ s.lastClientCommand \in Nat
      /\ \A i \in 1 .. Len(U) : U[i].commands \in Nat
  <2>1. s \in ScRecord /\ \A i \in 1 .. Len(U) : U[i] \in UpRecord
    BY DEF Good, Types
  <2>2. QED
    BY <2>1 DEF ScRecord, UpRecord
<1> HIDE DEF E, K
<1>6. Told(s, C) /\ c.state = "CONNECTED"
  BY DEF Good, Downloading, Waits
<1>7. NoGamestateIn(T)
  BY DEF Good, OnTheWay, Unknown, NoGamestateIn
<1>8. \A n \in 1 .. Len(E) : n \in 1 .. K \/ n = K + 1
  BY <1>3
<1>9. \A n \in 1 .. Len(E) : E[n].kind \in {"cp", "vdr"} => n \in 1 .. K /\ E[n] = C[n]
  BY <1>3, <1>8
<1>10. ASSUME NEW n, ChecksumsOfMap(n, v, C) PROVE ChecksumsOfMap(n, v, E)
  BY <1>9, <1>10 DEF ChecksumsOfMap, K
<1>11. InOrder(s, D, T, U, c2)
  <2>1. \A i \in 1 .. Len(T) : Follows(T[i], D, c2)
    BY <1>4 DEF Good, InOrder, Follows
  <2>2. QED
    BY <1>4, <2>1 DEF Good, InOrder
<1>12. ClientStrings(v, D, c2)
  BY <1>4 DEF Good, ClientStrings, Latest
<1>13. Ids(v, s, c2, E)
  BY <1>4, <1>9 DEF Good, Ids, HasMap, K
<1>14. UpIds(v, U, c2, E)
  BY <1>4, <1>10 DEF Good, UpIds, HasMap
<1>15. Checked(v, s, U, c2, E)
  <2>1. Checked(v, s, U, c, C)
    BY DEF Good
  <2>2. \A n \in 1 .. Len(E) : ~ (n > K /\ E[n].kind = "vdr")
    BY <1>3, <1>9
  <2>3. s.state = "ACTIVE" => ChecksumsOfMap(s.lastClientCommand, v, E)
    BY <1>10, <2>1 DEF Checked
  <2>4. c2.state \in {"CONNECTED", "LOADING"} /\ HasMap(v, c2) =>
           /\ s.state # "ACTIVE"
           /\ \A i \in 1 .. Len(U) : U[i].serverId >= v.restartedServerId => ~ U[i].moves
    BY <1>4, <2>1 DEF Checked, HasMap
  <2>5. Len(E) \in Nat /\ K <= Len(E)
    BY <1>3
  <2>6. QED
    BY <1>3, <1>5, <2>1, <2>2, <2>3, <2>4, <2>5, CheckedWithMore DEF K
<1>16. OnTheWay(v, s, D, T, U, c2, E)
  BY <1>7 DEF OnTheWay, NoGamestateIn
<1>17. Downloading(v, s, T, U, c2, E)
  <2>1. Waits(c2)
    BY <1>4, <1>6 DEF Waits
  <2>2. ASSUME NEW n \in 1 .. Len(E), n > s.lastClientCommand, E[n].kind = "donedl"
        PROVE  n = Len(E)
    BY <1>3, <1>6, <1>8, <2>2 DEF Told, K
  <2>3. /\ OnlyVids(Len(E), E)
        /\ \A i \in 1 .. Len(U) : ~ U[i].commands >= Len(E)
    <3>1. \A i \in 1 .. Len(U) : U[i].commands <= K
      BY DEF Good, Checked, K
    <3>2. QED
      BY <1>3, <1>5, <3>1 DEF OnlyVids
  <2>4. s.state # "CONNECTED" =>
           /\ HasMap(v, c2)
           /\ \A i \in 1 .. Len(U) : U[i].serverId >= v.restartedServerId
           /\ ChecksumsOfMap(s.lastClientCommand, v, E)
    BY <1>4, <1>10 DEF Good, Downloading, HasMap
  <2>5. QED
    BY <1>4, <1>6, <2>1, <2>2, <2>3, <2>4 DEF Downloading
<1>18. QED
  BY <1>3, <1>4, <1>11, <1>12, <1>13, <1>14, <1>15, <1>16, <1>17 DEF Good, Types, E

\* The file from a web server has come.
LEMMA ClientGoesOn ==
    ASSUME NEW v, NEW s, NEW D, NEW T, NEW U, NEW c, NEW C,
           Good(v, s, D, T, U, c, C), c.download = "http",
           NEW c2, c2 = [c EXCEPT !.download = "none", !.state = "LOADING"]
    PROVE  Good(v, s, D, T, U, c2, C)
<1>1. /\ c2 \in ClientRecord /\ c2.gamestate = c.gamestate /\ c2.serverId = c.serverId
      /\ c2.cs = c.cs /\ c2.bad = c.bad /\ c2.serverCommandSequence = c.serverCommandSequence
      /\ c2.snap = c.snap /\ c2.lastExecuted = c.lastExecuted /\ c2.cgame = c.cgame
      /\ c2.later = c.later /\ c2.state = "LOADING" /\ c2.download = "none"
  BY DEF Good, Types, ClientRecord
<1>2. ~ Waits(c) /\ Told(s, C)
  BY DEF Good, Downloading, Waits
<1>3. InOrder(s, D, T, U, c2)
  <2>1. \A i \in 1 .. Len(T) : Follows(T[i], D, c2)
    BY <1>1 DEF Good, InOrder, Follows
  <2>2. QED
    BY <1>1, <2>1 DEF Good, InOrder
<1>4. ClientStrings(v, D, c2)
  BY <1>1 DEF Good, ClientStrings, Latest
<1>5. Ids(v, s, c2, C)
  BY <1>1 DEF Good, Ids, HasMap
<1>6. UpIds(v, U, c2, C)
  BY <1>1 DEF Good, UpIds, HasMap
<1>7. OnTheWay(v, s, D, T, U, c2, C)
  <2> SUFFICES ASSUME NEW i \in 1 .. Len(T), T[i].kind = "gamestate"
               PROVE  Newer(T[i].gamestate, v, s, D, c2, C) /\ Alone(i, T) /\ Unknown(s, U, c2, C)
    BY DEF OnTheWay
  <2>1. Newer(T[i].gamestate, v, s, D, c, C) /\ Alone(i, T) /\ Unknown(s, U, c, C)
    BY DEF Good, OnTheWay
  <2>2. QED
    BY <1>1, <1>2, <2>1 DEF Newer, Unknown
<1>8. Downloading(v, s, T, U, c2, C)
  BY <1>1, <1>2 DEF Good, Downloading, HasMap
<1>9. Checked(v, s, U, c2, C)
  <2>1. c.state = "CONNECTED"
    BY DEF Good, Downloading
  <2>2. QED
    BY <1>1, <2>1 DEF Good, Checked, HasMap
<1>10. QED
  BY <1>1, <1>3, <1>4, <1>5, <1>6, <1>7, <1>8, <1>9 DEF Good, Types

-----------------------------------------------------------------------------
(* The client loads, plays and sends *)

\* cgame is started, and the server is sent the checksums, perhaps after a vid_restart.
LEMMA ClientLoads ==
    ASSUME NEW v, NEW s, NEW D, NEW T, NEW U, NEW c, NEW C,
           Good(v, s, D, T, U, c, C), c.state # "CONNECTED",
           NEW c2, c2 = InitCGame(c),
           NEW E, E = C \o Checksums(c) \/ E = C \o (Command("vdr") \o Checksums(c))
    PROVE  Good(v, s, D, T, U, c2, E) /\ c2.cs = c.cs
<1> DEFINE cp == [kind |-> "cp", serverId |-> c.serverId, map |-> c.gamestate.map]
           vdr == [kind |-> "vdr", serverId |-> 0, map |-> 0]
           K == Len(C)
           r == v.restartedServerId
<1>1. /\ c \in ClientRecord /\ v \in SvRecord /\ s \in ScRecord /\ C \in Seq(ClientCommand)
      /\ c.gamestate \in GamestateRecord
      /\ \A i \in 1 .. Len(U) : U[i] \in UpRecord
  BY DEF Good, Types, ClientRecord
<1>2. /\ {c.serverId, c.gamestate.map, c.gamestate.commands, c.cgame, c.lastExecuted} \subseteq Nat
      /\ {v.serverId, r} \subseteq Nat
      /\ s.lastClientCommand \in Nat /\ \A i \in 1 .. Len(U) : U[i].commands \in Nat
  BY <1>1 DEF ClientRecord, GamestateRecord, SvRecord, ScRecord, UpRecord
<1>3. cp \in ClientCommand /\ vdr \in ClientCommand
  BY <1>2 DEF ClientCommand
<1>4. /\ cp.kind = "cp" /\ cp.serverId = c.serverId /\ cp.map = c.gamestate.map
      /\ vdr.kind = "vdr"
      /\ Checksums(c) = <<cp>> /\ Command("vdr") = <<vdr>>
  BY DEF Checksums, Command
<1> HIDE DEF cp, vdr, K, r
<1>5. /\ E \in Seq(ClientCommand) /\ K \in Nat /\ Len(E) \in Nat /\ K <= Len(E)
      /\ \A n \in 1 .. K : E[n] = C[n]
      /\ \A n \in 1 .. Len(E) : n > K =>
            \/ E[n] = cp
            \/ E[n] = vdr /\ n = K + 1 /\ n < Len(E) /\ E[n + 1] = cp
  <2>1. CASE E = C \o Checksums(c)
    <3>1. E = Append(C, cp)
      BY <1>1, <1>3, <1>4, <2>1, OneMore
    <3>2. E \in Seq(ClientCommand) /\ Len(E) = K + 1 /\ E[K + 1] = cp /\ \A n \in 1 .. K : E[n] = C[n]
      BY <1>1, <1>3, <3>1, AppendIs DEF K
    <3>3. K \in Nat /\ \A n \in 1 .. K + 1 : n > K => n = K + 1
      BY <1>1 DEF K
    <3>4. QED
      BY <3>2, <3>3
  <2>2. CASE E = C \o (Command("vdr") \o Checksums(c))
    <3> DEFINE F == Append(C, vdr)
    <3>1. F \in Seq(ClientCommand) /\ Len(F) = K + 1 /\ F[K + 1] = vdr /\ \A n \in 1 .. K : F[n] = C[n]
      BY <1>1, <1>3, AppendIs DEF K
    <3>2. K \in Nat
      BY <1>1 DEF K
    <3>3. E = Append(F, cp)
      <4>1. C \o (<<vdr>> \o <<cp>>) = (C \o <<vdr>>) \o <<cp>>
        BY <1>1, <1>3
      <4>2. QED
        BY <1>1, <1>3, <1>4, <2>2, <3>1, <4>1, OneMore
    <3> HIDE DEF F
    <3>4. /\ E \in Seq(ClientCommand) /\ Len(E) = (K + 1) + 1 /\ E[(K + 1) + 1] = cp
          /\ \A n \in 1 .. K + 1 : E[n] = F[n]
      BY <1>3, <3>1, <3>3, AppendIs
    <3>5. \A n \in 1 .. K : n \in 1 .. K + 1
      BY <3>2
    <3>6. E[K + 1] = vdr /\ \A n \in 1 .. K : E[n] = C[n]
      BY <3>1, <3>2, <3>4, <3>5
    <3>7. \A n \in 1 .. (K + 1) + 1 : n > K => n = K + 1 \/ n = (K + 1) + 1
      BY <3>2
    <3>8. QED
      BY <3>2, <3>4, <3>6, <3>7
  <2>3. QED
    BY <2>1, <2>2
<1>6. /\ c2 \in ClientRecord /\ c2.gamestate = c.gamestate /\ c2.serverId = c.serverId
      /\ c2.cs = c.cs /\ c2.bad = c.bad /\ c2.serverCommandSequence = c.serverCommandSequence
      /\ c2.snap = c.snap /\ c2.lastExecuted = c.lastExecuted /\ c2.cgame = c.lastExecuted
      /\ c2.later = c.later /\ c2.state \in {"PRIMED", "ACTIVE"} /\ c2.download = c.download
  BY <1>1 DEF InitCGame, ClientRecord
<1>7. ~ Waits(c) /\ Told(s, C) /\ c.download = "none"
  BY <1>1 DEF Good, Downloading, Waits, ClientRecord
<1>8. InOrder(s, D, T, U, c2)
  <2>1. \A i \in 1 .. Len(T) : Follows(T[i], D, c2)
    BY <1>6 DEF Good, InOrder, Follows
  <2>2. QED
    BY <1>6, <2>1 DEF Good, InOrder
<1>9. ClientStrings(v, D, c2)
  <2>1. ClientStrings(v, D, c)
    BY DEF Good
  <2>2. c2.cgame <= c.cgame /\ c2.cgame <= c.serverCommandSequence
    <3>1. c.serverCommandSequence \in Nat
      BY <1>1 DEF ClientRecord
    <3>2. QED
      BY <1>2, <1>6, <2>1, <3>1 DEF ClientStrings
  <2>3. Latest(D, c2) = Latest(D, c)
    <3>1. CASE c.cgame > c.gamestate.commands
      <4>1. c2.cgame = c.cgame
        BY <1>6, <2>1, <3>1 DEF ClientStrings
      <4>2. QED
        BY <1>6, <4>1 DEF Latest
    <3>2. CASE ~ c.cgame > c.gamestate.commands
      <4>1. /\ c.gamestate.commands + 1 .. c.cgame = {}
            /\ c2.gamestate.commands + 1 .. c2.cgame = {}
        BY <1>2, <1>6, <2>2, <3>2
      <4>2. QED
        BY <1>6, <4>1 DEF Latest
    <3>3. QED
      BY <3>1, <3>2
  <2>4. c2.lastExecuted <= c2.cgame
    BY <1>2, <1>6
  <2>5. QED
    BY <1>6, <2>1, <2>2, <2>3, <2>4 DEF ClientStrings
<1>10. /\ c.gamestate.map <= c.serverId /\ c.serverId <= v.serverId
       /\ c.serverId >= r => HasMap(v, c)
       /\ HasMap(v, c) => c.serverId >= r
  BY <1>2 DEF Good, Ids, HasMap, r
<1>11. \A n \in 1 .. Len(E) : n \in 1 .. K \/ n > K
  BY <1>5
<1>12. ASSUME NEW n, ChecksumsOfMap(n, v, C), HasMap(v, c) PROVE ChecksumsOfMap(n, v, E)
  <2> SUFFICES ASSUME NEW k \in 1 .. Len(E), k > n, E[k].kind = "cp" PROVE E[k].serverId >= r
    BY DEF ChecksumsOfMap, r
  <2>1. CASE k \in 1 .. K
    BY <1>5, <1>12, <2>1 DEF ChecksumsOfMap, K, r
  <2>2. CASE k > K
    BY <1>4, <1>5, <1>10, <1>12, <2>2
  <2>3. QED
    BY <1>11, <2>1, <2>2
<1>13. Told(s, E)
  BY <1>4, <1>5, <1>7, <1>11 DEF Told, K
<1>14. Ids(v, s, c2, E)
  <2>1. ASSUME NEW n \in 1 .. Len(E), E[n].kind = "cp"
        PROVE  /\ E[n].map <= E[n].serverId /\ E[n].serverId <= v.serverId
               /\ E[n].serverId >= r => E[n].map = r
    <3>1. CASE n \in 1 .. K
      BY <1>5, <2>1, <3>1 DEF Good, Ids, K, r
    <3>2. CASE n > K
      BY <1>4, <1>5, <1>10, <2>1, <3>2 DEF HasMap, r
    <3>3. QED
      BY <1>11, <3>1, <3>2
  <2>2. QED
    BY <1>6, <2>1 DEF Good, Ids, HasMap, r
<1>15. UpIds(v, U, c2, E)
  BY <1>6, <1>12 DEF Good, UpIds, HasMap
<1>16. Checked(v, s, U, c2, E)
  <2>1. Checked(v, s, U, c, C) /\ \A i \in 1 .. Len(U) : U[i].commands <= K
    BY DEF Good, Checked, K
  <2>2. ASSUME NEW n \in 1 .. Len(E), n > K, E[n].kind = "vdr" PROVE Paired(n, U, E)
    <3>1. n < Len(E) /\ E[n + 1] = cp
      BY <1>4, <1>5, <2>2
    <3>2. \A i \in 1 .. Len(U) : U[i].commands # n
      BY <1>2, <1>5, <2>1, <2>2
    <3>3. QED
      BY <1>4, <3>1, <3>2 DEF Paired
  <2>3. s.state = "ACTIVE" => ChecksumsOfMap(s.lastClientCommand, v, E)
    BY <1>12 DEF Good, Checked, Ids
  <2>4. c2.state \notin {"CONNECTED", "LOADING"}
    BY <1>6
  <2>5. QED
    BY <1>2, <1>5, <2>1, <2>2, <2>3, <2>4, CheckedWithMore DEF K
<1>17. OnTheWay(v, s, D, T, U, c2, E)
  <2> SUFFICES ASSUME NEW i \in 1 .. Len(T), T[i].kind = "gamestate"
               PROVE  Newer(T[i].gamestate, v, s, D, c2, E) /\ Alone(i, T) /\ Unknown(s, U, c2, E)
    BY DEF OnTheWay
  <2>1. Newer(T[i].gamestate, v, s, D, c, C) /\ Alone(i, T) /\ Unknown(s, U, c, C)
    BY DEF Good, OnTheWay
  <2>2. QED
    BY <1>6, <1>7, <1>13, <2>1 DEF Newer, Unknown
<1>18. Downloading(v, s, T, U, c2, E)
  BY <1>6, <1>7, <1>12, <1>13 DEF Good, Downloading, HasMap
<1>19. QED
  BY <1>5, <1>6, <1>8, <1>9, <1>14, <1>15, <1>16, <1>17, <1>18 DEF Good, Types

ShutDown(c) ==
    [c EXCEPT !.download = IF c.download = "http" THEN "cancelled" ELSE c.download]

\* A vid_restart before there is a cgame: the server is told, and a download from a web
\* server is cancelled.
LEMMA ClientShutsDown ==
    ASSUME NEW v, NEW s, NEW D, NEW T, NEW U, NEW c, NEW C,
           Good(v, s, D, T, U, c, C), c.state = "CONNECTED",
           NEW c2, c2 = ShutDown(c)
    PROVE  Good(v, s, D, T, U, c2, C \o Command("vdr")) /\ c2.cs = c.cs
<1> DEFINE E == C \o Command("vdr")
           cmd == [kind |-> "vdr", serverId |-> 0, map |-> 0]
           K == Len(C)
           download == IF c.download = "http" THEN "cancelled" ELSE c.download
<1>1. /\ cmd \in ClientCommand /\ Command("vdr") = <<cmd>> /\ cmd.kind = "vdr"
      /\ C \in Seq(ClientCommand)
  BY DEF ClientCommand, Command, Good, Types
<1> HIDE DEF cmd
<1>2. E = Append(C, cmd)
  BY <1>1, OneMore
<1>3. /\ E \in Seq(ClientCommand) /\ Len(E) = K + 1 /\ K \in Nat /\ E[K + 1].kind = "vdr"
      /\ \A n \in 1 .. K : E[n] = C[n]
  BY <1>1, <1>2, AppendIs
<1>4. /\ c2 \in ClientRecord /\ c2.gamestate = c.gamestate /\ c2.serverId = c.serverId
      /\ c2.cs = c.cs /\ c2.bad = c.bad /\ c2.serverCommandSequence = c.serverCommandSequence
      /\ c2.snap = c.snap /\ c2.lastExecuted = c.lastExecuted /\ c2.cgame = c.cgame
      /\ c2.later = c.later /\ c2.state = "CONNECTED" /\ c2.download = download
  BY DEF Good, Types, ClientRecord, ShutDown
<1>5. s \in ScRecord /\ s.lastClientCommand \in Nat
      /\ \A i \in 1 .. Len(U) : U[i].commands \in Nat /\ U[i].commands <= K
  <2>1. s \in ScRecord /\ \A i \in 1 .. Len(U) : U[i] \in UpRecord /\ U[i].commands <= K
    BY DEF Good, Types, Checked
  <2>2. QED
    BY <2>1 DEF ScRecord, UpRecord
<1> HIDE DEF E, K
<1>6. \A n \in 1 .. Len(E) : n \in 1 .. K \/ (n = K + 1 /\ E[n].kind = "vdr")
  BY <1>3
<1>7. \A n \in 1 .. Len(E) : E[n].kind # "vdr" => n \in 1 .. K /\ E[n] = C[n]
  BY <1>3, <1>6
<1>8. ASSUME NEW n, ChecksumsOfMap(n, v, C) PROVE ChecksumsOfMap(n, v, E)
  BY <1>7, <1>8 DEF ChecksumsOfMap, K
<1>9. ASSUME NEW n, OnlyVids(n, C) PROVE OnlyVids(n, E)
  BY <1>3, <1>6, <1>9 DEF OnlyVids, K
<1>10. Waits(c2) <=> Waits(c)
  BY <1>4 DEF Waits
<1>11. Told(s, E) <=> Told(s, C)
  <2>1. \A n \in 1 .. K : n \in 1 .. Len(E)
    BY <1>3
  <2>2. QED
    BY <1>3, <1>7, <2>1 DEF Told, K
<1>12. InOrder(s, D, T, U, c2)
  <2>1. \A i \in 1 .. Len(T) : Follows(T[i], D, c2)
    BY <1>4 DEF Good, InOrder, Follows
  <2>2. QED
    BY <1>4, <2>1 DEF Good, InOrder
<1>13. ClientStrings(v, D, c2)
  BY <1>4 DEF Good, ClientStrings, Latest
<1>14. Ids(v, s, c2, E)
  BY <1>4, <1>7 DEF Good, Ids, HasMap, K
<1>15. UpIds(v, U, c2, E)
  BY <1>4, <1>8 DEF Good, UpIds, HasMap

\* The server takes no client for one in the game that is not.
<1>16. /\ s.state # "ACTIVE"
       /\ \A i \in 1 .. Len(U) : U[i].serverId >= v.restartedServerId => ~ U[i].moves
  <2>1. CASE HasMap(v, c)
    BY <2>1 DEF Good, Checked
  <2>2. CASE ~ HasMap(v, c)
    BY <2>2 DEF Good, Ids, UpIds
  <2>3. QED
    BY <2>1, <2>2
<1>17. Checked(v, s, U, c2, E)
  <2>1. s.lastClientCommand <= K
    BY DEF Good, Checked, K
  <2>2. s.lastClientCommand <= Len(E) /\ \A i \in 1 .. Len(U) : U[i].commands <= Len(E)
    BY <1>3, <1>5, <2>1
  <2>3. QED
    BY <1>16, <2>2 DEF Checked
<1>18. OnTheWay(v, s, D, T, U, c2, E)
  <2> SUFFICES ASSUME NEW i \in 1 .. Len(T), T[i].kind = "gamestate"
               PROVE  Newer(T[i].gamestate, v, s, D, c2, E) /\ Alone(i, T) /\ Unknown(s, U, c2, E)
    BY DEF OnTheWay
  <2>1. Newer(T[i].gamestate, v, s, D, c, C) /\ Alone(i, T) /\ Unknown(s, U, c, C)
    BY DEF Good, OnTheWay
  <2>2. Newer(T[i].gamestate, v, s, D, c2, E)
    BY <1>4, <1>9, <1>10, <2>1 DEF Newer
  <2>3. Unknown(s, U, c2, E)
    BY <1>4, <1>11, <2>1 DEF Unknown
  <2>4. QED
    BY <2>1, <2>2, <2>3
<1>19. Downloading(v, s, T, U, c2, E)
  <2>1. ASSUME ~ Told(s, E)
        PROVE  /\ s.downloading /\ Waits(c2)
               /\ \A n \in 1 .. Len(E) : n > s.lastClientCommand /\ E[n].kind = "donedl" =>
                     /\ OnlyVids(n, E)
                     /\ \A i \in 1 .. Len(U) : U[i].commands >= n => ~ U[i].moves
    <3>1. /\ s.downloading /\ Waits(c)
          /\ \A n \in 1 .. K : n > s.lastClientCommand /\ C[n].kind = "donedl" =>
                /\ OnlyVids(n, C)
                /\ \A i \in 1 .. Len(U) : U[i].commands >= n => ~ U[i].moves
      BY <1>11, <2>1 DEF Good, Downloading, K
    <3>2. QED
      BY <1>7, <1>9, <1>10, <3>1
  <2>2. c2.download = "server" => c.download = "server"
    BY <1>4
  <2>3. s.downloading /\ s.state # "CONNECTED" =>
           /\ HasMap(v, c2)
           /\ \A i \in 1 .. Len(U) : U[i].serverId >= v.restartedServerId
           /\ ChecksumsOfMap(s.lastClientCommand, v, E)
    BY <1>4, <1>8 DEF Good, Downloading, HasMap
  <2>4. QED
    BY <1>4, <2>1, <2>2, <2>3 DEF Good, Downloading
<1>20. QED
  BY <1>3, <1>4, <1>12, <1>13, <1>14, <1>15, <1>17, <1>18, <1>19 DEF Good, Types, E

\* The client sends what it has.
LEMMA ClientSends ==
    ASSUME NEW v, NEW s, NEW D, NEW T, NEW U, NEW c, NEW C,
           Good(v, s, D, T, U, c, C),
           NEW m, m = [serverId |-> c.serverId, later |-> c.later,
                       acknowledge |-> c.serverCommandSequence, commands |-> Len(C),
                       moves |-> c.state \in {"PRIMED", "ACTIVE"}]
    PROVE  Good(v, s, D, T, Append(U, m), c, C)
<1> DEFINE u == Append(U, m)
           l == Len(U) + 1
           r == v.restartedServerId
<1>1. c \in ClientRecord /\ C \in Seq(ClientCommand) /\ U \in Seq(UpRecord) /\ v \in SvRecord
  BY DEF Good, Types
<1>2. m \in UpRecord
  BY <1>1 DEF ClientRecord, UpRecord
<1>3. /\ u \in Seq(UpRecord) /\ Len(u) = l /\ Len(U) \in Nat /\ u[l] = m
      /\ \A i \in 1 .. Len(U) : u[i] = U[i]
      /\ 1 .. l = (1 .. Len(U)) \cup {l} /\ l \in Nat /\ l \notin 1 .. Len(U)
  BY <1>1, <1>2, AppendIs
<1>4. /\ m.serverId = c.serverId /\ m.later = c.later
      /\ m.acknowledge = c.serverCommandSequence /\ m.commands = Len(C)
      /\ m.moves = (c.state \in {"PRIMED", "ACTIVE"})
  OBVIOUS
<1>5. {c.serverId, c.gamestate.map, r, v.serverId, c.serverCommandSequence, Len(C)} \subseteq Nat
  BY <1>1 DEF ClientRecord, GamestateRecord, SvRecord
<1> HIDE DEF u, l, r
<1>6. /\ c.serverId <= v.serverId
      /\ c.serverId >= r => HasMap(v, c)
      /\ HasMap(v, c) => c.serverId >= r
  BY <1>5 DEF Good, Ids, HasMap, r
<1>7. InOrder(s, D, T, u, c)
  BY <1>3, <1>4, <1>5 DEF Good, InOrder
<1>8. UpIds(v, u, c, C)
  <2>1. ChecksumsOfMap(m.commands, v, C)
    BY <1>4, <1>5 DEF ChecksumsOfMap
  <2>2. ASSUME NEW i \in 1 .. l
        PROVE  /\ u[i].serverId <= v.serverId
               /\ u[i].serverId >= r => HasMap(v, c) /\ ChecksumsOfMap(u[i].commands, v, C)
               /\ u[i].serverId < r /\ u[i].later => ~ HasMap(v, c)
    <3>1. CASE i \in 1 .. Len(U)
      BY <1>3, <3>1 DEF Good, UpIds, r
    <3>2. CASE i = l
      BY <1>3, <1>4, <1>5, <1>6, <2>1, <3>2
    <3>3. QED
      BY <1>3, <3>1, <3>2
  <2>3. ASSUME NEW i \in 1 .. l, NEW j \in 1 .. l, i < j, u[i].serverId >= r
        PROVE  u[j].serverId >= r
    <3>1. i \in 1 .. Len(U)
      BY <1>3, <2>3 DEF l
    <3>2. CASE j \in 1 .. Len(U)
      BY <1>3, <2>3, <3>1, <3>2 DEF Good, UpIds, r
    <3>3. CASE j = l
      BY <1>3, <1>4, <1>6, <2>3, <3>1, <3>3 DEF Good, UpIds, r
    <3>4. QED
      BY <1>3, <3>2, <3>3
  <2>4. QED
    BY <1>3, <2>2, <2>3 DEF UpIds, r
<1>9. Checked(v, s, u, c, C)
  <2>1. Checked(v, s, U, c, C)
    BY DEF Good
  <2>2. ASSUME NEW e, PairedAfter(e, U, C) PROVE PairedAfter(e, u, C)
    <3> SUFFICES ASSUME NEW n \in 1 .. Len(C), n > e, C[n].kind = "vdr" PROVE Paired(n, u, C)
      BY DEF PairedAfter
    <3>1. Paired(n, U, C)
      BY <2>2 DEF PairedAfter
    <3>2. m.commands # n
      BY <1>4, <1>5, <3>1 DEF Paired
    <3>3. QED
      BY <1>3, <3>1, <3>2 DEF Paired
  <2>3. PairedAfter(m.commands, u, C)
    BY <1>4, <1>5 DEF PairedAfter
  <2>4. ASSUME NEW i \in 1 .. l, u[i].moves, u[i].serverId >= r PROVE PairedAfter(u[i].commands, u, C)
    BY <1>3, <2>1, <2>2, <2>3, <2>4 DEF Checked, r
  <2>5. \A i \in 1 .. l : u[i].commands <= Len(C)
    <3>1. \A i \in 1 .. Len(U) : u[i].commands <= Len(C)
      BY <1>3, <2>1 DEF Checked
    <3>2. u[l].commands <= Len(C)
      BY <1>3, <1>4, <1>5
    <3>3. QED
      BY <1>3, <3>1, <3>2
  <2>6. c.state \in {"CONNECTED", "LOADING"} => ~ m.moves
    BY <1>4
  <2>7. c.state \in {"CONNECTED", "LOADING"} /\ HasMap(v, c) =>
           \A i \in 1 .. l : u[i].serverId >= r => ~ u[i].moves
    BY <1>3, <2>1, <2>6 DEF Checked, r
  <2>8. QED
    BY <1>3, <2>1, <2>2, <2>4, <2>5, <2>7 DEF Checked, r
<1>10. OnTheWay(v, s, D, T, u, c, C)
  BY <1>3, <1>4 DEF Good, OnTheWay, Unknown
<1>11. Downloading(v, s, T, u, c, C)
  <2>1. Waits(c) => ~ m.moves
    BY <1>4 DEF Waits
  <2>2. QED
    BY <1>3, <1>4, <1>6, <2>1 DEF Good, Downloading, r
<1>12. QED
  BY <1>3, <1>7, <1>8, <1>9, <1>10, <1>11 DEF Good, Types, u

\* The last command of a kind that cgame is given, if there is one.
LEMMA NewestIs ==
    ASSUME NEW kind, {client.cgame, client.snap.commands} \subseteq Nat
    PROVE  \/ /\ \A n \in ToExecute : commands[n].kind # kind
              /\ Newest(kind) = 0
           \/ \E q \in ToExecute :
                 /\ commands[q].kind = kind /\ Newest(kind) = commands[q].value
                 /\ \A n \in ToExecute : commands[n].kind = kind => n <= q
<1> DEFINE ns == {n \in ToExecute : commands[n].kind = kind}
<1>1. ns \in SUBSET (0 .. client.snap.commands)
  BY DEF ToExecute
<1>2. Newest(kind) = IF ns = {} THEN 0 ELSE commands[Max(ns)].value
  BY DEF Newest
<1>3. CASE ns = {}
  BY <1>2, <1>3
<1>4. CASE ns # {}
  <2>1. Max(ns) \in ns /\ \A n \in ns : n <= Max(ns)
    <3> HIDE DEF ns
    <3>1. QED
      BY <1>1, <1>4, MaxProperties
  <2>2. Newest(kind) = commands[Max(ns)].value
    BY <1>2, <1>4
  <2>3. QED
    BY <2>1, <2>2
<1>5. QED
  BY <1>3, <1>4

\* cgame executes the commands up to its snapshot's.
LEMMA ClientExecutes ==
    ASSUME NEW v, NEW s, NEW T, NEW U, NEW C,
           Good(v, s, commands, T, U, client, C), client.cgame < client.snap.commands,
           NEW c2, c2 = [client EXCEPT
              !.cgame        = client.snap.commands,
              !.lastExecuted = IF ToExecute = {} THEN @ ELSE Max(ToExecute),
              !.cs           = IF Newest("cs") = 0 THEN @ ELSE Newest("cs"),
              !.serverId     = IF Newest("systemInfo") = 0 THEN @ ELSE Newest("systemInfo")]
    PROVE  /\ Good(v, s, commands, T, U, c2, C)
           /\ client.cs <= c2.cs /\ c2.cs <= v.cs
<1> DEFINE D == commands
           P == client.snap.commands
           g == client.gamestate
           G == g.commands
           last == IF ToExecute = {} THEN client.lastExecuted ELSE Max(ToExecute)
           cs == IF Newest("cs") = 0 THEN client.cs ELSE Newest("cs")
           id == IF Newest("systemInfo") = 0 THEN client.serverId ELSE Newest("systemInfo")
<1>1. /\ client \in ClientRecord /\ v \in SvRecord /\ D \in Seq(ServerCommand)
      /\ ClientStrings(v, D, client) /\ InOrder(s, D, T, U, client) /\ StringsInOrder(v, D)
  BY DEF Good, Types
<1>2. /\ {P, G, client.cgame, client.lastExecuted, client.cs, client.serverId, g.map, g.serverId,
          g.cs, client.serverCommandSequence, Len(D)} \subseteq Nat
      /\ {v.serverId, v.restartedServerId, v.systemInfo, v.cs} \subseteq Nat
      /\ \A n \in 1 .. Len(D) : D[n].value \in Nat
  <2>1. \A n \in 1 .. Len(D) : D[n] \in ServerCommand
    BY <1>1
  <2>2. QED
    BY <1>1, <2>1 DEF ClientRecord, GamestateRecord, SvRecord, ServerCommand
<1>3. P <= client.serverCommandSequence /\ client.serverCommandSequence <= Len(D)
  BY <1>1 DEF ClientStrings, InOrder
<1>4. client.cgame < P
  OBVIOUS
<1> HIDE DEF D, P, g, G, last, cs, id
<1>5. ToExecute = {n \in client.cgame + 1 .. P : n \notin client.bad}
  BY DEF ToExecute, P

\* No config string from before the gamestate is executed, everything after it is.
<1>6. ASSUME NEW n \in ToExecute
      PROVE  /\ n \in 1 .. Len(D) /\ client.cgame < n /\ n <= P
             /\ IsConfigString(D[n]) => n > G
  <2>1. n \in Nat /\ client.cgame < n /\ n <= P /\ n \notin client.bad
    BY <1>2, <1>5
  <2>2. n \in 1 .. Len(D)
    BY <1>2, <1>3, <2>1
  <2>3. n <= G /\ IsConfigString(D[n]) => n \in client.bad
    BY <1>1, <2>2 DEF ClientStrings, G, g
  <2>4. QED
    BY <1>2, <2>1, <2>2, <2>3
<1>7. ASSUME NEW n \in Nat, n > G, n > client.cgame, n <= P
      PROVE  n \in ToExecute
  <2>1. n \in 1 .. Len(D) /\ n <= client.serverCommandSequence
    BY <1>2, <1>3, <1>7
  <2>2. n \notin client.bad
    BY <1>1, <1>7, <2>1 DEF ClientStrings, G, g
  <2>3. QED
    BY <1>2, <1>5, <1>7, <2>2
<1>8. last \in Nat /\ last <= P /\ (P > G => last = P)
  <2>1. CASE ToExecute = {}
    <3>1. last = client.lastExecuted /\ client.lastExecuted <= client.cgame
      BY <1>1, <2>1 DEF last, ClientStrings
    <3>2. ~ P > G
      BY <1>2, <1>4, <1>7, <2>1
    <3>3. QED
      BY <1>2, <1>4, <3>1, <3>2
  <2>2. CASE ToExecute # {}
    <3>1. ToExecute \in SUBSET (0 .. P)
      BY <1>2, <1>5
    <3>2. last \in ToExecute /\ \A n \in ToExecute : n <= last
      BY <1>2, <2>2, <3>1, MaxProperties DEF last
    <3>3. last \in Nat /\ last <= P
      BY <1>2, <3>1, <3>2
    <3>4. P > G => P <= last
      BY <1>2, <1>4, <1>7, <3>2
    <3>5. QED
      BY <1>2, <3>3, <3>4
  <2>3. QED
    BY <2>1, <2>2
<1>9. /\ id \in Nat /\ g.map <= id /\ id <= v.serverId
      /\ id >= v.restartedServerId => HasMap(v, client)
  <2>1. /\ g.map <= client.serverId /\ client.serverId <= v.serverId
        /\ client.serverId >= v.restartedServerId => HasMap(v, client)
        /\ v.serverId > v.restartedServerId => HasMap(v, client)
    BY DEF Good, Ids, g
  <2>2. CASE Newest("systemInfo") = 0
    BY <1>2, <2>1, <2>2 DEF id
  <2>3. CASE Newest("systemInfo") # 0
    <3>1. PICK q \in ToExecute : D[q].kind = "systemInfo" /\ Newest("systemInfo") = D[q].value
      BY <1>2, <2>3, NewestIs DEF D, P
    <3>2. q \in 1 .. Len(D) /\ q > G
      BY <1>6, <3>1 DEF IsConfigString
    <3>3. g.serverId <= D[q].value /\ g.map <= g.serverId
      BY <1>1, <3>1, <3>2 DEF ClientStrings, Divides, G, g
    <3>4. /\ D[q].value <= v.systemInfo /\ v.systemInfo <= v.serverId
          /\ D[q].value >= v.restartedServerId => v.serverId > v.restartedServerId
      BY <1>1, <3>1, <3>2 DEF StringsInOrder
    <3>5. id = D[q].value /\ D[q].value \in Nat
      BY <1>2, <2>3, <3>1, <3>2 DEF id
    <3>6. QED
      BY <1>2, <2>1, <3>3, <3>4, <3>5
  <2>4. QED
    BY <2>2, <2>3

\* Either no config string is executed, or the last is q.
<1>10. \/ cs = client.cs /\ \A n \in ToExecute : D[n].kind # "cs"
       \/ \E q \in ToExecute :
             /\ D[q].kind = "cs" /\ cs = D[q].value
             /\ \A n \in ToExecute : D[n].kind = "cs" => n <= q
  <2>1. CASE (\A n \in ToExecute : D[n].kind # "cs") /\ Newest("cs") = 0
    BY <2>1 DEF cs
  <2>2. CASE \E q \in ToExecute :
                /\ D[q].kind = "cs" /\ Newest("cs") = D[q].value
                /\ \A n \in ToExecute : D[n].kind = "cs" => n <= q
    <3>1. PICK q \in ToExecute :
                /\ D[q].kind = "cs" /\ Newest("cs") = D[q].value
                /\ \A n \in ToExecute : D[n].kind = "cs" => n <= q
      BY <2>2
    <3>2. q \in 1 .. Len(D)
      BY <1>6
    <3>3. 1 <= D[q].value /\ D[q].value \in Nat
      BY <1>1, <1>2, <3>1, <3>2 DEF StringsInOrder
    <3>4. cs = D[q].value
      BY <3>1, <3>3 DEF cs
    <3>5. QED
      BY <3>1, <3>4
  <2>3. QED
    BY <1>2, <2>1, <2>2, NewestIs DEF D, P
<1>11. cs \in Nat
  BY <1>2, <1>6, <1>10
<1>12. /\ c2 \in ClientRecord /\ c2.gamestate = g /\ c2.serverId = id
       /\ c2.cs = cs /\ c2.bad = client.bad
       /\ c2.serverCommandSequence = client.serverCommandSequence
       /\ c2.snap = client.snap /\ c2.lastExecuted = last /\ c2.cgame = P
       /\ c2.later = client.later /\ c2.state = client.state /\ c2.download = client.download
  <2>1. c2 = [client EXCEPT !.cgame = P, !.lastExecuted = last, !.cs = cs, !.serverId = id]
    BY DEF P, last, cs, id
  <2>2. QED
    BY <1>1, <1>2, <1>8, <1>9, <1>11, <2>1 DEF ClientRecord, g
<1>13. /\ \A n \in G + 1 .. client.cgame : n \in 1 .. Len(D)
       /\ \A n \in G + 1 .. P : n \in 1 .. Len(D) /\ (n > client.cgame => n \in ToExecute)
       /\ \A n \in G + 1 .. P : ~ n > client.cgame => n \in G + 1 .. client.cgame
  <2>1. \A n \in G + 1 .. P : n \in 1 .. Len(D)
    BY <1>2, <1>3
  <2>2. \A n \in G + 1 .. P : n > client.cgame => n \in ToExecute
    BY <1>2, <1>7
  <2>3. \A n \in G + 1 .. client.cgame : n \in G + 1 .. P
    BY <1>2, <1>4
  <2>4. \A n \in G + 1 .. P : ~ n > client.cgame => n \in G + 1 .. client.cgame
    BY <1>2
  <2>5. QED
    BY <2>1, <2>2, <2>3, <2>4
<1>14. \/ /\ \A n \in G + 1 .. client.cgame : D[n].kind # "cs"
          /\ client.cs = g.cs
       \/ \E m \in G + 1 .. client.cgame :
             /\ D[m].kind = "cs" /\ \A n \in G + 1 .. client.cgame : D[n].kind = "cs" => n <= m
             /\ client.cs = D[m].value
  <2>1. client.cs = Latest(D, client)
    BY <1>1 DEF ClientStrings
  <2>2. QED
    BY <2>1, LatestIs DEF Good, Types, G, g, D
<1>15. \/ /\ \A n \in G + 1 .. P : D[n].kind # "cs"
          /\ Latest(D, c2) = g.cs
       \/ \E m \in G + 1 .. P :
             /\ D[m].kind = "cs" /\ \A n \in G + 1 .. P : D[n].kind = "cs" => n <= m
             /\ Latest(D, c2) = D[m].value
  <2>1. c2 \in ClientRecord
    BY <1>12
  <2>2. c2.gamestate.commands = G /\ c2.gamestate.cs = g.cs /\ c2.cgame = P
    BY <1>12 DEF G
  <2>3. \/ /\ \A n \in c2.gamestate.commands + 1 .. c2.cgame : D[n].kind # "cs"
           /\ Latest(D, c2) = c2.gamestate.cs
        \/ \E m \in c2.gamestate.commands + 1 .. c2.cgame :
              /\ D[m].kind = "cs"
              /\ \A n \in c2.gamestate.commands + 1 .. c2.cgame : D[n].kind = "cs" => n <= m
              /\ Latest(D, c2) = D[m].value
    BY <2>1, LatestIs
  <2>4. QED
    BY <2>2, <2>3
<1>16. cs = Latest(D, c2) /\ client.cs <= cs /\ cs <= v.cs
  <2>1. client.cs <= v.cs
    BY <1>1 DEF ClientStrings
  <2>2. CASE cs = client.cs /\ \A n \in ToExecute : D[n].kind # "cs"
    <3>1. \A n \in G + 1 .. P : D[n].kind = "cs" => n \in G + 1 .. client.cgame
      BY <1>13, <2>2
    <3>2. \A n \in G + 1 .. client.cgame : n \in G + 1 .. P
      BY <1>2, <1>4
    <3>3. client.cs = Latest(D, c2)
      <4>1. CASE \A n \in G + 1 .. client.cgame : D[n].kind # "cs"
        BY <1>14, <1>15, <3>1, <4>1
      <4>2. CASE ~ \A n \in G + 1 .. client.cgame : D[n].kind # "cs"
        <5>1. PICK m \in G + 1 .. client.cgame :
                 /\ D[m].kind = "cs" /\ \A n \in G + 1 .. client.cgame : D[n].kind = "cs" => n <= m
                 /\ client.cs = D[m].value
          BY <1>14, <4>2
        <5>2. PICK k \in G + 1 .. P :
                 /\ D[k].kind = "cs" /\ \A n \in G + 1 .. P : D[n].kind = "cs" => n <= k
                 /\ Latest(D, c2) = D[k].value
          BY <1>15, <3>2, <5>1
        <5>3. k <= m /\ m <= k
          BY <3>1, <3>2, <5>1, <5>2
        <5>4. k = m
          BY <1>2, <5>3
        <5>5. QED
          BY <5>1, <5>2, <5>4
      <4>3. QED
        BY <4>1, <4>2
    <3>4. QED
      BY <1>2, <2>1, <2>2, <3>3
  <2>3. CASE \E q \in ToExecute :
                /\ D[q].kind = "cs" /\ cs = D[q].value
                /\ \A n \in ToExecute : D[n].kind = "cs" => n <= q
    <3>1. PICK q \in ToExecute :
                /\ D[q].kind = "cs" /\ cs = D[q].value
                /\ \A n \in ToExecute : D[n].kind = "cs" => n <= q
      BY <2>3
    <3>2. q \in 1 .. Len(D) /\ client.cgame < q /\ q <= P /\ q > G /\ q \in G + 1 .. P
      <4>1. q \in 1 .. Len(D) /\ client.cgame < q /\ q <= P /\ q > G
        BY <1>6, <3>1 DEF IsConfigString
      <4>2. QED
        BY <1>2, <4>1
    <3>3. cs <= v.cs
      BY <1>1, <3>1, <3>2 DEF StringsInOrder
    <3>4. PICK k \in G + 1 .. P :
             /\ D[k].kind = "cs" /\ \A n \in G + 1 .. P : D[n].kind = "cs" => n <= k
             /\ Latest(D, c2) = D[k].value
      BY <1>15, <3>1, <3>2
    <3>5. k = q
      <4>1. q <= k
        BY <3>1, <3>2, <3>4
      <4>2. k > client.cgame
        BY <1>2, <3>2, <3>4, <4>1
      <4>3. k \in ToExecute
        BY <1>13, <3>4, <4>2
      <4>4. k <= q
        BY <3>1, <3>4, <4>3
      <4>5. QED
        BY <1>2, <3>2, <3>4, <4>1, <4>4
    <3>6. client.cs <= cs
      <4>1. CASE client.cs = g.cs
        BY <1>1, <3>1, <3>2, <4>1 DEF ClientStrings, Divides, g, G
      <4>2. CASE \E m \in G + 1 .. client.cgame : D[m].kind = "cs" /\ client.cs = D[m].value
        <5>1. PICK m \in G + 1 .. client.cgame : D[m].kind = "cs" /\ client.cs = D[m].value
          BY <4>2
        <5>2. m \in 1 .. Len(D) /\ m < q
          BY <1>2, <1>13, <3>2, <5>1
        <5>3. QED
          BY <1>1, <3>1, <3>2, <5>1, <5>2 DEF StringsInOrder
      <4>3. QED
        BY <1>14, <4>1, <4>2
    <3>7. QED
      BY <3>1, <3>3, <3>4, <3>5, <3>6
  <2>4. QED
    BY <1>10, <2>2, <2>3
<1>17. InOrder(s, D, T, U, c2)
  <2>1. \A i \in 1 .. Len(T) : Follows(T[i], D, c2)
    BY <1>1, <1>12 DEF InOrder, Follows
  <2>2. QED
    BY <1>1, <1>12, <2>1 DEF InOrder
<1>18. ClientStrings(v, D, c2)
  <2>1. c2.lastExecuted <= c2.cgame /\ c2.cgame <= c2.serverCommandSequence
    BY <1>3, <1>8, <1>12
  <2>2. c2.cgame > c2.gamestate.commands => c2.lastExecuted = c2.cgame
    BY <1>8, <1>12 DEF G
  <2>3. QED
    BY <1>1, <1>12, <1>16, <2>1, <2>2 DEF ClientStrings, g
<1>19. Ids(v, s, c2, C)
  <2>1. HasMap(v, c2) <=> HasMap(v, client)
    BY <1>12 DEF HasMap, g
  <2>2. QED
    BY <1>9, <1>12, <2>1 DEF Good, Ids
<1>20. UpIds(v, U, c2, C)
  BY <1>12 DEF Good, UpIds, HasMap, g
<1>21. OnTheWay(v, s, D, T, U, c2, C)
  <2> SUFFICES ASSUME NEW i \in 1 .. Len(T), T[i].kind = "gamestate"
               PROVE  Newer(T[i].gamestate, v, s, D, c2, C) /\ Alone(i, T) /\ Unknown(s, U, c2, C)
    BY DEF OnTheWay
  <2>1. Newer(T[i].gamestate, v, s, D, client, C) /\ Alone(i, T) /\ Unknown(s, U, client, C)
    BY DEF Good, OnTheWay, D
  <2>2. QED
    BY <1>12, <2>1 DEF Newer, Unknown, Waits, g
<1>22. Downloading(v, s, T, U, c2, C)
  BY <1>12 DEF Good, Downloading, HasMap, Waits, g
<1>23. Checked(v, s, U, c2, C)
  BY <1>12 DEF Good, Checked, HasMap, g
<1>24. QED
  BY <1>12, <1>16, <1>17, <1>18, <1>19, <1>20, <1>21, <1>22, <1>23 DEF Good, Types, D

-----------------------------------------------------------------------------
(* Each step keeps the invariant. Those of the client never set its config *)
(* string back.                                                            *)

\* What is sent has the form of a message.
LEMMA MessageIs ==
    ASSUME NEW kind \in {"gamestate", "snapshot"}, NEW s \in ScRecord,
           NEW g \in GamestateRecord, commands \in Seq(ServerCommand)
    PROVE  LET m == Message(kind, s, g)
           IN  /\ m \in DownRecord /\ m.kind = kind /\ m.gamestate = g
               /\ m.first = s.reliableAcknowledge + 1 /\ m.last = Len(commands)
               /\ m.download = s.downloading /\ m.later = (kind = "snapshot")
<1>1. /\ s.reliableAcknowledge + 1 \in Nat /\ Len(commands) \in Nat
      /\ s.downloading \in BOOLEAN
  BY DEF ScRecord
<1>2. QED
  BY <1>1 DEF Message, DownRecord

\* SV_Netchan_TransmitNextFragment sends the last fragment of a gamestate.
LEMMA TransmitNextFragmentKeeps ==
    ASSUME GameStateInv, TransmitNextFragment
    PROVE  GameStateInv'
<1>1. down' = Completed(down)
  <2>1. Completed(down).queue = << >>
    BY DEF Completed, GameStateInv, NetOK
  <2>2. QED
    BY <2>1 DEF TransmitNextFragment
<1>2. NetOK(down') /\ Good(sv, sc, commands, Messages(down'), up, client, clientCommands)
  BY <1>1, LastFragmentLeaves DEF GameStateInv, TransmitNextFragment
<1>3. QED
  BY <1>2 DEF GameStateInv, TransmitNextFragment

\* SV_SendClientMessages
LEMMA SendSnapshotKeeps ==
    ASSUME GameStateInv, SendSnapshot, "snapshot" \notin Large
    PROVE  GameStateInv'
<1> DEFINE m == Message("snapshot", sc, NoGamestate)
<1>1. NoGamestate \in GamestateRecord /\ sc \in ScRecord /\ commands \in Seq(ServerCommand)
  BY DEF NoGamestate, GamestateRecord, GameStateInv, Good, Types
<1>2. /\ m \in DownRecord /\ m.kind = "snapshot" /\ m.first = sc.reliableAcknowledge + 1
      /\ m.last = Len(commands) /\ m.download = sc.downloading
  BY <1>1, MessageIs
<1>3. down' \in Started(down, m) /\ down.fragmented = << >>
  BY DEF SendSnapshot
<1> HIDE DEF m
<1>4. NetOK(down') /\ Good(sv, sc, commands, Messages(down'), up, client, clientCommands)
  BY <1>2, <1>3, SendsSnapshot DEF GameStateInv
<1>5. QED
  BY <1>4 DEF GameStateInv, SendSnapshot

\* The commands after one more was added, or none.
LEMMA OneAdded ==
    ASSUME NEW D \in Seq(ServerCommand), NEW kind \in {"cs", "systemInfo", "map_restart"},
           NEW value \in Nat, NEW E,
           E = D \/ E = Append(D, [kind |-> kind, value |-> value])
    PROVE  /\ E \in Seq(ServerCommand) /\ Len(D) <= Len(E)
           /\ \A n \in 1 .. Len(D) : E[n] = D[n]
           /\ \A n \in 1 .. Len(E) : n > Len(D) =>
                 n = Len(D) + 1 /\ E[n].kind = kind /\ E[n].value = value
<1> DEFINE cmd == [kind |-> kind, value |-> value]
<1>1. cmd \in ServerCommand /\ cmd.kind = kind /\ cmd.value = value
  BY DEF ServerCommand
<1>2. Len(D) \in Nat
  OBVIOUS
<1>3. CASE E = D
  BY <1>2, <1>3
<1>4. CASE E = Append(D, cmd)
  <2> HIDE DEF cmd
  <2>1. /\ E \in Seq(ServerCommand) /\ Len(E) = Len(D) + 1 /\ E[Len(D) + 1] = cmd
        /\ \A i \in 1 .. Len(D) : E[i] = D[i]
    BY <1>1, <1>4, AppendIs
  <2>2. \A n \in 1 .. Len(E) : n > Len(D) => n = Len(D) + 1
    BY <1>2, <2>1
  <2>3. QED
    BY <1>1, <1>2, <2>1, <2>2
<1>5. QED
  BY <1>3, <1>4

\* The state of the level and the commands about it.
LEMMA LevelIs ==
    ASSUME GameStateInv
    PROVE  /\ sv \in SvRecord /\ commands \in Seq(ServerCommand)
           /\ {sv.serverId, sv.restartedServerId, sv.systemInfo, sv.cs} \subseteq Nat
           /\ sv.restartedServerId <= sv.systemInfo /\ sv.systemInfo <= sv.serverId
           /\ sc.state = "ACTIVE" \/ sv.serverId > sv.restartedServerId => HasMap(sv, client)
<1>1. sv \in SvRecord /\ commands \in Seq(ServerCommand)
  BY DEF GameStateInv, Good, Types
<1>2. {sv.serverId, sv.restartedServerId, sv.systemInfo, sv.cs} \subseteq Nat
  BY <1>1 DEF SvRecord
<1>3. QED
  BY <1>1, <1>2 DEF GameStateInv, Good, StringsInOrder, Ids

\* SV_SetConfigstring
LEMMA SetConfigstringKeeps ==
    ASSUME GameStateInv, SetConfigstring
    PROVE  GameStateInv'
<1>1. /\ sv \in SvRecord /\ commands \in Seq(ServerCommand)
      /\ {sv.serverId, sv.restartedServerId, sv.systemInfo, sv.cs} \subseteq Nat
      /\ sv.restartedServerId <= sv.systemInfo /\ sv.systemInfo <= sv.serverId
      /\ sv.serverId > sv.restartedServerId => HasMap(sv, client)
  BY LevelIs
<1>2. /\ commands' \in Seq(ServerCommand) /\ Len(commands) <= Len(commands')
      /\ \A n \in 1 .. Len(commands) : commands'[n] = commands[n]
      /\ \A n \in 1 .. Len(commands') : n > Len(commands) =>
            n = Len(commands) + 1 /\ commands'[n].kind = "cs" /\ commands'[n].value = sv.cs + 1
  <2>1. \/ commands' = commands
        \/ commands' = Append(commands, [kind |-> "cs", value |-> sv.cs + 1])
    BY DEF SetConfigstring, Broadcast
  <2>2. sv.cs + 1 \in Nat
    BY <1>1
  <2>3. QED
    BY <1>1, <2>1, <2>2, OneAdded
<1>3. /\ sv' \in SvRecord /\ sv'.cs = sv.cs + 1 /\ sv'.serverId = sv.serverId
      /\ sv'.restartedServerId = sv.restartedServerId /\ sv'.systemInfo = sv.systemInfo
      /\ sv'.pure = sv.pure
  BY <1>1 DEF SetConfigstring, SvRecord
<1>4. Announced(sv, sv', commands, commands')
  BY <1>1, <1>2, <1>3 DEF Announced
<1>5. Good(sv', sc, commands', Messages(down), up, client, clientCommands)
  BY <1>1, <1>2, <1>3, <1>4, LevelChanges DEF GameStateInv
<1>6. QED
  BY <1>5 DEF GameStateInv, SetConfigstring

\* SV_Frame announces the serverId of a map that has restarted.
LEMMA UpdateSystemInfoKeeps ==
    ASSUME GameStateInv, UpdateSystemInfo
    PROVE  GameStateInv'
<1>1. /\ sv \in SvRecord /\ commands \in Seq(ServerCommand)
      /\ {sv.serverId, sv.restartedServerId, sv.systemInfo, sv.cs} \subseteq Nat
      /\ sv.restartedServerId <= sv.systemInfo /\ sv.systemInfo <= sv.serverId
      /\ sv.serverId > sv.restartedServerId => HasMap(sv, client)
  BY LevelIs
<1>2. /\ commands' \in Seq(ServerCommand) /\ Len(commands) <= Len(commands')
      /\ \A n \in 1 .. Len(commands) : commands'[n] = commands[n]
      /\ \A n \in 1 .. Len(commands') : n > Len(commands) =>
            /\ n = Len(commands) + 1 /\ commands'[n].kind = "systemInfo"
            /\ commands'[n].value = sv.serverId
  <2>1. \/ commands' = commands
        \/ commands' = Append(commands, [kind |-> "systemInfo", value |-> sv.serverId])
    BY DEF UpdateSystemInfo, Broadcast
  <2>2. QED
    BY <1>1, <2>1, OneAdded
<1>3. /\ sv' \in SvRecord /\ sv'.cs = sv.cs /\ sv'.serverId = sv.serverId
      /\ sv'.restartedServerId = sv.restartedServerId /\ sv'.systemInfo = sv.serverId
      /\ sv'.pure = sv.pure /\ sv.systemInfo # sv.serverId
  BY <1>1 DEF UpdateSystemInfo, SvRecord
<1>4. Announced(sv, sv', commands, commands')
  BY <1>1, <1>2, <1>3 DEF Announced
<1>5. Good(sv', sc, commands', Messages(down), up, client, clientCommands)
  BY <1>1, <1>2, <1>3, <1>4, LevelChanges DEF GameStateInv
<1>6. QED
  BY <1>5 DEF GameStateInv, UpdateSystemInfo

\* SV_MapRestart_f, with the client in the map
LEMMA MapRestartKeeps ==
    ASSUME GameStateInv, MapRestart, EarlyRestarts = FALSE
    PROVE  GameStateInv'
<1>1. /\ sv \in SvRecord /\ commands \in Seq(ServerCommand)
      /\ {sv.serverId, sv.restartedServerId, sv.systemInfo, sv.cs} \subseteq Nat
      /\ sv.restartedServerId <= sv.systemInfo /\ sv.systemInfo <= sv.serverId
      /\ HasMap(sv, client)
  BY LevelIs DEF MapRestart
<1>2. /\ commands' \in Seq(ServerCommand) /\ Len(commands) <= Len(commands')
      /\ \A n \in 1 .. Len(commands) : commands'[n] = commands[n]
      /\ \A n \in 1 .. Len(commands') : n > Len(commands) =>
            n = Len(commands) + 1 /\ commands'[n].kind = "map_restart" /\ commands'[n].value = 0
  <2>1. commands' = Append(commands, [kind |-> "map_restart", value |-> 0])
    BY DEF MapRestart
  <2>2. QED
    BY <1>1, <2>1, OneAdded
<1>3. /\ sv' \in SvRecord /\ sv'.cs = sv.cs /\ sv'.serverId = sv.serverId + 1
      /\ sv'.restartedServerId = sv.restartedServerId /\ sv'.systemInfo = sv.systemInfo
      /\ sv'.pure = sv.pure
  BY <1>1 DEF MapRestart, SvRecord
<1>4. Announced(sv, sv', commands, commands')
  BY <1>1, <1>2, <1>3 DEF Announced
<1>5. Good(sv', sc, commands', Messages(down), up, client, clientCommands)
  BY <1>1, <1>2, <1>3, <1>4, LevelChanges DEF GameStateInv
<1>6. QED
  BY <1>5 DEF GameStateInv, MapRestart

\* SV_SpawnServer
LEMMA SpawnServerKeeps ==
    ASSUME GameStateInv, SpawnServer
    PROVE  GameStateInv'
<1>1. /\ sv' = [sv EXCEPT !.serverId = sv.serverId + 1, !.restartedServerId = sv.serverId + 1,
                          !.systemInfo = sv.serverId + 1, !.cs = @ + 1]
      /\ sc' = [sc EXCEPT !.state = "CONNECTED"]
  <2>1. sc.state # "DROPPED"
    BY DEF GameStateInv, Good, Types, ScRecord
  <2>2. QED
    BY <2>1 DEF SpawnServer
<1>2. Good(sv', sc', commands, Messages(down), up, client, clientCommands)
  BY <1>1, MapSpawns DEF GameStateInv
<1>3. QED
  BY <1>2 DEF GameStateInv, SpawnServer

-----------------------------------------------------------------------------
(* The server receives *)

\* SV_SendClientGameState sends what the client may get.
LEMMA SendClientGameStateKeeps ==
    ASSUME NetOK(down), NEW s \in ScRecord, NEW s2 \in ScRecord, NEW U,
           Good(sv, s2, commands, Messages(down), U, client, clientCommands),
           s2.reliableAcknowledge = s.reliableAcknowledge, s2.downloading = s.downloading,
           MaySend(sv, s2, Messages(down), client, clientCommands),
           SendClientGameState(s, U)
    PROVE  /\ NetOK(down')
           /\ Good(sv, s2, commands, Messages(down'), up', client', clientCommands)
<1> DEFINE p == Primed(s)
           m == Message("gamestate", p, Gamestate)
<1>1. /\ p \in ScRecord /\ p.reliableAcknowledge = s.reliableAcknowledge
      /\ p.downloading = s.downloading
  BY DEF ScRecord, Primed
<1>2. sv \in SvRecord /\ commands \in Seq(ServerCommand) /\ client \in ClientRecord
  BY DEF Good, Types
<1>3. Gamestate \in GamestateRecord
  BY <1>2 DEF Gamestate, GamestateRecord, SvRecord
<1> HIDE DEF p
<1>4. /\ m \in DownRecord /\ m.kind = "gamestate" /\ m.gamestate = Gamestate
      /\ m.first = p.reliableAcknowledge + 1
      /\ m.last = Len(commands) /\ m.download = p.downloading /\ m.later = FALSE
  BY <1>1, <1>2, <1>3, MessageIs
<1>5. /\ down' \in Transmitted([flight     |-> NotLater(down.flight),
                                fragmented |-> NotLater(down.fragmented),
                                queue      |-> down.queue], m)
      /\ up' = NotLater(U) /\ client' = [client EXCEPT !.later = FALSE]
  BY DEF SendClientGameState, p
<1> HIDE DEF m
<1>6. m.gamestate = [map |-> sv.restartedServerId, serverId |-> sv.systemInfo, cs |-> sv.cs,
                     commands |-> Len(commands)]
  BY <1>4 DEF Gamestate
<1>7. /\ NetOK(down')
      /\ Good(sv, s2, commands, Messages(down'), NotLater(U), [client EXCEPT !.later = FALSE],
              clientCommands)
  BY <1>1, <1>4, <1>5, <1>6, SendsGamestate
<1>8. QED
  BY <1>5, <1>7

\* A message with the serverId of another map is only taken for its acknowledgement,
\* or the client is sent the gamestate it has dropped.
LEMMA ReceiveMismatchKeeps ==
    ASSUME GameStateInv, ServerReceives, ReceiveMismatch(Head(up))
    PROVE  GameStateInv'
<1> DEFINE m == Head(up)
           s == Acknowledged(m)
           T == Messages(down)
           r == sv.restartedServerId
<1>1. /\ NetOK(down) /\ Good(sv, sc, commands, T, up, client, clientCommands) /\ up # << >>
      /\ sc \in ScRecord
  BY DEF GameStateInv, ServerReceives, Good, Types
<1>2. /\ sv' = sv /\ commands' = commands /\ clientCommands' = clientCommands
      /\ Mismatch(m)
      /\ IF DroppedGamestate(m)
         THEN sc' = Primed(s) /\ SendClientGameState(s, Received)
         ELSE sc' = s /\ up' = Received /\ down' = down /\ client' = client
  BY DEF ServerReceives, ReceiveMismatch
<1>3. m = up[1] /\ 1 \in 1 .. Len(up) /\ m \in UpRecord /\ Received = Tail(up)
  BY <1>1, TailIs DEF Good, Types, Received
<1>4. s = [sc EXCEPT !.reliableAcknowledge = Head(up).acknowledge]
  BY DEF Acknowledged
<1>5. /\ s \in ScRecord /\ s.state = sc.state /\ s.downloading = sc.downloading
      /\ s.lastClientCommand = sc.lastClientCommand
  BY <1>1, <1>3, <1>4 DEF ScRecord, UpRecord
<1> HIDE DEF m, s, T, r
<1>6. Good(sv, s, commands, T, Received, client, clientCommands)
  BY <1>1, <1>3, <1>4, OnlyAcknowledges
<1>7. CASE ~ DroppedGamestate(m)
  BY <1>1, <1>2, <1>6, <1>7 DEF GameStateInv, T
<1>8. CASE DroppedGamestate(m)
  <2> DEFINE s2 == Primed(s)
  <2>1. /\ s2 \in ScRecord /\ s2.reliableAcknowledge = s.reliableAcknowledge
        /\ s2.downloading = s.downloading /\ s2.lastClientCommand = s.lastClientCommand
        /\ s2.state = "PRIMED"
    BY <1>5 DEF ScRecord, Primed
  <2>2. ~ s.downloading
    BY <1>2, <1>5 DEF Mismatch
  <2>3. Good(sv, s2, commands, T, Received, client, clientCommands)
    BY <1>6, <2>2, ServerPrimes
  <2> HIDE DEF s2
  <2>4. NoGamestateIn(T)
    BY <1>1, <1>3, <1>8 DEF Good, OnTheWay, Unknown, NoGamestateIn, DroppedGamestate
  <2>5. Told(s2, clientCommands)
    BY <1>1, <1>5, <2>1, <2>2 DEF Good, Downloading, Told
  <2>6. ~ HasMap(sv, client)
    <3>1. {m.serverId, sv.serverId, r} \subseteq Nat
      BY <1>1, <1>3 DEF Good, Types, UpRecord, SvRecord, r
    <3>2. m.serverId # sv.serverId /\ m.serverId <= sv.serverId /\ m.later
      BY <1>1, <1>2, <1>3, <1>8 DEF Mismatch, DroppedGamestate, Good, UpIds
    <3>3. m.serverId < r
      BY <1>8, <3>1, <3>2 DEF DroppedGamestate, MissedRestart, r
    <3>4. QED
      BY <1>1, <1>3, <3>2, <3>3 DEF Good, UpIds, r
  <2>7. MaySend(sv, s2, T, client, clientCommands)
    BY <2>1, <2>2, <2>4, <2>5, <2>6 DEF MaySend
  <2>8. SendClientGameState(s, Received)
    BY <1>2, <1>8
  <2>9. /\ NetOK(down')
        /\ Good(sv, s2, commands, Messages(down'), up', client', clientCommands)
    BY <1>1, <1>5, <2>1, <2>3, <2>7, <2>8, SendClientGameStateKeeps DEF T
  <2>10. sc' = s2
    BY <1>2, <1>8 DEF s2
  <2>11. QED
    BY <1>2, <2>9, <2>10 DEF GameStateInv
<1>9. QED
  BY <1>7, <1>8

\* Any other is executed. The client enters the world with its move, and is sent the
\* gamestate if it asks for it.
LEMMA ReceiveMatchKeeps ==
    ASSUME GameStateInv, ServerReceives, ReceiveMatch(Head(up))
    PROVE  GameStateInv'
<1> DEFINE m == Head(up)
           x == ExecuteCommands(m)
           moved == IF m.moves /\ x.state # "DROPPED" THEN UserMove(x) ELSE x
           asked == \E i \in DOMAIN New(m) : New(m)[i].kind = "donedl"
           T == Messages(down)
<1>1. /\ NetOK(down) /\ Good(sv, sc, commands, T, up, client, clientCommands) /\ up # << >>
  BY DEF GameStateInv, ServerReceives
<1>2. /\ sv' = sv /\ commands' = commands /\ clientCommands' = clientCommands
      /\ ~ Mismatch(m) /\ sc' = moved
      /\ IF asked \/ (x.state = "ACTIVE" /\ moved.state = "PRIMED")
         THEN SendClientGameState(x, Received)
         ELSE up' = Received /\ down' = down /\ client' = client
  BY DEF ServerReceives, ReceiveMatch
<1>3. Received = Tail(up)
  BY DEF Received
<1>4. asked <=> Asked(m)
  <2>1. New(m) \in Seq(ClientCommand)
    <3>1. m.commands \in Nat /\ sc.lastClientCommand \in Nat /\ m.commands <= Len(clientCommands)
      BY <1>1, NewIs
    <3>2. clientCommands \in Seq(ClientCommand)
      BY <1>1 DEF Good, Types
    <3> HIDE DEF m
    <3>3. QED
      BY <3>1, <3>2 DEF New
  <2>2. QED
    BY <2>1 DEF Asked
<1> HIDE DEF asked
<1>5. /\ Good(sv, x, commands, T, Received, client, clientCommands)
      /\ Asked(m) => MaySend(sv, x, T, client, clientCommands) /\ ~ m.moves
      /\ ~ Asked(m) => x.state = sc.state
      /\ ~ Asked(m) /\ x.state # "CONNECTED" =>
            /\ HasMap(sv, client)
            /\ ChecksumsOfMap(x.lastClientCommand, sv, clientCommands)
      /\ sv.pure /\ x.state = "ACTIVE" => x.pureReceived
      /\ ~ Asked(m) /\ x.state # "CONNECTED" /\ m.moves =>
            /\ client.state \notin {"CONNECTED", "LOADING"}
            /\ PairedAfter(x.lastClientCommand, Received, clientCommands)
  BY <1>1, <1>2, <1>3, ServerExecutes
<1> HIDE DEF m, x, T
<1>6. x \in ScRecord
  BY <1>5 DEF Good, Types
<1>7. CASE Asked(m)
  <2>1. moved = x
    BY <1>5, <1>7
  <2>2. SendClientGameState(x, Received)
    BY <1>2, <1>4, <1>7
  <2>3. /\ NetOK(down')
        /\ Good(sv, x, commands, Messages(down'), up', client', clientCommands)
    BY <1>1, <1>5, <1>6, <1>7, <2>2, SendClientGameStateKeeps DEF T
  <2>4. QED
    BY <1>2, <2>1, <2>3 DEF GameStateInv
<1>8. CASE ~ Asked(m) /\ moved = x
  <2>1. up' = Received /\ down' = down /\ client' = client
    BY <1>2, <1>4, <1>8
  <2>2. QED
    BY <1>1, <1>2, <1>5, <1>8, <2>1 DEF GameStateInv, T
<1>9. CASE ~ Asked(m) /\ moved # x
  <2>1. moved = UserMove(x) /\ m.moves
    BY <1>9
  <2>2. /\ moved = [x EXCEPT !.state = "ACTIVE"] /\ x.state = "PRIMED"
        /\ sv.pure => x.pureReceived
    BY <1>5, <1>9, <2>1 DEF UserMove
  <2> HIDE DEF moved
  <2>3. /\ moved \in ScRecord /\ moved.state = "ACTIVE" /\ moved.downloading = x.downloading
        /\ moved.reliableAcknowledge = x.reliableAcknowledge
        /\ moved.lastClientCommand = x.lastClientCommand /\ moved.pureReceived = x.pureReceived
        /\ x.lastClientCommand \in Nat
    BY <1>6, <2>2 DEF ScRecord
  <2>4. up' = Received /\ down' = down /\ client' = client
    BY <1>2, <1>4, <1>9, <2>2
  <2>5. HasMap(sv, client) /\ ChecksumsOfMap(x.lastClientCommand, sv, clientCommands)
    BY <1>5, <1>9, <2>2
  <2>6. /\ x.reliableAcknowledge <= client.serverCommandSequence
        /\ x.lastClientCommand <= Len(clientCommands)
        /\ client.state \notin {"CONNECTED", "LOADING"}
        /\ PairedAfter(x.lastClientCommand, Received, clientCommands)
    BY <1>5, <1>9, <2>1, <2>2 DEF Good, InOrder, Checked
  <2>7. x.downloading =>
           \A i \in 1 .. Len(Received) : Received[i].serverId >= sv.restartedServerId
    BY <1>5, <2>2 DEF Good, Downloading
  <2>8. x.downloading => NoGamestateIn(T)
    BY <1>5 DEF Good, OnTheWay, Unknown, NoGamestateIn
  <2>9. Allowed(sv, x, moved, T, Received, client, clientCommands)
    BY <2>2, <2>3, <2>5, <2>6, <2>7, <2>8 DEF Allowed
  <2>10. Good(sv, moved, commands, T, Received, client, clientCommands)
    BY <1>5, <2>9, ServerSees
  <2>11. QED
    BY <1>1, <1>2, <2>4, <2>10 DEF GameStateInv, T
<1>10. QED
  BY <1>7, <1>8, <1>9

-----------------------------------------------------------------------------
(* The client receives *)

\* The message that arrives is the first of those on their way.
LEMMA ArrivesIs ==
    ASSUME GameStateInv, NEW kind, Arrives(kind)
    PROVE  /\ Messages(down) # << >> /\ Incoming = Messages(down)[1] /\ Incoming.kind = kind
           /\ NetOK(down') /\ Messages(down') = Tail(Messages(down))
           /\ sv' = sv /\ sc' = sc /\ commands' = commands /\ up' = up
           /\ Good(sv, sc, commands, Messages(down), up, client, clientCommands)
           /\ client \in ClientRecord /\ clientCommands \in Seq(ClientCommand)
           /\ client.cs \in Nat
<1>1. /\ NetOK(down) /\ Good(sv, sc, commands, Messages(down), up, client, clientCommands)
      /\ client \in ClientRecord /\ clientCommands \in Seq(ClientCommand)
      /\ Messages(down) \in Seq(DownRecord)
  BY DEF GameStateInv, Good, Types
<1>2. /\ down.flight # << >> /\ Incoming.kind = kind
      /\ down' = [down EXCEPT !.flight = Tail(@)]
      /\ sv' = sv /\ sc' = sc /\ commands' = commands /\ up' = up
  BY DEF Arrives
<1>3. /\ NetOK(down') /\ Messages(down) # << >>
      /\ Messages(down') = Tail(Messages(down)) /\ Head(down.flight) = Head(Messages(down))
  BY <1>1, <1>2, FirstLeaves
<1>4. Incoming = Messages(down)[1]
  BY <1>1, <1>3, TailIs DEF Incoming
<1>5. QED
  BY <1>1, <1>2, <1>3, <1>4 DEF ClientRecord

\* CL_ParseGamestate and CL_InitDownloads
LEMMA ReceiveGamestateKeeps ==
    ASSUME GameStateInv, ReceiveGamestate
    PROVE  GameStateInv' /\ client.cs <= client'.cs
<1> DEFINE T == Messages(down)
           parsed == ParseGamestate(Stored(client, T[1]), T[1].gamestate)
<1>1. Arrives("gamestate")
  BY DEF ReceiveGamestate
<1>2. /\ T # << >> /\ Incoming = T[1] /\ T[1].kind = "gamestate"
      /\ NetOK(down') /\ Messages(down') = Tail(T)
      /\ sv' = sv /\ sc' = sc /\ commands' = commands /\ up' = up
      /\ Good(sv, sc, commands, T, up, client, clientCommands)
      /\ clientCommands \in Seq(ClientCommand)
  BY <1>1, ArrivesIs
<1>3. Command("download") \in Seq(ClientCommand)
  BY DEF Command, ClientCommand
<1>4. WithGamestate = [parsed EXCEPT !.later = T[1].later]
  BY <1>2 DEF WithGamestate
<1>5. PICK state, download :
         /\ \/ state = "LOADING" /\ download = "none"
            \/ state = "CONNECTED" /\ download \in {"http", "server"}
         /\ client' = [WithGamestate EXCEPT !.state = state, !.download = download]
         /\ clientCommands' \in {clientCommands, clientCommands \o Command("download")}
  <2>1. CASE /\ client' = [WithGamestate EXCEPT !.state = "LOADING", !.download = "none"]
             /\ UNCHANGED <<clientCommands, events>>
    BY <2>1
  <2>2. ASSUME NEW d \in Downloads,
               client' = [WithGamestate EXCEPT !.state = "CONNECTED", !.download = d],
               AddCommands(IF d = "server" THEN Command("download") ELSE << >>)
        PROVE  /\ d \in {"http", "server"}
               /\ clientCommands' \in {clientCommands, clientCommands \o Command("download")}
    BY <1>2, <2>2, GameStateAssumption, NoMore DEF AddCommands
  <2>3. QED
    BY <2>1, <2>2 DEF ReceiveGamestate
<1> HIDE DEF parsed, T
<1>6. GotGamestate(client', client, T[1], state, download)
  BY <1>4, <1>5 DEF parsed, GotGamestate
<1>7. clientCommands' \in Seq(ClientCommand)
  <2>1. clientCommands \o Command("download") \in Seq(ClientCommand)
    BY <1>2, <1>3
  <2>2. QED
    BY <1>2, <1>5, <2>1
<1>8. /\ Good(sv, sc, commands, Tail(T), up, client', clientCommands')
      /\ client.cs <= client'.cs
  BY <1>2, <1>5, <1>6, <1>7, ClientGetsGamestate
<1>9. QED
  BY <1>2, <1>8 DEF GameStateInv

\* CL_ParseSnapshot
LEMMA ReceiveSnapshotKeeps ==
    ASSUME GameStateInv, ReceiveSnapshot
    PROVE  GameStateInv' /\ client.cs <= client'.cs
<1> DEFINE T == Messages(down)
<1>1. Arrives("snapshot") /\ client' = WithSnapshot /\ clientCommands' = clientCommands
  BY DEF ReceiveSnapshot
<1>2. /\ T # << >> /\ Incoming = T[1]
      /\ NetOK(down') /\ Messages(down') = Tail(T)
      /\ sv' = sv /\ sc' = sc /\ commands' = commands /\ up' = up
      /\ Good(sv, sc, commands, T, up, client, clientCommands)
      /\ client.cs \in Nat
  BY <1>1, ArrivesIs
<1>3. GotSnapshot(client', client, T[1])
  BY <1>1, <1>2 DEF WithSnapshot, GotSnapshot
<1> HIDE DEF T
<1>4. Good(sv, sc, commands, Tail(T), up, client', clientCommands) /\ client'.cs = client.cs
  BY <1>2, <1>3, ClientGetsSnapshot
<1>5. QED
  BY <1>1, <1>2, <1>4 DEF GameStateInv

\* CL_ParseDownload of the last block
LEMMA ReceiveLastBlockKeeps ==
    ASSUME GameStateInv, ReceiveLastBlock
    PROVE  GameStateInv' /\ client.cs <= client'.cs
<1> DEFINE T == Messages(down)
<1>1. /\ Arrives("snapshot") /\ client' = [WithSnapshot EXCEPT !.download = "none"]
      /\ clientCommands' = clientCommands \o Command("donedl")
      /\ Incoming.download /\ client.download = "server"
  BY DEF ReceiveLastBlock, AddCommands
<1>2. /\ T # << >> /\ Incoming = T[1]
      /\ NetOK(down') /\ Messages(down') = Tail(T)
      /\ sv' = sv /\ sc' = sc /\ commands' = commands /\ up' = up
      /\ Good(sv, sc, commands, T, up, client, clientCommands)
      /\ client.cs \in Nat
  BY <1>1, ArrivesIs
<1>3. GotSnapshot(WithSnapshot, client, T[1])
  BY <1>2 DEF WithSnapshot, GotSnapshot
<1>4. 1 \in 1 .. Len(T)
  BY <1>2, FirstIs
<1> HIDE DEF T
<1>5. /\ Good(sv, sc, commands, Tail(T), up, WithSnapshot, clientCommands)
      /\ WithSnapshot.cs = client.cs /\ WithSnapshot.download = client.download
  BY <1>2, <1>3, ClientGetsSnapshot
<1>6. sc.downloading
  BY <1>1, <1>2, <1>4 DEF Good, Downloading
<1>7. Good(sv, sc, commands, Tail(T), up, client', clientCommands')
  BY <1>1, <1>5, <1>6, ClientHasFiles
<1>8. client'.cs = client.cs
  BY <1>1, <1>5 DEF Good, Types, ClientRecord
<1>9. QED
  BY <1>2, <1>7, <1>8 DEF GameStateInv

\* CL_MapDownload_Continue
LEMMA DownloadDoneKeeps ==
    ASSUME GameStateInv, DownloadDone
    PROVE  GameStateInv' /\ client.cs <= client'.cs
<1>1. Good(sv, sc, commands, Messages(down), up, client', clientCommands)
  BY ClientGoesOn DEF GameStateInv, DownloadDone
<1>2. client'.cs = client.cs /\ client.cs \in Nat
  BY DEF GameStateInv, Good, Types, ClientRecord, DownloadDone
<1>3. QED
  BY <1>1, <1>2 DEF GameStateInv, DownloadDone

-----------------------------------------------------------------------------
(* The client loads, plays and sends *)

\* CL_InitCGame, at the end of a download or after vid_restart, and a vid_restart before
LEMMA LoadKeeps ==
    ASSUME GameStateInv, Load \/ VidRestart
    PROVE  GameStateInv' /\ client.cs <= client'.cs
<1> DEFINE Starts == /\ client.state # "CONNECTED" /\ client' = InitCGame(client)
                     /\ \/ clientCommands' = clientCommands \o Checksums(client)
                        \/ clientCommands' =
                              clientCommands \o (Command("vdr") \o Checksums(client))
           ShutsDown == /\ client.state = "CONNECTED"
                        /\ client' = [client EXCEPT !.download = DownloadAfterShutdown]
                        /\ clientCommands' = clientCommands \o Command("vdr")
<1>1. (Starts \/ ShutsDown) /\ UNCHANGED <<sv, sc, commands, down, up>>
  BY DEF Load, VidRestart, AddCommands
<1>2. /\ Good(sv, sc, commands, Messages(down), up, client', clientCommands')
      /\ client'.cs = client.cs
  <2>1. Good(sv, sc, commands, Messages(down), up, client, clientCommands)
    BY DEF GameStateInv
  <2>2. CASE Starts
    BY <2>1, <2>2, ClientLoads
  <2>3. CASE ShutsDown
    <3>1. /\ client.state = "CONNECTED"
          /\ client' = ShutDown(client)
          /\ clientCommands' = clientCommands \o Command("vdr")
      BY <2>3 DEF DownloadAfterShutdown, ShutDown
    <3>2. QED
      BY <2>1, <3>1, ClientShutsDown
  <2>4. QED
    BY <1>1, <2>2, <2>3
<1>3. client.cs \in Nat
  BY DEF GameStateInv, Good, Types, ClientRecord
<1>4. QED
  BY <1>1, <1>2, <1>3 DEF GameStateInv

\* CL_GetServerCommand, for the commands up to the snapshot's
LEMMA CGameExecutesKeeps ==
    ASSUME GameStateInv, CGameExecutes
    PROVE  GameStateInv' /\ client.cs <= client'.cs
<1>1. /\ Good(sv, sc, commands, Messages(down), up, client', clientCommands)
      /\ client.cs <= client'.cs
  BY ClientExecutes DEF GameStateInv, CGameExecutes
<1>2. QED
  BY <1>1 DEF GameStateInv, CGameExecutes

\* CL_WritePacket
LEMMA WritePacketKeeps ==
    ASSUME GameStateInv, WritePacket
    PROVE  GameStateInv'
<1> DEFINE m == [serverId |-> client.serverId, later |-> client.later,
                 acknowledge |-> client.serverCommandSequence,
                 commands |-> Len(clientCommands), moves |-> client.state \in {"PRIMED", "ACTIVE"}]
           T == Messages(down)
<1>1. up' = Sent(up, m) /\ Good(sv, sc, commands, T, up, client, clientCommands)
  BY DEF WritePacket, GameStateInv
<1>2. up \in Seq(UpRecord)
  BY <1>1 DEF Good, Types
<1>3. CASE Len(up) < MaxInFlight
  <2>1. up' = Append(up, m)
    BY <1>1, <1>3 DEF Sent
  <2>2. QED
    BY <1>1, <2>1, ClientSends DEF GameStateInv, WritePacket
<1>4. CASE ~ Len(up) < MaxInFlight
  <2>1. up # << >>
    BY <1>4, GameStateAssumption
  <2>2. up' = Append(Tail(up), m)
    BY <1>1, <1>4 DEF Sent
  <2>3. Good(sv, sc, commands, T, Tail(up), client, clientCommands)
    BY <1>1, <2>1, LosesUp
  <2>4. QED
    BY <2>2, <2>3, ClientSends DEF GameStateInv, WritePacket
<1>5. QED
  BY <1>3, <1>4

\* Messages are lost.
LEMMA LossKeeps ==
    ASSUME GameStateInv, LoseDown \/ LoseUp
    PROVE  GameStateInv'
<1>1. CASE LoseDown
  <2>1. /\ NetOK(down') /\ Messages(down) # << >> /\ Messages(down') = Tail(Messages(down))
    BY <1>1, FirstLeaves DEF LoseDown, GameStateInv
  <2>2. Good(sv, sc, commands, Messages(down'), up, client, clientCommands)
    BY <2>1, LosesDown DEF GameStateInv
  <2>3. QED
    BY <1>1, <2>1, <2>2 DEF LoseDown, GameStateInv
<1>2. CASE LoseUp
  BY <1>2, LosesUp DEF LoseUp, GameStateInv
<1>3. QED
  BY <1>1, <1>2

-----------------------------------------------------------------------------
(* The theorems *)

\* It holds when the client has connected.
LEMMA InitialGameState == Init => GameStateInv
<1> SUFFICES ASSUME Init PROVE GameStateInv
  OBVIOUS
<1>1. /\ sv.serverId = 1 /\ sv.restartedServerId = 1 /\ sv.systemInfo = 1 /\ sv.cs = 1
      /\ sv \in SvRecord
  BY GameStateAssumption DEF Init, SvRecord
<1>2. /\ sc.state = "CONNECTED" /\ sc.reliableAcknowledge = 0 /\ sc.lastClientCommand = 0
      /\ ~ sc.downloading /\ sc \in ScRecord
  BY DEF Init, ScRecord
<1>3. NoGamestate \in GamestateRecord /\ NoSnapshot \in [commands : Nat, active : BOOLEAN]
  BY DEF NoGamestate, NoSnapshot, GamestateRecord
<1>4. /\ client.state = "CONNECTED" /\ client.download = "none" /\ client.gamestate = NoGamestate
      /\ client.serverId = 0 /\ client.cs = 0 /\ client.serverCommandSequence = 0
      /\ client.lastExecuted = 0 /\ client.cgame = 0 /\ client.bad = {}
      /\ client.snap = NoSnapshot /\ client \in ClientRecord
  BY <1>3 DEF Init, ClientRecord
<1>5. commands = << >> /\ up = << >> /\ clientCommands = << >>
  BY DEF Init
<1>6. down.flight = << >> /\ down.fragmented = << >> /\ NetOK(down)
  BY DEF Init, NetOK
<1>7. Messages(down) = << >>
  BY <1>6, NoMore DEF Messages
<1>8. NoGamestate.map = 0 /\ NoGamestate.serverId = 0 /\ NoGamestate.cs = 0
      /\ NoGamestate.commands = 0 /\ NoSnapshot.commands = 0
  BY DEF NoGamestate, NoSnapshot
<1>9. /\ \A S : << >> \in Seq(S)
      /\ Len(<< >>) = 0 /\ 1 .. 0 = {} /\ 0 + 1 .. 0 = {}
  OBVIOUS
<1>10. Types(sv, sc, << >>, << >>, << >>, client, << >>)
  BY <1>1, <1>2, <1>4, <1>9 DEF Types
<1>11. InOrder(sc, << >>, << >>, << >>, client)
  BY <1>2, <1>4, <1>9 DEF InOrder
<1>12. StringsInOrder(sv, << >>)
  BY <1>1, <1>9 DEF StringsInOrder
<1>13. Latest(<< >>, client) = 0
  BY <1>4, <1>8, <1>9 DEF Latest
<1>14. ClientStrings(sv, << >>, client)
  BY <1>1, <1>4, <1>8, <1>9, <1>13 DEF ClientStrings, Divides
<1>15. Ids(sv, sc, client, << >>) /\ UpIds(sv, << >>, client, << >>)
  BY <1>1, <1>2, <1>4, <1>8, <1>9 DEF Ids, UpIds
<1>16. Checked(sv, sc, << >>, client, << >>)
  BY <1>2, <1>9 DEF Checked
<1>17. OnTheWay(sv, sc, << >>, << >>, << >>, client, << >>)
  BY <1>9 DEF OnTheWay
<1>18. Downloading(sv, sc, << >>, << >>, client, << >>)
  BY <1>2, <1>4, <1>9 DEF Downloading, Told
<1>19. QED
  BY <1>5, <1>6, <1>7, <1>10, <1>11, <1>12, <1>14, <1>15, <1>16, <1>17, <1>18
     DEF GameStateInv, Good

\* Every step keeps the invariant.
LEMMA EachStepKeeps ==
    ASSUME GameStateInv, Next, EarlyRestarts = FALSE, "snapshot" \notin Large
    PROVE  GameStateInv'
<1>1. CASE TransmitNextFragment
  BY <1>1, TransmitNextFragmentKeeps
<1>2. CASE SendSnapshot
  BY <1>2, SendSnapshotKeeps
<1>3. CASE SetConfigstring
  BY <1>3, SetConfigstringKeeps
<1>4. CASE UpdateSystemInfo
  BY <1>4, UpdateSystemInfoKeeps
<1>5. CASE SpawnServer
  BY <1>5, SpawnServerKeeps
<1>6. CASE MapRestart
  BY <1>6, MapRestartKeeps
<1>7. CASE ServerReceives
  <2>1. ReceiveMismatch(Head(up)) \/ ReceiveMatch(Head(up))
    BY <1>7 DEF ServerReceives
  <2>2. QED
    BY <1>7, <2>1, ReceiveMismatchKeeps, ReceiveMatchKeeps
<1>8. CASE ReceiveGamestate
  BY <1>8, ReceiveGamestateKeeps
<1>9. CASE ReceiveSnapshot
  BY <1>9, ReceiveSnapshotKeeps
<1>10. CASE ReceiveLastBlock
  BY <1>10, ReceiveLastBlockKeeps
<1>11. CASE DownloadDone
  BY <1>11, DownloadDoneKeeps
<1>12. CASE Load \/ VidRestart
  BY <1>12, LoadKeeps
<1>13. CASE CGameExecutes
  BY <1>13, CGameExecutesKeeps
<1>14. CASE WritePacket
  BY <1>14, WritePacketKeeps
<1>15. CASE LoseDown \/ LoseUp
  BY <1>15, LossKeeps
<1>16. QED
  BY <1>1, <1>2, <1>3, <1>4, <1>5, <1>6, <1>7, <1>8, <1>9, <1>10, <1>11, <1>12, <1>13,
     <1>14, <1>15 DEF Next

\* The inductive invariant: what the client has of a map, what is on its way to it and
\* what the server takes it to have fit together, as long as maps restart only with the
\* client in them and no snapshot needs fragments (SV_SendClientGameState,
\* SV_ExecuteClientMessage, CL_ParseGamestate, CL_InitDownloads).
THEOREM GameStateInvariant ==
    ASSUME EarlyRestarts = FALSE, "snapshot" \notin Large
    PROVE  Spec => []GameStateInv
<1>1. Init => GameStateInv
  BY InitialGameState
<1>2. GameStateInv /\ [Next]_vars => GameStateInv'
  <2>1. ASSUME GameStateInv, Next PROVE GameStateInv'
    BY <2>1, EachStepKeeps
  <2>2. ASSUME GameStateInv, UNCHANGED vars PROVE GameStateInv'
    BY <2>2 DEF vars, GameStateInv
  <2>3. QED
    BY <2>1, <2>2
<1>3. QED
  BY <1>1, <1>2, PTL DEF Spec

\* Every part of the state has its type, and no sequence number is ahead of what it
\* counts.
THEOREM GameStateTypes ==
    ASSUME EarlyRestarts = FALSE, "snapshot" \notin Large
    PROVE  Spec => []TypeOK
<1>1. GameStateInv => TypeOK
  <2> SUFFICES ASSUME GameStateInv PROVE TypeOK
    OBVIOUS
  <2>1. /\ sc \in ScRecord /\ client \in ClientRecord /\ Len(commands) \in Nat
        /\ Len(down.fragmented) <= 1
    BY DEF GameStateInv, Good, Types, NetOK
  <2>2. /\ sc.reliableAcknowledge <= client.serverCommandSequence
        /\ client.serverCommandSequence <= Len(commands)
        /\ client.lastExecuted <= client.cgame /\ client.cgame <= client.serverCommandSequence
        /\ client.snap.commands <= client.serverCommandSequence
    BY DEF GameStateInv, Good, InOrder, ClientStrings
  <2>3. {sc.reliableAcknowledge, client.serverCommandSequence, client.cgame,
         client.lastExecuted} \subseteq Nat
    BY <2>1 DEF ScRecord, ClientRecord
  <2>4. {sc.reliableAcknowledge, client.cgame, client.lastExecuted} \subseteq 0 .. Len(commands)
    BY <2>1, <2>2, <2>3
  <2>5. QED
    BY <2>1, <2>2, <2>4 DEF TypeOK, ScRecord, ClientRecord
<1>2. QED
  BY <1>1, GameStateInvariant, PTL

\* The config strings the client's game has are those of its gamestate and of the
\* changes since, in whatever order maps, changes, losses and restarts of the client
\* come (CL_ParseGamestate, CL_ParseCommandString, CL_GetServerCommand).
THEOREM StringsAgree ==
    ASSUME EarlyRestarts = FALSE, "snapshot" \notin Large
    PROVE  Spec => []ConfigStringsAgree
<1>1. GameStateInv => ConfigStringsAgree
  <2> SUFFICES ASSUME GameStateInv PROVE ConfigStringsAgree
    OBVIOUS
  <2> DEFINE range == client.gamestate.commands + 1 .. client.cgame
             ns == {n \in range : commands[n].kind = "cs"}
  <2>1. client.cs = Latest(commands, client)
    BY DEF GameStateInv, Good, ClientStrings
  <2>2. /\ Latest(commands, client) = IF ns = {} THEN client.gamestate.cs
                                      ELSE commands[Max(ns)].value
        /\ Since("cs") = IF ns = {} THEN 0 ELSE commands[Max(ns)].value
    BY DEF Latest, Since
  <2>3. ASSUME ns # {} PROVE commands[Max(ns)].value # 0
    <3>1. /\ {client.gamestate.commands, client.cgame, client.serverCommandSequence} \subseteq Nat
          /\ Len(commands) \in Nat
      BY DEF GameStateInv, Good, Types, ClientRecord, GamestateRecord
    <3>2. client.cgame <= Len(commands)
      <4>1. /\ client.cgame <= client.serverCommandSequence
            /\ client.serverCommandSequence <= Len(commands)
        BY DEF GameStateInv, Good, ClientStrings, InOrder
      <4>2. QED
        BY <3>1, <4>1
    <3>3. ns \in SUBSET (0 .. client.cgame)
      BY <3>1
    <3>4. Max(ns) \in ns
      <4> HIDE DEF ns
      <4>1. QED
        BY <2>3, <3>1, <3>3, MaxProperties
    <3>5. Max(ns) \in 1 .. Len(commands) /\ commands[Max(ns)].kind = "cs"
      BY <3>1, <3>2, <3>4
    <3>6. 1 <= commands[Max(ns)].value
      BY <3>5 DEF GameStateInv, Good, StringsInOrder
    <3>7. QED
      BY <3>6
  <2> HIDE DEF ns
  <2>4. QED
    BY <2>1, <2>2, <2>3 DEF ConfigStringsAgree
<1>2. QED
  BY <1>1, GameStateInvariant, PTL

\* The server never drops a client with the right files for its checksums: those of
\* another map come with an older serverId (SV_VerifyPaks_f).
THEOREM PureStays ==
    ASSUME EarlyRestarts = FALSE, "snapshot" \notin Large
    PROVE  Spec => []PureClientStays
<1>1. GameStateInv => PureClientStays
  BY DEF GameStateInv, Good, Types, ScRecord, PureClientStays
<1>2. QED
  BY <1>1, GameStateInvariant, PTL

\* Only a move makes the server put the client into the world.
LEMMA OnlyAMoveEnters ==
    ASSUME GameStateInv, GameStateInv', [Next]_vars,
           sc.state # "ACTIVE", sc'.state = "ACTIVE"
    PROVE  client.gamestate.map = sv.restartedServerId
<1>1. HasMap(sv', client')
  BY DEF GameStateInv, Good, Ids
<1>2. sc \in ScRecord /\ client \in ClientRecord
  BY DEF GameStateInv, Good, Types
<1>3. ServerReceives
  <2>1. sc' # sc
    OBVIOUS
  <2>2. ~ SpawnServer
    <3>1. SpawnServer => sc' = sc \/ sc' = [sc EXCEPT !.state = "CONNECTED"]
      BY DEF SpawnServer
    <3>2. QED
      BY <1>2, <2>1, <3>1 DEF ScRecord
  <2>3. QED
    BY <2>1, <2>2 DEF Next, vars, TransmitNextFragment, SendSnapshot, SetConfigstring,
       UpdateSystemInfo, MapRestart, ReceiveGamestate, ReceiveSnapshot, ReceiveLastBlock, Arrives,
       DownloadDone, Load, VidRestart, CGameExecutes, WritePacket, LoseDown, LoseUp
<1>4. sv' = sv /\ client'.gamestate = client.gamestate
  <2>1. sv' = sv /\ (client' = client \/ client' = [client EXCEPT !.later = FALSE])
    BY <1>3 DEF ServerReceives, ReceiveMismatch, ReceiveMatch, SendClientGameState
  <2>2. QED
    BY <1>2, <2>1 DEF ClientRecord
<1>5. QED
  BY <1>1, <1>4 DEF HasMap

\* A client enters the world with the map's own gamestate, not only with its serverId
\* (SV_UserMove, SV_ExecuteClientMessage).
THEOREM Enters ==
    ASSUME EarlyRestarts = FALSE, "snapshot" \notin Large
    PROVE  Spec => EntersWithGamestate
<1>1. GameStateInv /\ GameStateInv' /\ [Next]_vars =>
         [sc.state # "ACTIVE" /\ sc'.state = "ACTIVE" =>
             client.gamestate.map = sv.restartedServerId]_vars
  BY OnlyAMoveEnters
<1>2. QED
  BY <1>1, GameStateInvariant, PTL DEF Spec, EntersWithGamestate

\* A step sets the server's config string, or moves the client's forward to a value the
\* server's has had.
LEMMA StringsStep ==
    ASSUME GameStateInv, GameStateInv', [Next]_vars
    PROVE  [Strings!Next]_<<sv.cs, client.cs>>
<1>1. sv \in SvRecord /\ client \in ClientRecord /\ client' \in ClientRecord /\ sv' \in SvRecord
  BY DEF GameStateInv, Good, Types
<1>2. {sv.cs, client.cs, client'.cs, sv'.cs} \subseteq Nat
  BY <1>1 DEF SvRecord, ClientRecord
<1>3. client'.cs <= sv'.cs
  BY DEF GameStateInv, Good, ClientStrings
<1>4. CASE sv' = sv /\ client.cs <= client'.cs
  <2>1. client'.cs \in client.cs .. sv.cs
    BY <1>2, <1>3, <1>4
  <2>2. QED
    BY <1>4, <2>1 DEF Strings!Next, Strings!Follow
<1>5. CASE sv'.cs = sv.cs /\ client' = client
  BY <1>5
<1>6. CASE SetConfigstring \/ SpawnServer
  <2>1. sv'.cs = sv.cs + 1 /\ client' = client
    BY <1>1, <1>6 DEF SetConfigstring, SpawnServer, SvRecord
  <2>2. QED
    BY <2>1 DEF Strings!Next, Strings!Set
<1>7. CASE ServerReceives
  <2>1. sv' = sv /\ (client' = client \/ client' = [client EXCEPT !.later = FALSE])
    BY <1>7 DEF ServerReceives, ReceiveMismatch, ReceiveMatch, SendClientGameState
  <2>2. client'.cs = client.cs
    BY <1>1, <2>1 DEF ClientRecord
  <2>3. QED
    BY <1>2, <1>4, <2>1, <2>2
<1>8. CASE UpdateSystemInfo \/ MapRestart
  <2>1. sv'.cs = sv.cs /\ client' = client
    BY <1>1, <1>8 DEF UpdateSystemInfo, MapRestart, SvRecord
  <2>2. QED
    BY <1>5, <2>1
<1>9. CASE \/ TransmitNextFragment \/ SendSnapshot \/ WritePacket \/ LoseDown \/ LoseUp
           \/ UNCHANGED vars
  BY <1>5, <1>9 DEF TransmitNextFragment, SendSnapshot, WritePacket, LoseDown, LoseUp, vars
<1>10. CASE \/ ReceiveGamestate \/ ReceiveSnapshot \/ ReceiveLastBlock \/ DownloadDone
            \/ Load \/ VidRestart \/ CGameExecutes
  <2>1. client.cs <= client'.cs
    BY <1>10, ReceiveGamestateKeeps, ReceiveSnapshotKeeps, ReceiveLastBlockKeeps,
       DownloadDoneKeeps, LoadKeeps, CGameExecutesKeeps
  <2>2. sv' = sv
    BY <1>10 DEF ReceiveGamestate, ReceiveSnapshot, ReceiveLastBlock, Arrives, DownloadDone,
       Load, VidRestart, CGameExecutes
  <2>3. QED
    BY <1>4, <2>1, <2>2
<1>11. QED
  BY <1>6, <1>7, <1>8, <1>9, <1>10 DEF Next

\* The client's config string is a replica of the server's: it has values the server's
\* had, and never goes back to an older one, not even when a gamestate or a command
\* comes late or the client's game starts again.
THEOREM ImplementsReplica ==
    ASSUME EarlyRestarts = FALSE, "snapshot" \notin Large
    PROVE  Spec => ReplicaSpec
<1>1. Init => Strings!Init
  BY DEF Init, Strings!Init
<1>2. GameStateInv /\ GameStateInv' /\ [Next]_vars => [Strings!Next]_<<sv.cs, client.cs>>
  BY StringsStep
<1>3. QED
  BY <1>1, <1>2, GameStateInvariant, PTL DEF Spec, ReplicaSpec, Strings!Spec
=============================================================================
