---------------------------- MODULE Connections ----------------------------
(***************************************************************************)
(* How clients come to a server and leave it: SV_GetChallenge,              *)
(* SV_DirectConnect and SV_DropClient of server/sv_client.cpp,              *)
(* SV_PacketEvent and SV_CheckTimeouts of sv_main.cpp, and                  *)
(* CL_CheckForResend, CL_PacketEvent, CL_ConnectionlessPacket,              *)
(* CL_Disconnect and CL_CheckTimeout of client/cl_main.cpp.                 *)
(*                                                                          *)
(* All clients are behind one router, which is when it is hard to tell them *)
(* apart: NET_CompareBaseAdr always holds, and the address of a client is   *)
(* the port the router has for it. The router may change its ports at any   *)
(* time, and give one client a port that another has had, by which the      *)
(* server, and packets under way, still know the other. The clients'        *)
(* qports, random numbers of 16 bits that a program chooses when it starts, *)
(* are taken to differ: a client stands for its qport, and a program that   *)
(* is started again is another client, which may have the port of the first.*)
(*                                                                          *)
(* A session is known by its challenge, with which its messages are encoded. *)
(* The network loses, delays and reorders packets. A packet it repeats is   *)
(* one sent twice; those of an established session the netchan takes once.  *)
(* "print" packets are left out: they are shown to the user.                *)
(***************************************************************************)
EXTENDS Integers, FiniteSetsExt

CONSTANTS Clients, Nobody,
          Ports, NoPort,
          sv_maxclients,
          MAX_CHALLENGES,
          Denies,               \* whom the game may refuse: "new", "reconnect"
          Steady,               \* clients whose packets get through, sent often enough
          MaxChallenges,        \* bound: challenges the server makes
          MaxConnects,          \* bound: times users connect
          MaxFaults,            \* bound: changes of ports, refusals and crashes of the server
          MaxInFlight,          \* bound: packets in flight when one more is sent
          QuietTimes            \* bound: whether clients notice that nothing comes

ASSUME ConnectionsAssumption ==
    /\ Nobody \notin Clients /\ Steady \subseteq Clients
    /\ NoPort \notin Ports /\ Injection(Clients, Ports) # {}
    /\ {sv_maxclients, MAX_CHALLENGES} \subseteq Nat \ {0}
    /\ Denies \subseteq {"new", "reconnect"}
    /\ {MaxChallenges, MaxConnects, MaxFaults, MaxInFlight} \subseteq Nat
    /\ QuietTimes \in BOOLEAN

VARIABLES slot,                 \* svs.clients
          challenges,           \* svs.challenges; a larger challenge is a newer one
          lastChallenge,        \* the challenge made last
          game,                 \* whom the game knows under each client number
          client,               \* cls and clc of every client
          nat,                  \* the port the router has for each client
          had,                  \* all ports it has had for each; known to nobody
          net,                  \* packets in flight
          events                \* how often users did as they liked, and what fails failed

vars == <<slot, challenges, lastChallenge, game, client, nat, had, net, events>>
serverVars == <<slot, challenges, lastChallenge, game>>

Slots == 1 .. sv_maxclients
router == <<nat, had>>

\* The router's ports at first; which they are makes no difference.
FirstPorts == CHOOSE ports \in Injection(Clients, Ports) : TRUE

FreeSlot == [state |-> "FREE", port |-> NoPort, qport |-> Nobody, challenge |-> 0,
             recent |-> FALSE]
NoChallenge == [port |-> NoPort, challenge |-> 0, connected |-> FALSE]
Offline == [state |-> "DISCONNECTED", challenge |-> 0, quiet |-> FALSE]

ServerInit ==
    /\ slot = [s \in Slots |-> FreeSlot]
    /\ challenges = [i \in 1 .. MAX_CHALLENGES |-> NoChallenge]
    /\ lastChallenge = 0
    /\ game = [s \in Slots |-> Nobody]

Init ==
    /\ ServerInit
    /\ client = [c \in Clients |-> Offline]
    /\ nat = FirstPorts
    /\ had = [c \in Clients |-> {nat[c]}]
    /\ net = {}
    /\ events = [connects |-> 0, faults |-> 0]

\* Something fails that does not fail often.
Fault == events.faults < MaxFaults /\ events' = [events EXCEPT !.faults = @ + 1]

\* Out-of-band and sequenced packets to the server, and from it.
GetChallengePacket(c) == [kind |-> "getchallenge", from |-> nat[c]]
ConnectPacket(c) ==
    [kind |-> "connect", from |-> nat[c], qport |-> c, challenge |-> client[c].challenge]
ClientMessage(c, bye) ==
    [kind |-> "clientMessage", from |-> nat[c], qport |-> c,
     challenge |-> client[c].challenge, bye |-> bye]

OutOfBand(kind, port, challenge) == [kind |-> kind, to |-> port, challenge |-> challenge]
ServerMessage(s) ==
    [kind |-> "serverMessage", to |-> slot[s].port, challenge |-> slot[s].challenge,
     bye |-> slot[s].state = "ZOMBIE"]

\* What is in the air when packet p has been received and the answers sent.
Replied(p, answers) == (net \ {p}) \cup answers

-----------------------------------------------------------------------------
(* Server *)

\* SV_GetChallenge: the client's challenge that is not in use, or else a new
\* one in place of the oldest. Outside a LAN the answer is left to the
\* authorization server, for the first five seconds.
OpenChallenges(port) ==
    {i \in DOMAIN challenges : ~ challenges[i].connected /\ challenges[i].port = port}

Oldest == CHOOSE i \in DOMAIN challenges :
             \A j \in DOMAIN challenges :
                \/ challenges[i].challenge < challenges[j].challenge
                \/ challenges[i].challenge = challenges[j].challenge /\ i <= j

GetChallenge(p) ==
    /\ p.kind = "getchallenge"
    /\ \/ /\ OpenChallenges(p.from) # {}
          /\ UNCHANGED <<challenges, lastChallenge>>
       \/ /\ OpenChallenges(p.from) = {}
          /\ lastChallenge < MaxChallenges
          /\ lastChallenge' = lastChallenge + 1
          /\ challenges' = [challenges EXCEPT ![Oldest] =
                [port |-> p.from, challenge |-> lastChallenge + 1, connected |-> FALSE]]
    /\ LET i == IF OpenChallenges(p.from) = {} THEN Oldest ELSE Min(OpenChallenges(p.from))
       IN  \/ net' = Replied(p, {OutOfBand("challengeResponse", p.from, challenges'[i].challenge)})
           \/ net' = Replied(p, {})
    /\ UNCHANGED <<slot, game, client, router, events>>

\* The answer of the authorization server. "clear the challenge record so it
\* won't timeout and let them through".
AuthorizeIpPacket(i) ==
    /\ challenges[i].challenge # 0
    /\ \/ /\ Cardinality(net) < MaxInFlight
          /\ net' = net \cup {OutOfBand("challengeResponse", challenges[i].port,
                                       challenges[i].challenge)}
          /\ UNCHANGED <<challenges, events>>
       \/ /\ Fault
          /\ challenges' = [challenges EXCEPT ![i] = NoChallenge]
          /\ UNCHANGED net
    /\ UNCHANGED <<slot, lastChallenge, game, client, router>>

\* Bug: the qport is not looked at.
SameClientByPort(p) == {s \in Slots : slot[s].state # "FREE" /\ slot[s].port = p.from}

\* "reuse a slot": a slot, in use or a zombie's, with the same qport or port.
SameClient(p) ==
    {s \in Slots : slot[s].state # "FREE" /\ (slot[s].qport = p.qport \/ slot[s].port = p.from)}

TooSoon(p) == SameClient(p) # {} /\ slot[Min(SameClient(p))].recent

\* Bug: a challenge serves one connect, though its answer may be lost.
ValidOnce(p) ==
    {i \in DOMAIN challenges :
        /\ challenges[i].port = p.from /\ challenges[i].challenge = p.challenge
        /\ ~ challenges[i].connected}

Valid(p) == {i \in DOMAIN challenges : challenges[i].port = p.from /\ challenges[i].challenge = p.challenge}

FreeSlots == {s \in Slots : slot[s].state = "FREE"}

\* Bug: a client that comes again gets another slot.
SlotForAlwaysFree(p) == FreeSlots

SlotFor(p) == IF SameClient(p) # {} THEN SameClient(p) ELSE FreeSlots

MayBeDenied(p) == IF SameClient(p) = {} THEN "new" \in Denies ELSE "reconnect" \in Denies

\* SV_DirectConnect of a client it lets in: everything in the slot is new. The
\* game is told of a player who connects, and not of the one who had the slot.
Accept(p, s) ==
    /\ slot' = [slot EXCEPT ![s] =
          [state |-> "CONNECTED", port |-> p.from, qport |-> p.qport,
           challenge |-> p.challenge, recent |-> TRUE]]
    /\ game' = [game EXCEPT ![s] = p.qport]
    /\ net' = Replied(p, {OutOfBand("connectResponse", p.from, 0)})

\* The slot has been cleared before the game is asked.
Deny(p, s) ==
    /\ MayBeDenied(p)
    /\ slot' = [slot EXCEPT ![s] = FreeSlot]
    /\ net' = Replied(p, {})
    /\ UNCHANGED game

DirectConnect(p) ==
    /\ p.kind = "connect"
    /\ IF TooSoon(p) \/ Valid(p) = {}
       THEN net' = Replied(p, {}) /\ UNCHANGED <<slot, game, challenges>>
       ELSE /\ challenges' = [challenges EXCEPT ![Min(Valid(p))].connected = TRUE]
            /\ \/ SlotFor(p) # {} /\ Accept(p, Min(SlotFor(p)))
               \/ SlotFor(p) # {} /\ Deny(p, Min(SlotFor(p)))
               \* "Server is full."
               \/ SlotFor(p) = {} /\ net' = Replied(p, {}) /\ UNCHANGED <<slot, game>>
    /\ UNCHANGED <<lastChallenge, client, router, events>>

\* SV_DropClient of the client in slot s, whose port is known, and what becomes
\* of the slot: it is a zombie's, or free if SV_CheckTimeouts drops the client.
ClearFirst(port) ==
    LET of == {i \in DOMAIN challenges : challenges[i].port = port}
    IN  IF of = {} THEN challenges ELSE [challenges EXCEPT ![Min(of)].connected = FALSE]

DropClient(s, port, left) ==
    /\ slot' = [slot EXCEPT ![s] = left]
    /\ challenges' = ClearFirst(port)
    /\ game' = [game EXCEPT ![s] = Nobody]

Zombie(used) == [used EXCEPT !.state = "ZOMBIE"]

\* SV_PacketEvent for a sequenced packet. "it is possible to have multiple
\* clients from a single IP address, so they are differentiated by the qport".
SlotsOf(c) == {s \in Slots : slot[s].state # "FREE" /\ slot[s].qport = c}

\* A message of another session than the slot's cannot be decoded: it is
\* illegible, or does nothing.
Drops(p, s) == p.challenge # slot[s].challenge \/ p.bye
Keeps(p, s) == p.challenge # slot[s].challenge \/ ~ p.bye

PacketEvent(p) ==
    /\ p.kind = "clientMessage"
    /\ IF SlotsOf(p.qport) = {}
       THEN /\ net' = Replied(p, {OutOfBand("disconnect", p.from, 0)})
            /\ UNCHANGED <<slot, challenges, game>>
       ELSE LET s     == Min(SlotsOf(p.qport))
                fixed == [slot[s] EXCEPT !.port = p.from]
            IN  /\ net' = Replied(p, {})
                /\ \/ /\ slot[s].state = "ZOMBIE" \/ Keeps(p, s)
                      /\ slot' = [slot EXCEPT ![s] = fixed]
                      /\ UNCHANGED <<challenges, game>>
                   \/ /\ slot[s].state = "CONNECTED" /\ Drops(p, s)
                      /\ DropClient(s, p.from, Zombie(fixed))
    /\ UNCHANGED <<lastChallenge, client, router, events>>

\* The game, the operator or a full ring of commands ends the session.
Kick(s) ==
    /\ slot[s].state = "CONNECTED"
    /\ DropClient(s, slot[s].port, Zombie(slot[s]))
    /\ UNCHANGED <<lastChallenge, client, router, net, events>>

\* SV_SendClientMessages: zombies are sent to as well, and what they are sent
\* holds the "disconnect" command.
SendMessage(s) ==
    /\ slot[s].state # "FREE"
    /\ Cardinality(net) < MaxInFlight
    /\ net' = net \cup {ServerMessage(s)}
    /\ UNCHANGED <<slot, challenges, lastChallenge, game, client, router, events>>

\* Bug: the slot is freed without SV_DropClient.
TimeOutUnannounced(s) ==
    /\ slot[s].state = "CONNECTED"
    /\ slot' = [slot EXCEPT ![s] = FreeSlot]
    /\ UNCHANGED <<challenges, game, lastChallenge, client, router, net, events>>

\* SV_CheckTimeouts. The network may lose packets for as long as sv_timeout, so
\* that this can happen to any client; it does to one who has gone.
TimeOut(s) ==
    /\ slot[s].state = "CONNECTED"
    /\ DropClient(s, slot[s].port, FreeSlot)
    /\ UNCHANGED <<lastChallenge, client, router, net, events>>

ZombieExpires(s) ==
    /\ slot[s].state = "ZOMBIE"
    /\ slot' = [slot EXCEPT ![s] = FreeSlot]
    /\ UNCHANGED <<challenges, lastChallenge, game, client, router, net, events>>

\* sv_reconnectlimit seconds have passed since the client connected.
ReconnectLimitPasses(s) ==
    /\ slot[s].state # "FREE" /\ slot[s].recent
    /\ slot' = [slot EXCEPT ![s].recent = FALSE]
    /\ UNCHANGED <<challenges, lastChallenge, game, client, router, net, events>>

\* The server is started again without having told anyone.
Crash ==
    /\ Fault
    /\ slot' = [s \in Slots |-> FreeSlot]
    /\ challenges' = [i \in 1 .. MAX_CHALLENGES |-> NoChallenge]
    /\ game' = [s \in Slots |-> Nobody]
    /\ UNCHANGED <<lastChallenge, client, router, net>>

-----------------------------------------------------------------------------
(* Client *)

\* CL_Disconnect, of what is left of the client's connection, and the packets
\* in the air when it has told the server, three times, that it goes.
Farewell(c) == IF client[c].state = "CONNECTED" THEN {ClientMessage(c, TRUE)} ELSE {}

Disconnect(c) ==
    /\ client[c].state # "DISCONNECTED"
    /\ client' = [client EXCEPT ![c] = Offline]
    /\ net' = net \cup Farewell(c)
    /\ UNCHANGED <<slot, challenges, lastChallenge, game, router, events>>

\* CL_Connect_f: the old connection is closed first.
Connect(c) ==
    /\ events.connects < MaxConnects
    /\ events' = [events EXCEPT !.connects = @ + 1]
    /\ client' = [client EXCEPT ![c] = [Offline EXCEPT !.state = "CONNECTING"]]
    /\ net' = net \cup Farewell(c)
    /\ UNCHANGED <<slot, challenges, lastChallenge, game, router>>

\* CL_CheckForResend, every three seconds
CheckForResend(c) ==
    /\ Cardinality(net) < MaxInFlight
    /\ \/ client[c].state = "CONNECTING" /\ net' = net \cup {GetChallengePacket(c)}
       \/ client[c].state = "CHALLENGING" /\ net' = net \cup {ConnectPacket(c)}
    /\ UNCHANGED <<slot, challenges, lastChallenge, game, client, router, events>>

\* CL_WritePacket
WritePacket(c) ==
    /\ client[c].state = "CONNECTED"
    /\ Cardinality(net) < MaxInFlight
    /\ net' = net \cup {ClientMessage(c, FALSE)}
    /\ UNCHANGED <<slot, challenges, lastChallenge, game, client, router, events>>

\* CL_PacketEvent notes the time of any packet before it looks at it.
Hears(c, p) ==
    /\ p \in net /\ p.to = nat[c]
    /\ UNCHANGED <<slot, challenges, lastChallenge, game, router, events>>

Heard(c) == [client[c] EXCEPT !.quiet = FALSE]

Becomes(c, p, new, answers) ==
    /\ client' = [client EXCEPT ![c] = new]
    /\ net' = Replied(p, answers)

ChallengeResponse(c, p) ==
    /\ p.kind = "challengeResponse" /\ Hears(c, p)
    /\ IF client[c].state = "CONNECTING"
       THEN Becomes(c, p, [Heard(c) EXCEPT !.state = "CHALLENGING", !.challenge = p.challenge], {})
       ELSE Becomes(c, p, Heard(c), {})

\* Bug: "if (cls.state != CA_CHALLENGING)" is left out.
AwaitsConnectResponseEarly(c) == client[c].state \in {"CONNECTING", "CHALLENGING"}

\* A connectResponse is taken by a client that waits for one, whichever connect
\* it answers.
AwaitsConnectResponse(c) == client[c].state = "CHALLENGING"

ConnectResponse(c, p) ==
    /\ p.kind = "connectResponse" /\ Hears(c, p)
    /\ IF AwaitsConnectResponse(c)
       THEN Becomes(c, p, [Heard(c) EXCEPT !.state = "CONNECTED"], {})
       ELSE Becomes(c, p, Heard(c), {})

\* CL_DisconnectPacket: "if we have received packets within three seconds,
\* ignore it".
IgnoresDisconnect(c) == client[c].state # "CONNECTED" \/ ~ Heard(c).quiet

DisconnectPacket(c, p) ==
    /\ p.kind = "disconnect" /\ Hears(c, p)
    /\ IF IgnoresDisconnect(c)
       THEN Becomes(c, p, Heard(c), {})
       ELSE Becomes(c, p, Offline, Farewell(c))

\* A message of the server, of the client's session or of another, which cannot
\* be decoded: it ends the connection with an error, or does nothing.
ServerMessageArrives(c, p) ==
    /\ p.kind = "serverMessage" /\ Hears(c, p)
    /\ LET other == p.challenge # client[c].challenge
       IN  \/ /\ client[c].state # "CONNECTED" \/ other \/ ~ p.bye
              /\ Becomes(c, p, Heard(c), {})
           \/ /\ client[c].state = "CONNECTED"
              /\ other \/ p.bye
              /\ Becomes(c, p, Offline, Farewell(c))

\* Time: three seconds since the last packet; it may become cl_timeout.
NothingHeard(c) ==
    /\ QuietTimes
    /\ client[c].state = "CONNECTED" /\ ~ client[c].quiet
    /\ client' = [client EXCEPT ![c].quiet = TRUE]
    /\ UNCHANGED <<slot, challenges, lastChallenge, game, router, net, events>>

\* CL_CheckTimeout
CheckTimeout(c) == client[c].quiet /\ Disconnect(c)

-----------------------------------------------------------------------------
\* The router gives its clients other ports, among them perhaps one that it has
\* taken from a client that had sent nothing for a while.
Rebind ==
    /\ Fault
    /\ nat' \in Injection(Clients, Ports) \ {nat}
    /\ had' = [c \in Clients |-> had[c] \cup {nat'[c]}]
    /\ UNCHANGED <<slot, challenges, lastChallenge, game, client, net>>

Lose(p) ==
    /\ net' = net \ {p}
    /\ UNCHANGED <<slot, challenges, lastChallenge, game, client, router, events>>

ServerReceives == \E p \in net : GetChallenge(p) \/ DirectConnect(p) \/ PacketEvent(p)

ClientReceives(c) ==
    \E p \in net :
        \/ ChallengeResponse(c, p) \/ ConnectResponse(c, p)
        \/ DisconnectPacket(c, p) \/ ServerMessageArrives(c, p)

Next ==
    \/ ServerReceives
    \/ \E s \in Slots :
          \/ Kick(s) \/ SendMessage(s) \/ TimeOut(s) \/ ZombieExpires(s)
          \/ ReconnectLimitPasses(s)
    \/ \E i \in DOMAIN challenges : AuthorizeIpPacket(i)
    \/ Crash
    \/ \E c \in Clients :
          \/ Connect(c) \/ Disconnect(c) \/ CheckForResend(c) \/ WritePacket(c)
          \/ ClientReceives(c) \/ NothingHeard(c) \/ CheckTimeout(c)
    \/ Rebind
    \/ \E p \in net : Lose(p)

Spec == Init /\ [][Next]_vars

\* A client tries again every three seconds, and what it sends and is sent, over
\* and over again, gets through; no packet stays in the network for ever. Time
\* passes on the server. Other clients and users do as they like.
Repeated(p) ==
    \E c \in Steady :
       \/ p.kind \in {"getchallenge", "connect"} /\ p.from = nat[c]
       \/ p.kind \in {"challengeResponse", "connectResponse"} /\ p.to = nat[c]

Answered(c) == \E p \in net' : p.kind = "challengeResponse" /\ p.to = nat[c]

Fairness ==
    /\ \A c \in Steady :
          /\ SF_vars(CheckForResend(c))
          /\ SF_vars(\E p \in net : GetChallenge(p) /\ p.from = nat[c] /\ Answered(c))
          /\ SF_vars(\E p \in net : ChallengeResponse(c, p))
          /\ SF_vars(\E p \in net : DirectConnect(p) /\ p.from = nat[c])
          /\ SF_vars(\E p \in net : ConnectResponse(c, p))
    /\ WF_vars(\E p \in net : ~ Repeated(p) /\ Lose(p))
    /\ \A s \in Slots : WF_vars(ReconnectLimitPasses(s)) /\ WF_vars(ZombieExpires(s))

FairSpec == Spec /\ Fairness

\* The same for a client that is connected: it sends every frame, and notices
\* when nothing comes back.
TrafficFairness ==
    /\ \A c \in Steady :
          /\ WF_vars(WritePacket(c))
          /\ SF_vars(\E p \in net : PacketEvent(p) /\ p.from = nat[c])
          /\ SF_vars(\E p \in net : DisconnectPacket(c, p))
          /\ WF_vars(NothingHeard(c)) /\ WF_vars(CheckTimeout(c))
    /\ WF_vars(\E p \in net : Repeated(p) /\ Lose(p))

TrafficSpec == Spec /\ TrafficFairness

-----------------------------------------------------------------------------
InUse(s) == slot[s].state # "FREE"

TypeOK ==
    /\ \A s \in Slots :
          /\ slot[s].state \in {"FREE", "ZOMBIE", "CONNECTED"}
          /\ InUse(s) => slot[s].qport \in Clients /\ slot[s].challenge \in 1 .. lastChallenge
    /\ \A i \in DOMAIN challenges : challenges[i].challenge \in 0 .. lastChallenge
    /\ game \in [Slots -> Clients \cup {Nobody}]
    /\ \A c \in Clients :
          /\ client[c].state \in {"DISCONNECTED", "CONNECTING", "CHALLENGING", "CONNECTED"}
          /\ client[c].state \in {"CHALLENGING", "CONNECTED"} <=> client[c].challenge # 0

\* Clients the server may take for each other: both have had one port.
Alike(c, d) == c # d /\ had[c] \cap had[d] # {}
AlikePairs == {pair \in Clients \X Clients : Alike(pair[1], pair[2])}

\* No two slots are for one client, and no two are known by one port, unless the
\* router has given a port of the clients in them to another: packets, which go to
\* the first slot that fits, cannot go astray, and no reconnect leaves a second
\* body in the game (SV_DirectConnect, SV_PacketEvent). A change of ports alone
\* does no harm, nor does a late packet from a port the client had before.
TakenForAnother(c) == \E d \in Clients : Alike(c, d)

OneSlotEach ==
    \A s, t \in Slots :
        /\ InUse(s) /\ InUse(t) /\ s # t
        /\ slot[s].qport = slot[t].qport \/ slot[s].port = slot[t].port
        => TakenForAnother(slot[s].qport) /\ TakenForAnother(slot[t].qport)

\* The game knows of exactly the clients that are connected: everyone who is in
\* was announced, everyone who has gone was taken out.
GameKnowsClients ==
    \A s \in Slots :
        game[s] = IF slot[s].state = "CONNECTED" THEN slot[s].qport ELSE Nobody

\* To the game, client numbers are what Roster promises: nobody loses his number
\* to a client, or gets a second one, but in an encounter with a client that has
\* come from the same port as he (SV_DirectConnect, SV_DropClient).
Players == INSTANCE Roster WITH Players <- Clients, player <- game, alike <- AlikePairs
RosterSpec == Players!Spec

\* "the IP port can't be used to differentiate them, because some NATs periodically
\* change UDP port assignments" (SV_PacketEvent): a client in the game makes room
\* for another only by being dropped. SV_DirectConnect compares the ports all the
\* same, and this does not hold.
DifferentiatedByQport ==
    [][\A s \in Slots :
          slot[s].state = "CONNECTED" /\ slot'[s].state = "CONNECTED" =>
              slot'[s].qport = slot[s].qport]_vars

\* A client that tries to connect gets in, whatever is lost or late and however
\* often it has to ask, unless all slots are taken or the server no longer
\* knows its challenge.
Connecting(c) == client[c].state \in {"CONNECTING", "CHALLENGING"}
Full == \A s \in Slots : slot[s].state = "CONNECTED"
Forgotten(c) ==
    /\ client[c].state = "CHALLENGING"
    /\ ~ \E i \in DOMAIN challenges :
            challenges[i].port = nat[c] /\ challenges[i].challenge = client[c].challenge

GetsIn == \A c \in Steady : Connecting(c) ~> ~ Connecting(c) \/ Full \/ Forgotten(c)

\* "If the client continues to send packets to the server, the server will send
\* out of band disconnect packets to the client so it doesn't have to wait for
\* the full timeout period" (CL_DisconnectPacket).
Orphaned(c) == client[c].state = "CONNECTED" /\ SlotsOf(c) = {}

OrphanLeaves == \A c \in Steady : Orphaned(c) ~> ~ Orphaned(c)
=============================================================================
