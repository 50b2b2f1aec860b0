------------------------ MODULE Connections_proofs ------------------------
(***************************************************************************)
(* Proofs about Connections, for any number of clients, slots and           *)
(* challenges and any number of crashes, late packets and changes of ports,  *)
(* with ports that are handed on from client to client: only a client that   *)
(* has come from the same port as another can have two slots, or lose his     *)
(* number in the game before it is told that he left.                         *)
(***************************************************************************)
EXTENDS Connections, NumberTheorems

SlotRecord == [state : {"FREE", "ZOMBIE", "CONNECTED"}, port : Ports \cup {NoPort},
               qport : Clients \cup {Nobody}, challenge : Nat, recent : BOOLEAN]
ChallengeRecord == [port : Ports \cup {NoPort}, challenge : Nat, connected : BOOLEAN]
ClientRecord == [state : {"DISCONNECTED", "CONNECTING", "CHALLENGING", "CONNECTED"},
                 challenge : Nat, quiet : BOOLEAN]

Known(challenge) == challenge \in 1 .. lastChallenge

\* A slot in use is for a client, and its port is one the client has, or has had.
UsedSlot(used) ==
    /\ used.qport \in Clients
    /\ used.port \in had[used.qport]
    /\ Known(used.challenge)

SlotsOK ==
    /\ slot \in [Slots -> SlotRecord]
    /\ \A s \in Slots : InUse(s) => UsedSlot(slot[s])

\* An entry of the table that somebody's port is in holds a challenge that was made.
ChallengesOK ==
    /\ lastChallenge \in Nat
    /\ challenges \in [1 .. MAX_CHALLENGES -> ChallengeRecord]
    /\ \A i \in 1 .. MAX_CHALLENGES :
          /\ challenges[i].challenge <= lastChallenge
          /\ challenges[i].port # NoPort => challenges[i].challenge # 0

ClientsOK ==
    /\ client \in [Clients -> ClientRecord]
    /\ \A c \in Clients :
          /\ client[c].challenge <= lastChallenge
          /\ client[c].state \in {"CHALLENGING", "CONNECTED"} <=> client[c].challenge # 0

RouterOK ==
    /\ nat \in [Clients -> Ports]
    /\ had \in [Clients -> SUBSET Ports]
    /\ \A c \in Clients : nat[c] \in had[c]

\* Ports a client has had, it has had for ever.
HadGrows ==
    /\ had' \in [Clients -> SUBSET Ports]
    /\ \A c \in Clients : had[c] \subseteq had'[c]

\* Packets to the server come from a port that the client whose qport they name
\* has had, and challenges in packets were made by the server.
GoodWhen(p, last, ports) ==
    /\ p.kind \in {"getchallenge", "connect", "clientMessage"} => p.from \in Ports
    /\ p.kind \in {"connect", "clientMessage"} =>
          p.qport \in Clients /\ p.from \in ports[p.qport]
    /\ p.kind \in {"connect", "clientMessage", "challengeResponse"} =>
          p.challenge \in 1 .. last

GoodPacket(p) == GoodWhen(p, lastChallenge, had)

NetOK == \A p \in net : GoodPacket(p)

GameOK == game \in [Slots -> Clients \cup {Nobody}]

\* What makes the safety of the connections inductive.
ConnectionsInv ==
    /\ SlotsOK /\ ChallengesOK /\ ClientsOK /\ RouterOK /\ NetOK /\ GameOK
    /\ OneSlotEach

-----------------------------------------------------------------------------
(* The oldest challenge and a slot for the client *)

\* The oldest challenge is one of the table.
LEMMA OldestExists ==
    ASSUME ChallengesOK
    PROVE  Oldest \in 1 .. MAX_CHALLENGES
<1> DEFINE Table == 1 .. MAX_CHALLENGES
           Numbers == {challenges[i].challenge : i \in Table}
<1>1. /\ DOMAIN challenges = Table
      /\ \A i \in Table : challenges[i].challenge \in Nat
      /\ Table # {} /\ Table \in SUBSET Nat
  BY ConnectionsAssumption DEF ChallengesOK, ChallengeRecord
<1>2. PICK n \in Numbers : \A m \in Numbers : n <= m
  <2>1. Numbers \in SUBSET Nat /\ Numbers # {}
    BY <1>1
  <2>2. QED
    BY <2>1, HasMinimum
<1> DEFINE Smallest == {i \in Table : challenges[i].challenge = n}
<1>3. PICK i \in Smallest : \A j \in Smallest : i <= j
  <2>1. Smallest \in SUBSET Nat /\ Smallest # {}
    BY <1>1, <1>2
  <2>2. QED
    BY <2>1, HasMinimum
<1>4. \A j \in Table : \/ challenges[i].challenge < challenges[j].challenge
                       \/ challenges[i].challenge = challenges[j].challenge /\ i <= j
  <2> SUFFICES ASSUME NEW j \in Table
               PROVE  \/ challenges[i].challenge < challenges[j].challenge
                      \/ challenges[i].challenge = challenges[j].challenge /\ i <= j
    OBVIOUS
  <2>1. challenges[i].challenge <= challenges[j].challenge
    BY <1>2, <1>3
  <2>2. CASE challenges[j].challenge = n
    BY <2>2, <1>3
  <2>3. CASE challenges[j].challenge # n
    BY <2>1, <2>3, <1>1, <1>3
  <2>4. QED
    BY <2>2, <2>3
<1>5. QED
  BY <1>1, <1>3, <1>4 DEF Oldest

-----------------------------------------------------------------------------
(* The parts of the state, and what a step does to each *)

\* Two slots that know one port are for one client, or for two that both had it.
LEMMA OnePortAlike ==
    ASSUME NEW q \in Clients, NEW x \in Clients, NEW port,
           port \in had[q], port \in had[x], q # x
    PROVE  TakenForAnother(q) /\ TakenForAnother(x)
  BY DEF TakenForAnother, Alike

\* Who has been taken for another stays so.
LEMMA TakenForEver ==
    ASSUME HadGrows, NEW c \in Clients, TakenForAnother(c)
    PROVE  TakenForAnother(c)'
  BY DEF HadGrows, TakenForAnother, Alike

\* A slot that is freed, or is for a client that has no other.
LEMMA SlotUpdate ==
    ASSUME ConnectionsInv, NEW s \in Slots, NEW r \in SlotRecord,
           slot' = [slot EXCEPT ![s] = r], lastChallenge' = lastChallenge, had' = had,
           r.state # "FREE" =>
              /\ UsedSlot(r)
              /\ \A t \in Slots : InUse(t) /\ t # s /\ slot[t].qport = r.qport =>
                    TakenForAnother(r.qport)
    PROVE  SlotsOK' /\ OneSlotEach'
<1>1. /\ slot' \in [Slots -> SlotRecord]
      /\ slot'[s] = r
      /\ \A t \in Slots : t # s => slot'[t] = slot[t]
  BY DEF ConnectionsInv, SlotsOK
<1>2. SlotsOK'
  BY <1>1 DEF ConnectionsInv, SlotsOK, InUse, UsedSlot, Known
<1>3. ASSUME NEW t \in Slots, NEW u \in Slots, InUse(t)', InUse(u)', t # u,
             slot'[t].qport = slot'[u].qport
      PROVE  TakenForAnother(slot'[t].qport) /\ TakenForAnother(slot'[u].qport)
  <2>1. CASE t = s
    BY <1>1, <1>3, <2>1 DEF InUse
  <2>2. CASE u = s
    BY <1>1, <1>3, <2>2 DEF InUse
  <2>3. CASE t # s /\ u # s
    BY <1>1, <1>3, <2>3 DEF InUse, ConnectionsInv, OneSlotEach
  <2>4. QED
    BY <2>1, <2>2, <2>3
<1>4. ASSUME NEW t \in Slots, NEW u \in Slots, InUse(t)', InUse(u)', t # u,
             slot'[t].port = slot'[u].port, slot'[t].qport # slot'[u].qport
      PROVE  TakenForAnother(slot'[t].qport) /\ TakenForAnother(slot'[u].qport)
  BY <1>2, <1>4, OnePortAlike DEF SlotsOK, UsedSlot
<1>5. \A c : TakenForAnother(c)' <=> TakenForAnother(c)
  BY DEF TakenForAnother, Alike
<1>6. OneSlotEach'
  BY <1>3, <1>4, <1>5 DEF OneSlotEach
<1>7. QED
  BY <1>2, <1>6

\* Steps that leave the slots alone leave what is known of them.
LEMMA SlotsUnchanged ==
    ASSUME ConnectionsInv, slot' = slot, lastChallenge' \in Nat,
           lastChallenge <= lastChallenge', HadGrows
    PROVE  SlotsOK' /\ OneSlotEach'
<1>1. lastChallenge \in Nat
  BY DEF ConnectionsInv, ChallengesOK
<1>2. SlotsOK'
  BY <1>1 DEF ConnectionsInv, SlotsOK, InUse, UsedSlot, Known, HadGrows
<1>3. \A s \in Slots : InUse(s) => slot[s].qport \in Clients
  BY DEF ConnectionsInv, SlotsOK, UsedSlot
<1>4. OneSlotEach'
  BY <1>3, TakenForEver DEF ConnectionsInv, OneSlotEach, InUse
<1>5. QED
  BY <1>2, <1>4

\* A slot that is reset is a free slot.
LEMMA FreeSlotType == FreeSlot \in SlotRecord /\ FreeSlot.state = "FREE"
  BY DEF FreeSlot, SlotRecord

\* Entries of the table may be marked as connected, or not.
LEMMA ChallengesMarked ==
    ASSUME ChallengesOK, lastChallenge' = lastChallenge,
           \/ challenges' = challenges
           \/ \E i \in 1 .. MAX_CHALLENGES, b \in BOOLEAN :
                 challenges' = [challenges EXCEPT ![i].connected = b]
    PROVE  ChallengesOK'
<1>1. CASE challenges' = challenges
  BY <1>1 DEF ChallengesOK
<1>2. CASE \E i \in 1 .. MAX_CHALLENGES, b \in BOOLEAN :
              challenges' = [challenges EXCEPT ![i].connected = b]
  <2>1. PICK i \in 1 .. MAX_CHALLENGES, b \in BOOLEAN :
           challenges' = [challenges EXCEPT ![i].connected = b]
    BY <1>2
  <2>2. /\ challenges' \in [1 .. MAX_CHALLENGES -> ChallengeRecord]
        /\ \A j \in 1 .. MAX_CHALLENGES :
              /\ challenges'[j].challenge = challenges[j].challenge
              /\ challenges'[j].port = challenges[j].port
    BY <2>1 DEF ChallengesOK, ChallengeRecord
  <2>3. QED
    BY <2>2 DEF ChallengesOK
<1>3. QED
  BY <1>1, <1>2

\* Of the challenges a disconnect changes one mark, or nothing.
LEMMA ClearFirstMarks ==
    ASSUME ChallengesOK, NEW port
    PROVE  \/ ClearFirst(port) = challenges
           \/ \E i \in 1 .. MAX_CHALLENGES, b \in BOOLEAN :
                 ClearFirst(port) = [challenges EXCEPT ![i].connected = b]
<1> DEFINE of == {i \in DOMAIN challenges : challenges[i].port = port}
<1>1. DOMAIN challenges = 1 .. MAX_CHALLENGES
  BY DEF ChallengesOK
<1>2. CASE of = {}
  BY <1>2 DEF ClearFirst
<1>3. CASE of # {}
  <2>1. Min(of) \in 1 .. MAX_CHALLENGES
    BY <1>1, <1>3, MinProperties
  <2>2. ClearFirst(port) = [challenges EXCEPT ![Min(of)].connected = FALSE]
    BY <1>3 DEF ClearFirst
  <2>3. QED
    BY <2>1, <2>2
<1>4. QED
  BY <1>2, <1>3

\* The packets in the air are old ones, and what was sent in the step.
LEMMA NetUpdate ==
    ASSUME ConnectionsInv, NEW answers, net' \subseteq net \cup answers,
           lastChallenge' \in Nat, lastChallenge <= lastChallenge', HadGrows,
           \A q \in answers : GoodWhen(q, lastChallenge', had')
    PROVE  NetOK'
<1>1. lastChallenge \in Nat
  BY DEF ConnectionsInv, ChallengesOK
<1>2. \A q \in net : GoodWhen(q, lastChallenge', had')
  BY <1>1 DEF ConnectionsInv, NetOK, GoodPacket, GoodWhen, HadGrows
<1>3. QED
  BY <1>2 DEF NetOK, GoodPacket

\* Packets that are still under way are as good as they were.
LEMMA NetKept ==
    ASSUME ConnectionsInv, net' \subseteq net, lastChallenge' = lastChallenge, HadGrows
    PROVE  NetOK'
<1> DEFINE answers == {}
<1>1. lastChallenge \in Nat /\ net' \subseteq net \cup answers
  BY DEF ConnectionsInv, ChallengesOK
<1>2. \A q \in answers : GoodWhen(q, lastChallenge', had')
  OBVIOUS
<1> HIDE DEF answers
<1>3. QED
  BY <1>1, <1>2, NetUpdate

\* The step sends one packet, or none.
LEMMA NetAnswer ==
    ASSUME ConnectionsInv, NEW answer, net' \subseteq net \cup {answer},
           lastChallenge' \in Nat, lastChallenge <= lastChallenge', HadGrows,
           GoodWhen(answer, lastChallenge', had')
    PROVE  NetOK'
<1> DEFINE answers == {answer}
<1>1. \A q \in answers : GoodWhen(q, lastChallenge', had')
  OBVIOUS
<1>2. net' \subseteq net \cup answers
  OBVIOUS
<1> HIDE DEF answers
<1>3. QED
  BY <1>1, <1>2, NetUpdate

\* Most steps leave the router alone.
LEMMA RouterKept ==
    ASSUME ConnectionsInv, UNCHANGED router
    PROVE  RouterOK' /\ HadGrows /\ nat' = nat /\ had' = had
  BY DEF ConnectionsInv, RouterOK, HadGrows, router

\* Steps that leave the clients alone leave what is known of them.
LEMMA ClientsUnchanged ==
    ASSUME ConnectionsInv, client' = client, lastChallenge' \in Nat,
           lastChallenge <= lastChallenge'
    PROVE  ClientsOK'
<1>1. lastChallenge \in Nat /\ \A c \in Clients : client[c].challenge \in Nat
  BY DEF ConnectionsInv, ChallengesOK, ClientsOK, ClientRecord
<1>2. QED
  BY <1>1 DEF ConnectionsInv, ClientsOK

\* A client's new state, if it has a challenge when it should.
LEMMA ClientUpdate ==
    ASSUME ConnectionsInv, NEW c \in Clients, NEW new \in ClientRecord,
           client' = [client EXCEPT ![c] = new],
           lastChallenge' = lastChallenge,
           new.challenge <= lastChallenge,
           new.state \in {"CHALLENGING", "CONNECTED"} <=> new.challenge # 0
    PROVE  ClientsOK'
<1>1. /\ client' \in [Clients -> ClientRecord]
      /\ client'[c] = new
      /\ \A d \in Clients : d # c => client'[d] = client[d]
  BY DEF ConnectionsInv, ClientsOK
<1>2. QED
  BY <1>1 DEF ConnectionsInv, ClientsOK

\* A client's own packets, from the port it has now.
LEMMA ClientPackets ==
    ASSUME ConnectionsInv, NEW c \in Clients
    PROVE  /\ GoodPacket(GetChallengePacket(c))
           /\ client[c].state \in {"CHALLENGING", "CONNECTED"} =>
                 /\ GoodPacket(ConnectPacket(c))
                 /\ \A bye \in BOOLEAN : GoodPacket(ClientMessage(c, bye))
<1>1. /\ client[c].challenge \in Nat /\ client[c].challenge <= lastChallenge
      /\ client[c].state \in {"CHALLENGING", "CONNECTED"} => client[c].challenge # 0
      /\ lastChallenge \in Nat
  BY DEF ConnectionsInv, ClientsOK, ChallengesOK, ClientRecord
<1>2. nat[c] \in Ports /\ nat[c] \in had[c]
  BY DEF ConnectionsInv, RouterOK
<1>3. GoodPacket(GetChallengePacket(c))
  BY <1>2 DEF GoodPacket, GoodWhen, GetChallengePacket
<1>4. ASSUME client[c].state \in {"CHALLENGING", "CONNECTED"}
      PROVE  Known(client[c].challenge)
  BY <1>1, <1>4 DEF Known
<1>5. ASSUME client[c].state \in {"CHALLENGING", "CONNECTED"}
      PROVE  GoodPacket(ConnectPacket(c))
  BY <1>2, <1>4, <1>5 DEF GoodPacket, GoodWhen, ConnectPacket, Known
<1>6. ASSUME client[c].state \in {"CHALLENGING", "CONNECTED"}, NEW bye \in BOOLEAN
      PROVE  GoodPacket(ClientMessage(c, bye))
  BY <1>2, <1>4, <1>6 DEF GoodPacket, GoodWhen, ClientMessage, Known
<1>7. QED
  BY <1>3, <1>5, <1>6

\* The packets of a client that leaves are what the server may expect.
LEMMA FarewellGood ==
    ASSUME ConnectionsInv, NEW c \in Clients
    PROVE  \A q \in Farewell(c) : GoodPacket(q)
  BY ClientPackets DEF Farewell

\* A client that is offline has a client's fields.
LEMMA OfflineType == Offline \in ClientRecord
  BY DEF Offline, ClientRecord

-----------------------------------------------------------------------------
(* The server *)

\* At first every client has a port of its own.
LEMMA FirstPortsDiffer ==
    /\ FirstPorts \in [Clients -> Ports]
    /\ \A c, d \in Clients : FirstPorts[c] = FirstPorts[d] => c = d
<1>1. FirstPorts \in Injection(Clients, Ports)
  BY ConnectionsAssumption DEF FirstPorts
<1>2. QED
  BY <1>1 DEF Injection, IsInjective

\* The invariant holds at first.
LEMMA InitInv == Init => ConnectionsInv
<1> SUFFICES ASSUME Init PROVE ConnectionsInv
  OBVIOUS
<1>1. SlotsOK /\ OneSlotEach
  BY FreeSlotType DEF Init, ServerInit, SlotsOK, OneSlotEach, InUse
<1>2. ChallengesOK
  BY DEF Init, ServerInit, ChallengesOK, ChallengeRecord, NoChallenge
<1>3. ClientsOK
  BY OfflineType DEF Init, ServerInit, ClientsOK, Offline
<1>4. NetOK /\ GameOK
  BY DEF Init, ServerInit, NetOK, GameOK
<1>5. RouterOK
  BY FirstPortsDiffer DEF Init, RouterOK
<1>6. QED
  BY <1>1, <1>2, <1>3, <1>4, <1>5 DEF ConnectionsInv

\* SV_GetChallenge keeps it: the challenge that is given out is new.
LEMMA GetChallengeKeeps ==
    ASSUME ConnectionsInv, NEW p \in net, GetChallenge(p)
    PROVE  ConnectionsInv'
<1> DEFINE i == IF OpenChallenges(p.from) = {} THEN Oldest ELSE Min(OpenChallenges(p.from))
           new == [port |-> p.from, challenge |-> lastChallenge + 1, connected |-> FALSE]
<1>1. /\ lastChallenge \in Nat /\ DOMAIN challenges = 1 .. MAX_CHALLENGES
      /\ ChallengesOK /\ p.from \in Ports /\ NoPort \notin Ports
      /\ RouterOK' /\ HadGrows
  BY ConnectionsAssumption, RouterKept
     DEF ConnectionsInv, ChallengesOK, NetOK, GoodPacket, GoodWhen, GetChallenge
<1>2. ChallengesOK' /\ lastChallenge' \in Nat /\ lastChallenge <= lastChallenge'
  <2>1. CASE UNCHANGED <<challenges, lastChallenge>>
    BY <1>1, <2>1 DEF ChallengesOK
  <2>2. CASE /\ lastChallenge' = lastChallenge + 1
             /\ challenges' = [challenges EXCEPT ![Oldest] = new]
    <3>1. new \in ChallengeRecord /\ new.challenge # 0
      BY <1>1 DEF ChallengeRecord
    <3> HIDE DEF new
    <3>2. challenges' \in [1 .. MAX_CHALLENGES -> ChallengeRecord]
      BY <1>1, <2>2, <3>1 DEF ChallengesOK
    <3>3. \A j \in 1 .. MAX_CHALLENGES : challenges'[j] = challenges[j] \/ challenges'[j] = new
      BY <1>1, <2>2 DEF ChallengesOK
    <3>4. new.challenge = lastChallenge + 1
      BY DEF new
    <3>5. ASSUME NEW j \in 1 .. MAX_CHALLENGES
          PROVE  /\ challenges'[j].challenge <= lastChallenge'
                 /\ challenges'[j].port # NoPort => challenges'[j].challenge # 0
      BY <1>1, <2>2, <3>1, <3>3, <3>4 DEF ChallengesOK, ChallengeRecord
    <3>6. QED
      BY <1>1, <2>2, <3>2, <3>5 DEF ChallengesOK
  <2>3. QED
    BY <2>1, <2>2 DEF GetChallenge
<1>3. i \in 1 .. MAX_CHALLENGES /\ challenges'[i].port = p.from
  <2>1. CASE OpenChallenges(p.from) # {}
    <3>1. OpenChallenges(p.from) \in SUBSET Nat
      BY <1>1 DEF OpenChallenges
    <3>2. i \in OpenChallenges(p.from) /\ challenges' = challenges
      BY <2>1, <3>1, MinProperties DEF GetChallenge
    <3>3. QED
      BY <1>1, <3>2 DEF OpenChallenges
  <2>2. CASE OpenChallenges(p.from) = {}
    <3>1. i = Oldest /\ challenges' = [challenges EXCEPT ![Oldest] = new]
      BY <2>2 DEF GetChallenge
    <3>2. Oldest \in 1 .. MAX_CHALLENGES
      BY <1>1, OldestExists
    <3>3. QED
      BY <1>1, <3>1, <3>2 DEF ChallengesOK
  <2>3. QED
    BY <2>1, <2>2
<1> DEFINE made == challenges'[i].challenge
<1>4. made \in 1 .. lastChallenge'
  <2>1. challenges'[i] \in ChallengeRecord /\ made <= lastChallenge' /\ made # 0
    BY <1>1, <1>2, <1>3 DEF ChallengesOK
  <2>2. QED
    BY <1>2, <2>1 DEF ChallengeRecord
<1>5. NetOK'
  <2> DEFINE answer == OutOfBand("challengeResponse", p.from, made)
  <2>1. net' \subseteq net \cup {answer}
    BY DEF GetChallenge, Replied
  <2> HIDE DEF made
  <2>2. GoodWhen(answer, lastChallenge', had')
    BY <1>4 DEF GoodWhen, OutOfBand
  <2> HIDE DEF answer
  <2>3. QED
    BY <1>1, <1>2, <2>1, <2>2, NetAnswer
<1>6. SlotsOK' /\ OneSlotEach' /\ ClientsOK' /\ GameOK'
  BY <1>1, <1>2, SlotsUnchanged, ClientsUnchanged DEF GetChallenge, GameOK, ConnectionsInv
<1>7. QED
  BY <1>1, <1>2, <1>5, <1>6 DEF ConnectionsInv

\* So does the answer of the authorization server.
LEMMA AuthorizeIpPacketKeeps ==
    ASSUME ConnectionsInv, NEW i \in DOMAIN challenges, AuthorizeIpPacket(i)
    PROVE  ConnectionsInv'
<1>1. /\ lastChallenge' = lastChallenge /\ lastChallenge \in Nat
      /\ i \in 1 .. MAX_CHALLENGES /\ RouterOK' /\ HadGrows
  BY RouterKept DEF AuthorizeIpPacket, ConnectionsInv, ChallengesOK
<1>2. SlotsOK' /\ OneSlotEach' /\ ClientsOK' /\ GameOK'
  BY <1>1, SlotsUnchanged, ClientsUnchanged DEF AuthorizeIpPacket, GameOK, ConnectionsInv
<1>3. CASE challenges' = [challenges EXCEPT ![i] = NoChallenge] /\ net' = net
  <2>1. NoChallenge \in ChallengeRecord
    BY DEF NoChallenge, ChallengeRecord
  <2>2. ChallengesOK'
    BY <1>1, <1>3, <2>1 DEF ConnectionsInv, ChallengesOK, NoChallenge
  <2>3. NetOK'
    BY <1>1, <1>3, NetKept
  <2>4. QED
    BY <1>1, <1>2, <2>2, <2>3 DEF ConnectionsInv
<1> DEFINE made   == challenges[i].challenge
           answer == OutOfBand("challengeResponse", challenges[i].port, made)
<1>4. CASE challenges' = challenges /\ net' = net \cup {answer}
  <2>1. made \in 1 .. lastChallenge'
    BY <1>1 DEF AuthorizeIpPacket, ConnectionsInv, ChallengesOK, ChallengeRecord
  <2> HIDE DEF made
  <2>2. GoodWhen(answer, lastChallenge', had') /\ net' \subseteq net \cup {answer}
    BY <1>4, <2>1 DEF GoodWhen, OutOfBand
  <2> HIDE DEF answer
  <2>3. NetOK'
    BY <1>1, <2>2, NetAnswer
  <2>4. QED
    BY <1>1, <1>2, <1>4, <2>3, ChallengesMarked DEF ConnectionsInv
<1>5. QED
  BY <1>3, <1>4 DEF AuthorizeIpPacket

\* A slot that a connect may be for is the client's own, or that of a client who
\* came from the same port.
LEMMA SameClientIsAlike ==
    ASSUME ConnectionsInv, NEW p \in net, p.kind = "connect",
           NEW s \in SameClient(p)
    PROVE  /\ s \in Slots /\ InUse(s) /\ slot[s].qport \in Clients /\ p.qport \in Clients
           /\ slot[s].qport # p.qport => Alike(slot[s].qport, p.qport)
<1>1. /\ s \in Slots /\ InUse(s)
      /\ slot[s].qport = p.qport \/ slot[s].port = p.from
      /\ slot[s].qport \in Clients /\ slot[s].port \in had[slot[s].qport]
      /\ p.qport \in Clients /\ p.from \in had[p.qport]
  BY DEF ConnectionsInv, SameClient, InUse, NetOK, GoodPacket, GoodWhen, SlotsOK, UsedSlot
<1>2. QED
  BY <1>1 DEF Alike, SameClient, InUse

\* The slot SV_DirectConnect chooses is one of those it may choose.
LEMMA SlotForExists ==
    ASSUME NEW p, SlotFor(p) # {}
    PROVE  Min(SlotFor(p)) \in SlotFor(p) /\ Min(SlotFor(p)) \in Slots
<1>1. SlotFor(p) \in SUBSET Slots /\ Slots \in SUBSET Nat
  BY DEF SlotFor, SameClient, FreeSlots, Slots
<1>2. QED
  BY <1>1, MinProperties

\* Alike is who is like the other.
LEMMA AlikeIsMutual ==
    ASSUME NEW c \in Clients, NEW d \in Clients, Alike(d, c)
    PROVE  Alike(c, d) /\ TakenForAnother(c) /\ TakenForAnother(d)
  BY DEF Alike, TakenForAnother

\* The slot a client is let into: no other is its own, unless it has been taken
\* for another client.
LEMMA SlotForIsOwn ==
    ASSUME ConnectionsInv, NEW p \in net, p.kind = "connect", SlotFor(p) # {},
           NEW t \in Slots, InUse(t), slot[t].qport = p.qport, t # Min(SlotFor(p))
    PROVE  TakenForAnother(p.qport)
<1> DEFINE s == Min(SlotFor(p))
<1>1. t \in SameClient(p)
  BY DEF SameClient, InUse
<1>2. s \in SameClient(p)
  BY <1>1, SlotForExists DEF SlotFor
<1> HIDE DEF s
<1>3. /\ s \in Slots /\ InUse(s) /\ slot[s].qport \in Clients /\ p.qport \in Clients
      /\ slot[s].qport # p.qport => Alike(slot[s].qport, p.qport)
  BY <1>2, SameClientIsAlike
<1>4. CASE slot[s].qport = p.qport
  BY <1>3, <1>4 DEF ConnectionsInv, OneSlotEach, s
<1>5. CASE slot[s].qport # p.qport
  BY <1>3, <1>5, AlikeIsMutual
<1>6. QED
  BY <1>4, <1>5

\* A client that is let in gets a slot nobody else has, or the only one of a
\* client like it.
LEMMA AcceptKeeps ==
    ASSUME ConnectionsInv, NEW p \in net, p.kind = "connect", Valid(p) # {},
           SlotFor(p) # {}, Accept(p, Min(SlotFor(p))), lastChallenge' = lastChallenge,
           UNCHANGED router
    PROVE  SlotsOK' /\ OneSlotEach' /\ GameOK' /\ NetOK'
<1> DEFINE s == Min(SlotFor(p))
           r == [state |-> "CONNECTED", port |-> p.from, qport |-> p.qport,
                 challenge |-> p.challenge, recent |-> TRUE]
<1>1. s \in Slots
  BY SlotForExists
<1>2. /\ p.from \in Ports /\ p.qport \in Clients /\ p.from \in had[p.qport]
      /\ Known(p.challenge) /\ lastChallenge \in Nat
      /\ HadGrows /\ had' = had
  BY RouterKept DEF ConnectionsInv, NetOK, GoodPacket, GoodWhen, ChallengesOK, Known
<1>3. r \in SlotRecord /\ UsedSlot(r) /\ r.qport = p.qport
  BY <1>2 DEF SlotRecord, UsedSlot, Known
<1>4. \A t \in Slots : InUse(t) /\ t # s /\ slot[t].qport = r.qport =>
         TakenForAnother(r.qport)
  BY SlotForIsOwn
<1>5. slot' = [slot EXCEPT ![s] = r] /\ game' = [game EXCEPT ![s] = p.qport]
  BY DEF Accept
<1>6. NetOK'
  <2> DEFINE answer == OutOfBand("connectResponse", p.from, 0)
  <2>1. GoodWhen(answer, lastChallenge', had') /\ net' \subseteq net \cup {answer}
    BY DEF GoodWhen, OutOfBand, Accept, Replied
  <2> HIDE DEF answer
  <2>2. QED
    BY <1>2, <2>1, NetAnswer
<1>7. GameOK'
  BY <1>1, <1>2, <1>5 DEF GameOK, ConnectionsInv
<1> HIDE DEF r, s
<1>8. SlotsOK' /\ OneSlotEach'
  BY <1>1, <1>2, <1>3, <1>4, <1>5, SlotUpdate
<1>9. QED
  BY <1>6, <1>7, <1>8

\* A client that is refused changes the network alone.
LEMMA DenyKeeps ==
    ASSUME ConnectionsInv, NEW p \in net, NEW s \in Slots, Deny(p, s),
           lastChallenge' = lastChallenge, UNCHANGED router
    PROVE  SlotsOK' /\ OneSlotEach' /\ GameOK' /\ NetOK'
<1>1. SlotsOK' /\ OneSlotEach'
  BY FreeSlotType, SlotUpdate, RouterKept DEF Deny
<1>2. NetOK'
  BY NetKept, RouterKept DEF Deny, Replied
<1>3. QED
  BY <1>1, <1>2 DEF Deny, GameOK, ConnectionsInv

\* SV_DirectConnect keeps the invariant.
LEMMA DirectConnectKeeps ==
    ASSUME ConnectionsInv, NEW p \in net, DirectConnect(p)
    PROVE  ConnectionsInv'
<1>1. /\ lastChallenge' = lastChallenge /\ lastChallenge \in Nat /\ p.kind = "connect"
      /\ UNCHANGED router /\ RouterOK' /\ HadGrows
  BY RouterKept DEF DirectConnect, ConnectionsInv, ChallengesOK
<1>2. ClientsOK'
  BY <1>1, ClientsUnchanged DEF DirectConnect
<1>3. ChallengesOK'
  <2>1. CASE TooSoon(p) \/ Valid(p) = {}
    BY <1>1, <2>1, ChallengesMarked DEF DirectConnect, ConnectionsInv
  <2>2. CASE ~ (TooSoon(p) \/ Valid(p) = {})
    <3>1. Valid(p) \in SUBSET (1 .. MAX_CHALLENGES)
      BY DEF Valid, ConnectionsInv, ChallengesOK
    <3>2. Min(Valid(p)) \in 1 .. MAX_CHALLENGES
      BY <2>2, <3>1, MinProperties
    <3>3. challenges' = [challenges EXCEPT ![Min(Valid(p))].connected = TRUE]
      BY <2>2 DEF DirectConnect
    <3>4. QED
      BY <1>1, <3>2, <3>3, ChallengesMarked DEF ConnectionsInv
  <2>3. QED
    BY <2>1, <2>2
<1>4. SlotsOK' /\ OneSlotEach' /\ GameOK' /\ NetOK'
  <2>1. CASE net' = Replied(p, {}) /\ UNCHANGED <<slot, game>>
    <3>1. NetOK'
      BY <1>1, <2>1, NetKept DEF Replied
    <3>2. QED
      BY <1>1, <2>1, <3>1, SlotsUnchanged DEF GameOK, ConnectionsInv
  <2>2. CASE Valid(p) # {} /\ SlotFor(p) # {} /\ Accept(p, Min(SlotFor(p)))
    BY <1>1, <2>2, AcceptKeeps
  <2>3. CASE SlotFor(p) # {} /\ Deny(p, Min(SlotFor(p)))
    BY <1>1, <2>3, DenyKeeps, SlotForExists
  <2>4. QED
    BY <2>1, <2>2, <2>3 DEF DirectConnect
<1>5. QED
  BY <1>1, <1>2, <1>3, <1>4 DEF ConnectionsInv

\* A slot that is in use stays its client's: what else changes in it does not
\* matter here.
LEMMA DropClientKeeps ==
    ASSUME ConnectionsInv, NEW s \in Slots, InUse(s), NEW port, NEW left \in SlotRecord,
           DropClient(s, port, left), lastChallenge' = lastChallenge, had' = had,
           left.state # "FREE" => UsedSlot(left) /\ left.qport = slot[s].qport
    PROVE  SlotsOK' /\ OneSlotEach' /\ ChallengesOK' /\ GameOK'
<1>1. \A t \in Slots : InUse(t) /\ t # s /\ slot[t].qport = slot[s].qport =>
         TakenForAnother(slot[s].qport)
  BY DEF ConnectionsInv, OneSlotEach
<1>2. SlotsOK' /\ OneSlotEach'
  BY <1>1, SlotUpdate DEF DropClient
<1>3. ChallengesOK'
  BY ChallengesMarked, ClearFirstMarks DEF DropClient, ConnectionsInv
<1>4. GameOK'
  BY DEF DropClient, GameOK, ConnectionsInv
<1>5. QED
  BY <1>2, <1>3, <1>4

\* So does a packet from somebody who is connected, or was.
LEMMA PacketEventKeeps ==
    ASSUME ConnectionsInv, NEW p \in net, PacketEvent(p)
    PROVE  ConnectionsInv'
<1>1. /\ lastChallenge' = lastChallenge /\ lastChallenge \in Nat
      /\ p.from \in Ports /\ p.qport \in Clients /\ p.from \in had[p.qport]
      /\ RouterOK' /\ HadGrows /\ had' = had
  BY RouterKept DEF PacketEvent, ConnectionsInv, ChallengesOK, NetOK, GoodPacket, GoodWhen
<1>2. ClientsOK'
  BY <1>1, ClientsUnchanged DEF PacketEvent
<1>3. NetOK'
  <2> DEFINE answer == OutOfBand("disconnect", p.from, 0)
  <2>1. GoodWhen(answer, lastChallenge', had') /\ net' \subseteq net \cup {answer}
    BY DEF GoodWhen, OutOfBand, PacketEvent, Replied
  <2> HIDE DEF answer
  <2>2. QED
    BY <1>1, <2>1, NetAnswer
<1>4. SlotsOK' /\ OneSlotEach' /\ ChallengesOK' /\ GameOK'
  <2>1. CASE UNCHANGED <<slot, challenges, game>>
    BY <1>1, <2>1, SlotsUnchanged, ChallengesMarked DEF GameOK, ConnectionsInv
  <2>2. CASE SlotsOf(p.qport) # {}
    <3> DEFINE s     == Min(SlotsOf(p.qport))
               fixed == [slot[s] EXCEPT !.port = p.from]
    <3>1. s \in Slots /\ InUse(s) /\ slot[s].qport = p.qport
      <4>1. SlotsOf(p.qport) \in SUBSET Nat
        BY DEF SlotsOf, Slots
      <4>2. s \in SlotsOf(p.qport)
        BY <2>2, <4>1, MinProperties
      <4>3. QED
        BY <4>2 DEF SlotsOf, InUse
    <3>2. slot[s] \in SlotRecord /\ UsedSlot(slot[s])
      BY <3>1 DEF ConnectionsInv, SlotsOK
    <3>3. /\ fixed \in SlotRecord /\ fixed.qport = p.qport /\ UsedSlot(fixed)
          /\ Zombie(fixed) \in SlotRecord /\ Zombie(fixed).qport = p.qport
          /\ UsedSlot(Zombie(fixed))
      BY <1>1, <3>1, <3>2 DEF SlotRecord, UsedSlot, Known, Zombie
    <3>4. \A t \in Slots : InUse(t) /\ t # s /\ slot[t].qport = p.qport =>
             TakenForAnother(p.qport)
      BY <3>1 DEF ConnectionsInv, OneSlotEach
    <3>5. \/ slot' = [slot EXCEPT ![s] = fixed] /\ UNCHANGED <<challenges, game>>
          \/ DropClient(s, p.from, Zombie(fixed))
      BY <2>2 DEF PacketEvent
    <3> HIDE DEF s, fixed
    <3>6. CASE slot' = [slot EXCEPT ![s] = fixed] /\ UNCHANGED <<challenges, game>>
      <4>1. SlotsOK' /\ OneSlotEach'
        BY <1>1, <3>1, <3>3, <3>4, <3>6, SlotUpdate
      <4>2. QED
        BY <1>1, <3>6, <4>1, ChallengesMarked DEF GameOK, ConnectionsInv
    <3>7. CASE DropClient(s, p.from, Zombie(fixed))
      BY <1>1, <3>1, <3>3, <3>7, DropClientKeeps
    <3>8. QED
      BY <3>5, <3>6, <3>7
  <2>3. QED
    BY <2>1, <2>2 DEF PacketEvent
<1>5. QED
  BY <1>1, <1>2, <1>3, <1>4 DEF ConnectionsInv

\* A slot whose client is dropped becomes a zombie's.
LEMMA DroppedKeeps ==
    ASSUME ConnectionsInv, NEW s \in Slots, Kick(s) \/ TimeOut(s)
    PROVE  ConnectionsInv'
<1>1. /\ lastChallenge' = lastChallenge /\ lastChallenge \in Nat
      /\ InUse(s) /\ slot[s] \in SlotRecord /\ UsedSlot(slot[s])
      /\ RouterOK' /\ HadGrows /\ had' = had
  BY RouterKept DEF Kick, TimeOut, ConnectionsInv, ChallengesOK, SlotsOK, InUse
<1>2. ClientsOK' /\ NetOK'
  BY <1>1, ClientsUnchanged, NetKept DEF Kick, TimeOut
<1>3. /\ Zombie(slot[s]) \in SlotRecord /\ Zombie(slot[s]).qport = slot[s].qport
      /\ UsedSlot(Zombie(slot[s]))
  BY <1>1 DEF SlotRecord, UsedSlot, Known, Zombie
<1>4. SlotsOK' /\ OneSlotEach' /\ ChallengesOK' /\ GameOK'
  <2>1. CASE Kick(s)
    BY <1>1, <1>3, <2>1, DropClientKeeps DEF Kick
  <2>2. CASE TimeOut(s)
    BY <1>1, <2>2, FreeSlotType, DropClientKeeps DEF TimeOut
  <2>3. QED
    BY <2>1, <2>2
<1>5. QED
  BY <1>1, <1>2, <1>4 DEF ConnectionsInv

\* Time passes for slots: timeouts, zombies that expire, the reconnect limit.
LEMMA SlotTimesKeep ==
    ASSUME ConnectionsInv, NEW s \in Slots,
           SendMessage(s) \/ ZombieExpires(s) \/ ReconnectLimitPasses(s)
    PROVE  ConnectionsInv'
<1>1. /\ lastChallenge' = lastChallenge /\ lastChallenge \in Nat
      /\ ChallengesOK' /\ GameOK' /\ ClientsOK' /\ RouterOK' /\ HadGrows /\ had' = had
  BY RouterKept DEF SendMessage, ZombieExpires, ReconnectLimitPasses, ConnectionsInv,
         ChallengesOK, GameOK, ClientsOK
<1>2. CASE SendMessage(s)
  <2>1. SlotsOK' /\ OneSlotEach'
    BY <1>1, <1>2, SlotsUnchanged DEF SendMessage
  <2>2. GoodWhen(ServerMessage(s), lastChallenge', had')
    BY DEF GoodWhen, ServerMessage
  <2>3. NetOK'
    BY <1>1, <1>2, <2>2, NetAnswer DEF SendMessage
  <2>4. QED
    BY <1>1, <2>1, <2>3 DEF ConnectionsInv
<1>3. CASE ZombieExpires(s) \/ ReconnectLimitPasses(s)
  <2>1. NetOK'
    BY <1>1, <1>3, NetKept DEF ZombieExpires, ReconnectLimitPasses
  <2>2. CASE ZombieExpires(s)
    BY <1>1, <2>2, FreeSlotType, SlotUpdate, <2>1 DEF ZombieExpires, ConnectionsInv
  <2>3. CASE ReconnectLimitPasses(s)
    <3> DEFINE r == [slot[s] EXCEPT !.recent = FALSE]
    <3>1. slot[s] \in SlotRecord /\ UsedSlot(slot[s]) /\ InUse(s)
      BY <2>3 DEF ReconnectLimitPasses, ConnectionsInv, SlotsOK, InUse
    <3>2. r \in SlotRecord /\ UsedSlot(r) /\ r.qport = slot[s].qport
      BY <3>1 DEF SlotRecord, UsedSlot, Known
    <3>3. slot' = [slot EXCEPT ![s] = r]
      BY <2>3 DEF ReconnectLimitPasses
    <3>4. \A t \in Slots : InUse(t) /\ t # s /\ slot[t].qport = slot[s].qport =>
             TakenForAnother(slot[s].qport)
      BY <3>1 DEF ConnectionsInv, OneSlotEach
    <3> HIDE DEF r
    <3>5. SlotsOK' /\ OneSlotEach'
      BY <1>1, <3>2, <3>3, <3>4, SlotUpdate
    <3>6. QED
      BY <1>1, <2>1, <3>5 DEF ConnectionsInv
  <2>4. QED
    BY <1>3, <2>2, <2>3
<1>4. QED
  BY <1>2, <1>3

\* A server that crashes and starts again has empty slots.
LEMMA CrashKeeps ==
    ASSUME ConnectionsInv, Crash
    PROVE  ConnectionsInv'
<1>1. /\ lastChallenge' = lastChallenge /\ lastChallenge \in Nat
      /\ RouterOK' /\ HadGrows
  BY RouterKept DEF Crash, ConnectionsInv, ChallengesOK
<1>2. SlotsOK' /\ OneSlotEach'
  BY FreeSlotType DEF Crash, SlotsOK, OneSlotEach, InUse
<1>3. ChallengesOK'
  BY <1>1 DEF Crash, ChallengesOK, ChallengeRecord, NoChallenge
<1>4. ClientsOK' /\ NetOK' /\ GameOK'
  BY <1>1, ClientsUnchanged, NetKept DEF Crash, GameOK
<1>5. QED
  BY <1>1, <1>2, <1>3, <1>4 DEF ConnectionsInv

-----------------------------------------------------------------------------
(* The clients and the network *)

\* What a client does leaves the server alone.
LEMMA ServerKept ==
    ASSUME ConnectionsInv, UNCHANGED serverVars, HadGrows
    PROVE  /\ SlotsOK' /\ OneSlotEach' /\ ChallengesOK' /\ GameOK'
           /\ lastChallenge' = lastChallenge /\ lastChallenge \in Nat
<1>1. /\ slot' = slot /\ challenges' = challenges /\ game' = game
      /\ lastChallenge' = lastChallenge /\ lastChallenge \in Nat
  BY DEF serverVars, ConnectionsInv, ChallengesOK
<1>2. QED
  BY <1>1, SlotsUnchanged, ChallengesMarked DEF ConnectionsInv, GameOK

\* A client ends its connection, or begins another.
LEMMA LeavesKeeps ==
    ASSUME ConnectionsInv, NEW c \in Clients, UNCHANGED serverVars, UNCHANGED router,
           \E new \in {Offline, [Offline EXCEPT !.state = "CONNECTING"]} :
              client' = [client EXCEPT ![c] = new],
           net' \subseteq net \cup Farewell(c)
    PROVE  ConnectionsInv'
<1>1. PICK new \in {Offline, [Offline EXCEPT !.state = "CONNECTING"]} :
         client' = [client EXCEPT ![c] = new]
  OBVIOUS
<1>2. /\ new \in ClientRecord /\ new.challenge = 0
      /\ new.state \notin {"CHALLENGING", "CONNECTED"}
  <2>1. CASE new = Offline
    BY <2>1 DEF Offline, ClientRecord
  <2>2. CASE new = [Offline EXCEPT !.state = "CONNECTING"]
    <3>1. new = [state |-> "CONNECTING", challenge |-> 0, quiet |-> FALSE]
      BY <2>2 DEF Offline
    <3>2. QED
      BY <3>1 DEF ClientRecord
  <2>3. QED
    BY <1>1, <2>1, <2>2
<1>3. /\ lastChallenge' = lastChallenge /\ lastChallenge \in Nat
      /\ RouterOK' /\ HadGrows /\ had' = had
  BY RouterKept, ServerKept
<1>4. ClientsOK'
  <2>1. /\ new.challenge <= lastChallenge
        /\ new.state \in {"CHALLENGING", "CONNECTED"} <=> new.challenge # 0
    BY <1>2, <1>3
  <2>2. QED
    BY <1>1, <1>2, <1>3, <2>1, ClientUpdate
<1>5. \A q \in Farewell(c) : GoodWhen(q, lastChallenge', had')
  BY <1>3, FarewellGood DEF GoodPacket
<1>6. NetOK'
  BY <1>3, <1>5, NetUpdate
<1>7. QED
  BY <1>3, <1>4, <1>6, ServerKept DEF ConnectionsInv

\* A client that connects has neither challenge nor slot yet.
LEMMA ConnectKeeps ==
    ASSUME ConnectionsInv, NEW c \in Clients, Connect(c) \/ Disconnect(c) \/ CheckTimeout(c)
    PROVE  ConnectionsInv'
<1>1. /\ UNCHANGED serverVars /\ UNCHANGED router
      /\ net' \subseteq net \cup Farewell(c)
      /\ \E new \in {Offline, [Offline EXCEPT !.state = "CONNECTING"]} :
            client' = [client EXCEPT ![c] = new]
  BY DEF Connect, Disconnect, CheckTimeout, serverVars
<1>2. QED
  BY <1>1, LeavesKeeps

\* What a client sends is good.
LEMMA SendsKeep ==
    ASSUME ConnectionsInv, NEW c \in Clients, CheckForResend(c) \/ WritePacket(c)
    PROVE  ConnectionsInv'
<1>1. UNCHANGED serverVars /\ client' = client /\ UNCHANGED router
  BY DEF CheckForResend, WritePacket, serverVars
<1>2. /\ lastChallenge' = lastChallenge /\ lastChallenge \in Nat
      /\ RouterOK' /\ HadGrows /\ had' = had
  BY <1>1, RouterKept, ServerKept
<1>3. \/ net' = net \cup {GetChallengePacket(c)}
      \/ net' = net \cup {ConnectPacket(c)} /\ client[c].state = "CHALLENGING"
      \/ net' = net \cup {ClientMessage(c, FALSE)} /\ client[c].state = "CONNECTED"
  BY DEF CheckForResend, WritePacket
<1>4. \E sent : net' = net \cup {sent} /\ GoodPacket(sent)
  BY <1>3, ClientPackets
<1>5. NetOK'
  <2>1. PICK sent : net' = net \cup {sent} /\ GoodPacket(sent)
    BY <1>4
  <2>2. GoodWhen(sent, lastChallenge', had') /\ lastChallenge <= lastChallenge'
    BY <1>2, <2>1 DEF GoodPacket
  <2>3. net' \subseteq net \cup {sent}
    BY <2>1
  <2>4. QED
    BY <1>2, <2>2, <2>3, NetAnswer
<1>6. ClientsOK'
  BY <1>1, <1>2, ClientsUnchanged
<1>7. QED
  BY <1>1, <1>2, <1>5, <1>6, ServerKept DEF ConnectionsInv

\* A client that stays as it was but for what it has heard, or goes from one
\* state of its connection to the next.
LEMMA StaysKeeps ==
    ASSUME ConnectionsInv, NEW c \in Clients, NEW new \in ClientRecord,
           UNCHANGED serverVars, UNCHANGED router, client' = [client EXCEPT ![c] = new],
           net' \subseteq net, new.challenge <= lastChallenge,
           new.state \in {"CHALLENGING", "CONNECTED"} <=> new.challenge # 0
    PROVE  ConnectionsInv'
<1>1. /\ lastChallenge' = lastChallenge /\ lastChallenge \in Nat
      /\ RouterOK' /\ HadGrows
  BY RouterKept, ServerKept
<1>2. NetOK' /\ ClientsOK'
  BY <1>1, NetKept, ClientUpdate
<1>3. QED
  BY <1>1, <1>2, ServerKept DEF ConnectionsInv

\* What a client hears gives it only what the server gave out.
LEMMA HearsKeeps ==
    ASSUME ConnectionsInv, NEW c \in Clients, NEW p \in net,
           \/ ChallengeResponse(c, p) \/ ConnectResponse(c, p)
           \/ DisconnectPacket(c, p) \/ ServerMessageArrives(c, p)
    PROVE  ConnectionsInv'
<1> DEFINE answered == [Heard(c) EXCEPT !.state = "CHALLENGING", !.challenge = p.challenge]
           connected == [Heard(c) EXCEPT !.state = "CONNECTED"]
<1>1. UNCHANGED serverVars /\ UNCHANGED router
  BY DEF ChallengeResponse, ConnectResponse, DisconnectPacket, ServerMessageArrives, Hears,
         serverVars
<1>2. /\ client[c] \in ClientRecord /\ client[c].challenge <= lastChallenge
      /\ client[c].state \in {"CHALLENGING", "CONNECTED"} <=> client[c].challenge # 0
      /\ lastChallenge \in Nat
  BY DEF ConnectionsInv, ClientsOK, ChallengesOK
<1>3. CASE Becomes(c, p, Heard(c), {})
  <2>1. /\ Heard(c) \in ClientRecord /\ Heard(c).challenge = client[c].challenge
        /\ Heard(c).state = client[c].state
    BY <1>2 DEF Heard, ClientRecord
  <2>2. client' = [client EXCEPT ![c] = Heard(c)] /\ net' \subseteq net
    BY <1>3 DEF Becomes, Replied
  <2>3. QED
    BY <1>1, <1>2, <2>1, <2>2, StaysKeeps
<1>4. CASE p.kind = "challengeResponse" /\ Becomes(c, p, answered, {})
  <2>1. p.challenge \in Nat /\ p.challenge <= lastChallenge /\ p.challenge # 0
    BY <1>2, <1>4 DEF ConnectionsInv, NetOK, GoodPacket, GoodWhen
  <2>2. /\ answered \in ClientRecord /\ answered.challenge = p.challenge
        /\ answered.state = "CHALLENGING"
    BY <1>2, <2>1 DEF Heard, ClientRecord
  <2>3. client' = [client EXCEPT ![c] = answered] /\ net' \subseteq net
    BY <1>4 DEF Becomes, Replied
  <2> HIDE DEF answered
  <2>4. QED
    BY <1>1, <2>1, <2>2, <2>3, StaysKeeps
<1>5. CASE AwaitsConnectResponse(c) /\ Becomes(c, p, connected, {})
  <2>1. /\ connected \in ClientRecord /\ connected.challenge = client[c].challenge
        /\ connected.state = "CONNECTED" /\ client[c].challenge # 0
    BY <1>2, <1>5 DEF Heard, ClientRecord, AwaitsConnectResponse
  <2>2. client' = [client EXCEPT ![c] = connected] /\ net' \subseteq net
    BY <1>5 DEF Becomes, Replied
  <2> HIDE DEF connected
  <2>3. QED
    BY <1>1, <1>2, <2>1, <2>2, StaysKeeps
<1>6. CASE Becomes(c, p, Offline, Farewell(c))
  <2>1. client' = [client EXCEPT ![c] = Offline] /\ net' \subseteq net \cup Farewell(c)
    BY <1>6 DEF Becomes, Replied
  <2>2. QED
    BY <1>1, <2>1, LeavesKeeps
<1>7. QED
  BY <1>3, <1>4, <1>5, <1>6
     DEF ChallengeResponse, ConnectResponse, DisconnectPacket, ServerMessageArrives

\* A client that times out or leaves.
LEMMA NothingHeardKeeps ==
    ASSUME ConnectionsInv, NEW c \in Clients, NothingHeard(c)
    PROVE  ConnectionsInv'
<1> DEFINE new == [client[c] EXCEPT !.quiet = TRUE]
<1>1. /\ client[c] \in ClientRecord /\ client[c].challenge <= lastChallenge
      /\ client[c].state \in {"CHALLENGING", "CONNECTED"} <=> client[c].challenge # 0
  BY DEF ConnectionsInv, ClientsOK
<1>2. /\ new \in ClientRecord /\ new.challenge = client[c].challenge
      /\ new.state = client[c].state
  BY <1>1 DEF ClientRecord
<1>3. /\ client' = [client EXCEPT ![c] = new] /\ net' \subseteq net
      /\ UNCHANGED serverVars /\ UNCHANGED router
  BY DEF NothingHeard, serverVars
<1> HIDE DEF new
<1>4. QED
  BY <1>1, <1>2, <1>3, StaysKeeps

\* The router may give its ports to any of its clients, or lose a packet.
LEMMA RouterKeeps ==
    ASSUME ConnectionsInv, Rebind \/ \E p \in net : Lose(p)
    PROVE  ConnectionsInv'
<1>1. UNCHANGED serverVars /\ client' = client /\ net' \subseteq net
  BY DEF Rebind, Lose, serverVars
<1>2. RouterOK' /\ HadGrows
  <2>1. CASE Rebind
    <3>1. nat' \in [Clients -> Ports]
      BY <2>1 DEF Rebind, Injection
    <3>2. QED
      BY <2>1, <3>1 DEF Rebind, RouterOK, HadGrows, ConnectionsInv
  <2>2. CASE \E p \in net : Lose(p)
    BY <2>2, RouterKept DEF Lose
  <2>3. QED
    BY <2>1, <2>2
<1>3. ClientsOK'
  BY <1>1, <1>2, ServerKept, ClientsUnchanged
<1>4. QED
  BY <1>1, <1>2, <1>3, ServerKept, NetKept DEF ConnectionsInv

\* Nothing happens.
LEMMA StutterKeeps ==
    ASSUME ConnectionsInv, UNCHANGED vars
    PROVE  ConnectionsInv'
<1>1. UNCHANGED serverVars /\ client' = client /\ UNCHANGED router /\ net' \subseteq net
  BY DEF vars, serverVars, router
<1>2. QED
  BY <1>1, RouterKept, ServerKept, NetKept, ClientsUnchanged DEF ConnectionsInv

\* Every step keeps the invariant.
LEMMA NextKeeps ==
    ASSUME ConnectionsInv, [Next]_vars
    PROVE  ConnectionsInv'
<1>1. CASE ServerReceives
  BY <1>1, GetChallengeKeeps, DirectConnectKeeps, PacketEventKeeps DEF ServerReceives
<1>2. ASSUME NEW s \in Slots,
             \/ Kick(s) \/ SendMessage(s) \/ TimeOut(s) \/ ZombieExpires(s)
             \/ ReconnectLimitPasses(s)
      PROVE  ConnectionsInv'
  BY <1>2, DroppedKeeps, SlotTimesKeep
<1>3. CASE Crash
  BY <1>3, CrashKeeps
<1>4. ASSUME NEW c \in Clients,
             \/ Connect(c) \/ Disconnect(c) \/ CheckForResend(c) \/ WritePacket(c)
             \/ ClientReceives(c) \/ NothingHeard(c) \/ CheckTimeout(c)
      PROVE  ConnectionsInv'
  BY <1>4, ConnectKeeps, SendsKeep, HearsKeeps, NothingHeardKeeps DEF ClientReceives
<1>5. CASE Rebind \/ (\E p \in net : Lose(p))
  BY <1>5, RouterKeeps
<1>6. CASE \E i \in DOMAIN challenges : AuthorizeIpPacket(i)
  BY <1>6, AuthorizeIpPacketKeeps
<1>7. CASE UNCHANGED vars
  BY <1>7, StutterKeeps
<1>8. QED
  BY <1>1, <1>2, <1>3, <1>4, <1>5, <1>6, <1>7 DEF Next

\* So it always holds.
LEMMA ConnectionsInvariant == Spec => []ConnectionsInv
<1>1. Init => ConnectionsInv
  BY InitInv
<1>2. ConnectionsInv /\ [Next]_vars => ConnectionsInv'
  BY NextKeeps
<1>3. QED
  BY <1>1, <1>2, PTL DEF Spec

-----------------------------------------------------------------------------
(* The theorems *)

\* The state is always well formed; in particular every challenge that a slot,
\* a client or the table holds is one the server made.
THEOREM TypeCorrect == Spec => []TypeOK
<1>1. ConnectionsInv => TypeOK
  BY DEF ConnectionsInv, SlotsOK, ChallengesOK, ClientsOK, GameOK, TypeOK, InUse,
         UsedSlot, Known, SlotRecord, ChallengeRecord, ClientRecord
<1>2. QED
  BY <1>1, ConnectionsInvariant, PTL

\* No two slots are ever for one client or known by one port, however often clients
\* reconnect and the router changes their ports, but for clients whose port
\* has been another's too (the "reuse a slot" loop of SV_DirectConnect and the
\* port fix-up of SV_PacketEvent).
THEOREM OneSlot == Spec => []OneSlotEach
<1>1. ConnectionsInv => OneSlotEach
  BY DEF ConnectionsInv
<1>2. QED
  BY <1>1, ConnectionsInvariant, PTL

-----------------------------------------------------------------------------
(* What the game knows *)

\* A step that changes one slot, and what the game is told of it.
LEMMA GameUpdate ==
    ASSUME ConnectionsInv, GameKnowsClients, NEW s \in Slots, NEW r, NEW player,
           slot' = [slot EXCEPT ![s] = r], game' = [game EXCEPT ![s] = player],
           player = IF r.state = "CONNECTED" THEN r.qport ELSE Nobody
    PROVE  GameKnowsClients'
<1>1. /\ slot'[s] = r /\ game'[s] = player
      /\ \A t \in Slots : t # s => slot'[t] = slot[t] /\ game'[t] = game[t]
  BY DEF ConnectionsInv, SlotsOK, GameOK
<1>2. QED
  BY <1>1 DEF GameKnowsClients

\* The same when the game is not told.
LEMMA GameUntold ==
    ASSUME ConnectionsInv, GameKnowsClients, NEW s \in Slots, NEW r,
           slot' = [slot EXCEPT ![s] = r], game' = game,
           r.state = slot[s].state \/ (r.state # "CONNECTED" /\ slot[s].state # "CONNECTED"),
           r.qport = slot[s].qport \/ r.state # "CONNECTED"
    PROVE  GameKnowsClients'
<1>1. /\ slot'[s] = r
      /\ \A t \in Slots : t # s => slot'[t] = slot[t]
  BY DEF ConnectionsInv, SlotsOK
<1>2. QED
  BY <1>1 DEF GameKnowsClients

\* When SV_DropClient is done the game has been told.
LEMMA DropClientTold ==
    ASSUME ConnectionsInv, GameKnowsClients, NEW s \in Slots, NEW port, NEW left,
           DropClient(s, port, left), left.state # "CONNECTED"
    PROVE  GameKnowsClients'
  BY GameUpdate DEF DropClient

\* After a start the game knows nobody, and no slot is taken.
LEMMA FreshSlotsAreUnknown ==
    ASSUME slot' = [s \in Slots |-> FreeSlot], game' = [s \in Slots |-> Nobody]
    PROVE  GameKnowsClients'
  BY DEF GameKnowsClients, FreeSlot

\* Only a slot that was free is cleared by a game that lets everyone reconnect.
LEMMA DenyKnows ==
    ASSUME ConnectionsInv, GameKnowsClients, "reconnect" \notin Denies, NEW p,
           SlotFor(p) # {}, Deny(p, Min(SlotFor(p)))
    PROVE  GameKnowsClients'
<1> DEFINE s == Min(SlotFor(p))
<1>1. s \in Slots /\ slot[s].state = "FREE"
  BY SlotForExists DEF Deny, MayBeDenied, SlotFor, FreeSlots
<1>2. slot' = [slot EXCEPT ![s] = FreeSlot] /\ game' = game
  BY DEF Deny
<1> HIDE DEF s
<1>3. QED
  BY <1>1, <1>2, FreeSlotType, GameUntold

\* The game learns of a client with the slot it gets.
LEMMA AcceptKnows ==
    ASSUME ConnectionsInv, GameKnowsClients, NEW p, NEW s \in Slots, Accept(p, s)
    PROVE  GameKnowsClients'
<1> DEFINE r == [state |-> "CONNECTED", port |-> p.from, qport |-> p.qport,
                 challenge |-> p.challenge, recent |-> TRUE]
<1>1. slot' = [slot EXCEPT ![s] = r] /\ game' = [game EXCEPT ![s] = p.qport]
  BY DEF Accept
<1>2. r.state = "CONNECTED" /\ r.qport = p.qport
  OBVIOUS
<1> HIDE DEF r
<1>3. QED
  BY <1>1, <1>2, GameUpdate

\* Packets of connected clients: only a disconnect concerns the game.
LEMMA PacketEventKnows ==
    ASSUME ConnectionsInv, GameKnowsClients, NEW p \in net, PacketEvent(p)
    PROVE  GameKnowsClients'
<1>1. CASE UNCHANGED <<slot, game>>
  BY <1>1 DEF GameKnowsClients
<1>2. CASE SlotsOf(p.qport) # {}
  <2> DEFINE s     == Min(SlotsOf(p.qport))
             fixed == [slot[s] EXCEPT !.port = p.from]
  <2>1. s \in Slots
    BY <1>2, MinProperties DEF SlotsOf, Slots
  <2>2. slot[s] \in SlotRecord
    BY <2>1 DEF ConnectionsInv, SlotsOK
  <2>3. /\ fixed.state = slot[s].state /\ fixed.qport = slot[s].qport
        /\ Zombie(fixed).state = "ZOMBIE"
    BY <2>2 DEF SlotRecord, Zombie
  <2>4. \/ slot' = [slot EXCEPT ![s] = fixed] /\ game' = game
        \/ DropClient(s, p.from, Zombie(fixed))
    BY <1>2 DEF PacketEvent
  <2> HIDE DEF s, fixed
  <2>5. QED
    BY <2>1, <2>3, <2>4, GameUntold, DropClientTold
<1>3. QED
  BY <1>1, <1>2 DEF PacketEvent

\* The server's own steps tell the game of those they drop.
LEMMA SlotStepKnows ==
    ASSUME ConnectionsInv, GameKnowsClients, NEW s \in Slots,
           \/ Kick(s) \/ TimeOut(s) \/ SendMessage(s) \/ ZombieExpires(s)
           \/ ReconnectLimitPasses(s)
    PROVE  GameKnowsClients'
<1>1. slot[s] \in SlotRecord
  BY DEF ConnectionsInv, SlotsOK
<1>2. CASE Kick(s)
  <2>1. Zombie(slot[s]).state = "ZOMBIE"
    BY <1>1 DEF SlotRecord, Zombie
  <2>2. QED
    BY <1>2, <2>1, DropClientTold DEF Kick
<1>3. CASE TimeOut(s)
  BY <1>3, FreeSlotType, DropClientTold DEF TimeOut
<1>4. CASE SendMessage(s)
  BY <1>4 DEF SendMessage, GameKnowsClients
<1>5. CASE ZombieExpires(s)
  BY <1>5, FreeSlotType, GameUntold DEF ZombieExpires
<1>6. CASE ReconnectLimitPasses(s)
  <2> DEFINE r == [slot[s] EXCEPT !.recent = FALSE]
  <2>1. r.state = slot[s].state /\ r.qport = slot[s].qport
    BY <1>1 DEF SlotRecord
  <2>2. slot' = [slot EXCEPT ![s] = r] /\ game' = game
    BY <1>6 DEF ReconnectLimitPasses
  <2> HIDE DEF r
  <2>3. QED
    BY <2>1, <2>2, GameUntold
<1>7. QED
  BY <1>2, <1>3, <1>4, <1>5, <1>6

\* Steps of the clients, the network and the authorization server do not concern
\* the game.
LEMMA OthersKeepServer ==
    ASSUME [Next]_vars
    PROVE  \/ UNCHANGED <<slot, game>>
           \/ \E p \in net : DirectConnect(p) \/ PacketEvent(p)
           \/ \E s \in Slots :
                 \/ Kick(s) \/ TimeOut(s) \/ SendMessage(s) \/ ZombieExpires(s)
                 \/ ReconnectLimitPasses(s)
           \/ Crash
<1>1. ASSUME NEW p \in net, GetChallenge(p) \/ Lose(p)
      PROVE  UNCHANGED <<slot, game>>
  BY <1>1 DEF GetChallenge, Lose
<1>2. ASSUME NEW c \in Clients, ClientReceives(c)
      PROVE  UNCHANGED <<slot, game>>
  BY <1>2 DEF ClientReceives, ChallengeResponse, ConnectResponse, DisconnectPacket,
              ServerMessageArrives, Hears
<1>3. ASSUME NEW c \in Clients,
             \/ Connect(c) \/ Disconnect(c) \/ CheckForResend(c) \/ WritePacket(c)
             \/ NothingHeard(c) \/ CheckTimeout(c)
      PROVE  UNCHANGED <<slot, game>>
  BY <1>3 DEF Connect, Disconnect, CheckForResend, WritePacket, NothingHeard, CheckTimeout
<1>4. ASSUME Rebind \/ \E i \in DOMAIN challenges : AuthorizeIpPacket(i)
      PROVE  UNCHANGED <<slot, game>>
  BY <1>4 DEF Rebind, AuthorizeIpPacket
<1>5. UNCHANGED vars => UNCHANGED <<slot, game>>
  BY DEF vars
<1>6. QED
  BY <1>1, <1>2, <1>3, <1>4, <1>5 DEF Next, ServerReceives

\* Every step keeps the game informed.
LEMMA NextKnows ==
    ASSUME ConnectionsInv, GameKnowsClients, "reconnect" \notin Denies, [Next]_vars
    PROVE  GameKnowsClients'
<1>1. CASE UNCHANGED <<slot, game>>
  BY <1>1 DEF GameKnowsClients
<1>2. ASSUME NEW p \in net, DirectConnect(p)
      PROVE  GameKnowsClients'
  <2>1. \/ UNCHANGED <<slot, game>>
        \/ SlotFor(p) # {} /\ Accept(p, Min(SlotFor(p)))
        \/ SlotFor(p) # {} /\ Deny(p, Min(SlotFor(p)))
    BY <1>2 DEF DirectConnect
  <2>2. QED
    BY <1>1, <2>1, SlotForExists, AcceptKnows, DenyKnows
<1>3. CASE Crash
  BY <1>3, FreshSlotsAreUnknown DEF Crash
<1>4. QED
  BY <1>1, <1>2, <1>3, PacketEventKnows, SlotStepKnows, OthersKeepServer

\* The game knows of exactly the clients that are connected, as long as it lets
\* everyone who is in connect again: SV_DirectConnect clears the slot before it
\* asks the game, and does not tell it that the client in it has gone.
THEOREM GameKnows ==
    ASSUME "reconnect" \notin Denies
    PROVE  Spec => []GameKnowsClients
<1>1. Init => GameKnowsClients
  BY DEF Init, ServerInit, GameKnowsClients, FreeSlot
<1>2. ConnectionsInv /\ GameKnowsClients /\ [Next]_vars => GameKnowsClients'
  BY NextKnows
<1>3. QED
  BY <1>1, <1>2, ConnectionsInvariant, PTL DEF Spec

\* Roster's pairs: both are clients that had one port.
LEMMA PairsAreAlike ==
    ASSUME NEW c \in Clients, NEW d \in Clients
    PROVE  <<c, d>> \in AlikePairs <=> Alike(c, d)
  BY DEF AlikePairs

\* Only a change of ports makes clients alike.
LEMMA PairsKept ==
    ASSUME had' = had
    PROVE  AlikePairs' = AlikePairs
  BY DEF AlikePairs, Alike

\* SV_DirectConnect gives a client number to nobody new while it is taken, and
\* no second one to a client that has one, but among clients that are alike.
LEMMA AcceptRefines ==
    ASSUME ConnectionsInv, GameKnowsClients, NEW p \in net, p.kind = "connect",
           SlotFor(p) # {}, Accept(p, Min(SlotFor(p))), AlikePairs' = AlikePairs
    PROVE  [Players!Next]_<<game, AlikePairs>>
<1> DEFINE s == Min(SlotFor(p))
<1>1. s \in Slots /\ s \in SlotFor(p) /\ game' = [game EXCEPT ![s] = p.qport]
  BY SlotForExists DEF Accept
<1>2. p.qport \in Clients /\ p.qport # Nobody
  BY ConnectionsAssumption DEF ConnectionsInv, NetOK, GoodPacket, GoodWhen
<1>3. ASSUME NEW t \in Slots, game[t] = p.qport, t # s
      PROVE  \E q \in Clients : <<p.qport, q>> \in AlikePairs
  <2>1. InUse(t) /\ slot[t].qport = p.qport
    BY <1>2, <1>3 DEF GameKnowsClients, InUse
  <2>2. TakenForAnother(p.qport)
    BY <1>3, <2>1, SlotForIsOwn
  <2>3. QED
    BY <1>2, <2>2, PairsAreAlike DEF TakenForAnother
<1>4. Players!OnlyNumber(s, p.qport)
  BY <1>3 DEF Players!OnlyNumber
<1> HIDE DEF s
<1>5. CASE game[s] = p.qport
  <2>1. game' = game
    BY <1>1, <1>5 DEF ConnectionsInv, GameOK
  <2>2. QED
    BY <2>1
<1>6. CASE game[s] # p.qport
  <2>1. slot[s].state # "CONNECTED" => game[s] = Nobody
    BY <1>1 DEF GameKnowsClients
  <2>2. ASSUME slot[s].state = "CONNECTED"
        PROVE  <<game[s], p.qport>> \in AlikePairs
    <3>1. s \in SameClient(p) /\ game[s] = slot[s].qport
      BY <1>1, <2>2 DEF SlotFor, FreeSlots, GameKnowsClients
    <3>2. game[s] \in Clients /\ Alike(game[s], p.qport)
      BY <1>6, <3>1, SameClientIsAlike
    <3>3. QED
      BY <1>2, <3>2, PairsAreAlike
  <2>3. Players!Enter(s, p.qport)
    BY <1>1, <1>4, <2>1, <2>2 DEF Players!Enter
  <2>4. QED
    BY <1>1, <1>2, <2>3 DEF Players!Next
<1>7. QED
  BY <1>5, <1>6

\* A client that is dropped leaves the roster.
LEMMA DropClientRefines ==
    ASSUME ConnectionsInv, GameKnowsClients, NEW s \in Slots, slot[s].state = "CONNECTED",
           game' = [game EXCEPT ![s] = Nobody], AlikePairs' = AlikePairs
    PROVE  Players!Next
<1>1. game[s] # Nobody
  BY ConnectionsAssumption DEF GameKnowsClients, ConnectionsInv, SlotsOK, InUse, UsedSlot
<1>2. QED
  BY <1>1 DEF Players!Next, Players!Leave

\* A packet makes a player leave, or changes nothing of the roster.
LEMMA PacketEventRefines ==
    ASSUME ConnectionsInv, GameKnowsClients, NEW p \in net, PacketEvent(p),
           AlikePairs' = AlikePairs
    PROVE  [Players!Next]_<<game, AlikePairs>>
<1> DEFINE s == Min(SlotsOf(p.qport))
<1>1. CASE game' = game
  BY <1>1
<1>2. CASE /\ SlotsOf(p.qport) # {} /\ slot[s].state = "CONNECTED"
           /\ game' = [game EXCEPT ![s] = Nobody]
  <2>1. s \in Slots
    BY <1>2, MinProperties DEF SlotsOf, Slots
  <2>2. QED
    BY <1>2, <2>1, DropClientRefines
<1>3. QED
  BY <1>1, <1>2 DEF PacketEvent, DropClient

\* A change of ports makes more clients alike; the game does not notice.
LEMMA RebindRefines ==
    ASSUME ConnectionsInv, Rebind
    PROVE  Players!Next
<1>1. \A c \in Clients : had[c] \subseteq had'[c]
  BY DEF Rebind
<1>2. AlikePairs \subseteq AlikePairs'
  BY <1>1 DEF AlikePairs, Alike
<1>3. QED
  BY <1>2 DEF Rebind, Players!Next, Players!Mix

\* All other steps leave the ports alone.
LEMMA OthersKeepPorts ==
    ASSUME [Next]_vars
    PROVE  had' = had \/ Rebind
<1>1. ASSUME NEW p \in net, GetChallenge(p) \/ DirectConnect(p) \/ PacketEvent(p) \/ Lose(p)
      PROVE  had' = had
  BY <1>1 DEF GetChallenge, DirectConnect, PacketEvent, Lose, router
<1>2. ASSUME NEW s \in Slots,
             \/ Kick(s) \/ SendMessage(s) \/ TimeOut(s) \/ ZombieExpires(s)
             \/ ReconnectLimitPasses(s)
      PROVE  had' = had
  BY <1>2 DEF Kick, SendMessage, TimeOut, ZombieExpires, ReconnectLimitPasses, router
<1>3. ASSUME Crash \/ \E i \in DOMAIN challenges : AuthorizeIpPacket(i)
      PROVE  had' = had
  BY <1>3 DEF Crash, AuthorizeIpPacket, router
<1>4. ASSUME NEW c \in Clients, ClientReceives(c)
      PROVE  had' = had
  BY <1>4 DEF ClientReceives, ChallengeResponse, ConnectResponse, DisconnectPacket,
              ServerMessageArrives, Hears, router
<1>5. ASSUME NEW c \in Clients,
             \/ Connect(c) \/ Disconnect(c) \/ CheckForResend(c) \/ WritePacket(c)
             \/ NothingHeard(c) \/ CheckTimeout(c)
      PROVE  had' = had
  BY <1>5 DEF Connect, Disconnect, CheckForResend, WritePacket, NothingHeard, CheckTimeout,
              router
<1>6. UNCHANGED vars => had' = had
  BY DEF vars
<1>7. QED
  BY <1>1, <1>2, <1>3, <1>4, <1>5, <1>6 DEF Next, ServerReceives

\* Every step is a step of Roster, or none.
LEMMA StepRefinesRoster ==
    ASSUME ConnectionsInv, GameKnowsClients, [Next]_vars
    PROVE  [Players!Next]_<<game, AlikePairs>>
<1>1. CASE Rebind
  BY <1>1, RebindRefines
<1>2. CASE had' = had
  <2>1. AlikePairs' = AlikePairs
    BY <1>2, PairsKept
  <2>2. ASSUME NEW p \in net, DirectConnect(p)
        PROVE  [Players!Next]_<<game, AlikePairs>>
    <3>1. \/ game' = game
          \/ SlotFor(p) # {} /\ Accept(p, Min(SlotFor(p))) /\ p.kind = "connect"
      BY <2>2 DEF DirectConnect, Deny
    <3>2. QED
      BY <2>1, <3>1, AcceptRefines
  <2>3. ASSUME NEW s \in Slots,
               \/ Kick(s) \/ TimeOut(s) \/ SendMessage(s) \/ ZombieExpires(s)
               \/ ReconnectLimitPasses(s)
        PROVE  [Players!Next]_<<game, AlikePairs>>
    <3>1. \/ game' = game
          \/ slot[s].state = "CONNECTED" /\ game' = [game EXCEPT ![s] = Nobody]
      BY <2>3 DEF Kick, TimeOut, SendMessage, ZombieExpires, ReconnectLimitPasses, DropClient
    <3>2. QED
      BY <2>1, <3>1, DropClientRefines
  <2>4. CASE Crash
    BY <2>1, <2>4 DEF Crash, Players!Next, Players!Restart
  <2>5. QED
    BY <2>1, <2>2, <2>3, <2>4, PacketEventRefines, OthersKeepServer
<1>3. QED
  BY <1>1, <1>2, OthersKeepPorts

\* At first no two clients are alike.
LEMMA InitRefines == Init => Players!Init
<1> SUFFICES ASSUME Init PROVE Players!Init
  OBVIOUS
<1>1. \A c \in Clients : had[c] = {nat[c]}
  BY DEF Init
<1>2. \A c, d \in Clients : nat[c] = nat[d] => c = d
  BY FirstPortsDiffer DEF Init
<1>3. AlikePairs = {}
  BY <1>1, <1>2 DEF AlikePairs, Alike
<1>4. QED
  BY <1>3 DEF Init, ServerInit, Players!Init

\* To the game, client numbers are what Roster promises, if it refuses nobody who
\* comes again: only clients that have come from one port lose their numbers to
\* each other, or get a second one.
THEOREM ImplementsRoster ==
    ASSUME "reconnect" \notin Denies
    PROVE  Spec => RosterSpec
<1>1. QED
  BY InitRefines, ConnectionsInvariant, GameKnows, StepRefinesRoster, PTL
     DEF Spec, RosterSpec, Players!Spec
=============================================================================
