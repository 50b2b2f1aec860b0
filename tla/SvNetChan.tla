----------------------------- MODULE SvNetChan -----------------------------
(***************************************************************************)
(* server/sv_net_chan.cpp: the server's side of a client's netchan. While   *)
(* the fragments of one message are still going out, one per frame, further *)
(* messages wait in a queue (netchan_start_queue .. netchan_end_queue), and *)
(* each is XOR-encoded at the moment it is given to Netchan_Transmit. The   *)
(* key comes from the sequence number and from the text of the last client  *)
(* command executed; the client rebuilds it from the sequence number and    *)
(* from the command the message itself acknowledges.                        *)
(***************************************************************************)
EXTENDS NetChan

CONSTANT MaxCommands    \* bound: client commands executed in a behaviour

VARIABLES queue,                \* messages waiting, oldest first
          lastClientCommand,    \* the client command executed last; its text is
                                \* lastClientCommandString, so one number is both
          submitted,            \* history: messages given to SV_Netchan_Transmit
          written               \* history, by message: the acknowledgement written
                                \* into it, and the key it was encoded with

svVars == <<chan, peer, net, sent, delivered, queue, lastClientCommand, submitted, written>>

NotEncoded == [sequence |-> 0, command |-> 0]

SvInit ==
    /\ Init
    /\ queue = << >>
    /\ lastClientCommand = 0
    /\ submitted = << >>
    /\ written = << >>

-----------------------------------------------------------------------------
\* SV_Netchan_Encode of message m, about to be transmitted on netchan c.
Encode(w, m, c) ==
    [w EXCEPT ![m.id].key = [sequence |-> c.outgoingSequence, command |-> lastClientCommand]]

\* A message is written with "which reliable clientCommands we have received".
NewMessage(length) == [id |-> Len(submitted) + 1, length |-> length]
Written == Append(written, [ack |-> lastClientCommand, key |-> NotEncoded])

\* Bug: there is room for one waiting message.
SvTransmitReplacing(m) ==
    /\ chan.unsentFragments
    /\ queue' = <<m>>
    /\ chan' = AfterFragment(chan)
    /\ net' = net \cup {NextFragment(chan)}
    /\ written' = Written
    /\ UNCHANGED sent

\* SV_Netchan_Transmit
SvTransmitQueued(m) ==
    /\ chan.unsentFragments
    /\ queue' = Append(queue, m)
    /\ chan' = AfterFragment(chan)
    /\ net' = net \cup {NextFragment(chan)}
    /\ written' = Written
    /\ UNCHANGED sent

SvTransmitNow(m) ==
    /\ ~ chan.unsentFragments
    /\ written' = Encode(Written, m, chan)
    /\ chan' = AfterTransmit(chan, m)
    /\ net' = net \cup {TransmitPacket(chan, m)}
    /\ sent' = Append(sent, m)
    /\ UNCHANGED queue

SvTransmit(m) ==
    /\ Len(submitted) < MaxSent
    /\ submitted' = Append(submitted, m)
    /\ SvTransmitQueued(m) \/ SvTransmitNow(m)
    /\ UNCHANGED <<peer, delivered, lastClientCommand>>

\* SV_SendClientMessages builds a snapshot only for a client that has no
\* fragments pending ...
SendSnapshot ==
    /\ ~ chan.unsentFragments
    /\ \E length \in 1 .. MAX_MSGLEN : SvTransmit(NewMessage(length))

\* ... but SV_SendClientGameState runs when a packet of the client asks for it.
SendGameState ==
    /\ chan.unsentFragments
    /\ \E length \in 1 .. MAX_MSGLEN : SvTransmit(NewMessage(length))

\* Bug: the queued message is encoded before the fragment has gone.
SvEncodedTooEarly ==
    /\ chan.unsentFragments
    /\ IF IsLastFragment(chan) /\ queue # << >>
       THEN LET c == AfterFragment(chan)
                m == Head(queue)
            IN  /\ written' = Encode(written, m, chan)
                /\ chan' = AfterTransmit(c, m)
                /\ net' = net \cup {NextFragment(chan), TransmitPacket(c, m)}
                /\ sent' = Append(sent, m)
                /\ queue' = Tail(queue)
       ELSE /\ chan' = AfterFragment(chan)
            /\ net' = net \cup {NextFragment(chan)}
            /\ UNCHANGED <<sent, queue, written>>
    /\ UNCHANGED <<peer, delivered, lastClientCommand, submitted>>

\* SV_Netchan_TransmitNextFragment: when the fragment is not the last, and when
\* it is, with nothing or something in the queue.
SvTransmitNextFragment ==
    /\ chan.unsentFragments
    /\ IF IsLastFragment(chan) /\ queue # << >>
       THEN LET c == AfterFragment(chan)
                m == Head(queue)
            IN  /\ written' = Encode(written, m, c)
                /\ chan' = AfterTransmit(c, m)
                /\ net' = net \cup {NextFragment(chan), TransmitPacket(c, m)}
                /\ sent' = Append(sent, m)
                /\ queue' = Tail(queue)
       ELSE /\ chan' = AfterFragment(chan)
            /\ net' = net \cup {NextFragment(chan)}
            /\ UNCHANGED <<sent, queue, written>>
    /\ UNCHANGED <<peer, delivered, lastClientCommand, submitted>>

\* SV_ClientCommand has executed the client's next command.
ClientCommand ==
    /\ lastClientCommand < MaxCommands
    /\ lastClientCommand' = lastClientCommand + 1
    /\ UNCHANGED <<chan, peer, net, sent, delivered, queue, submitted, written>>

SvReceive ==
    /\ Receive
    /\ UNCHANGED <<queue, lastClientCommand, submitted, written>>

SvNext ==
    \/ SendSnapshot
    \/ SendGameState
    \/ SvTransmitNextFragment
    \/ ClientCommand
    \/ SvReceive

SvSpec == SvInit /\ [][SvNext]_svVars

-----------------------------------------------------------------------------
IdsOf(messages) == {messages[k].id : k \in DOMAIN messages}

\* Every message handed to SV_Netchan_Transmit is in exactly one place: given
\* to the netchan, once, or waiting in the queue, once, behind those that were
\* waiting when it came.
NeitherLostNorRepeated ==
    /\ IdsOf(sent) \cup IdsOf(queue) = 1 .. Len(submitted)
    /\ Len(sent) + Len(queue) = Len(submitted)
    /\ \A j, k \in 1 .. Len(queue) : j < k => queue[j].id < queue[k].id

\* The sequence number in the key is the one the message travels under, which
\* is what the client decodes it with: "we can't store it encoded, as the
\* encoding depends on stuff we still have to finish sending".
KeyHasSequence ==
    \A s \in 1 .. Len(sent) : written[sent[s].id].key.sequence = s

\* The key is made from the command the message acknowledges: "modify the key
\* with the last received and with this message acknowledged client command"
\* (SV_Netchan_Encode). The client decodes with the command acknowledged.
KeyHasAcknowledged ==
    \A s \in 1 .. Len(sent) :
        LET w == written[sent[s].id] IN w.key.command = w.ack
=============================================================================
