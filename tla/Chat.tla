-------------------------------- MODULE Chat --------------------------------
(***************************************************************************)
(* The chat example (src/examples/chat): ChatServer sends every message of *)
(* a client to all clients, and LengthHeaderCodec cuts the byte streams    *)
(* into messages.  The streams between a client and the server keep the    *)
(* order of the bytes and arrive in pieces of any size.                    *)
(***************************************************************************)
EXTENDS Buffer, SequencesExt

CONSTANTS
    Clients,
    KHeaderLen,     \* kHeaderLen: bytes of the length, 4 in the code
    MaxLength,      \* the longest message that is taken, 65535 in the code
    MessageSizes,   \* bound: the lengths of the messages written
    MaxMessages     \* bound: messages written

ASSUME ChatAssumption ==
    /\ IsFiniteSet(Clients)
    /\ KHeaderLen \in 1..KPrePrePend    \* the header fits in front of the data
    /\ MaxLength \in Nat
    /\ \A size \in MessageSizes :       \* and a length is a positive integer there
          size \in Nat /\ 2 * size < Span(KHeaderLen)

VARIABLES
    client,         \* client[c]: "new", "up" or "down", as ChatClient sees it
    server,         \* server[c]: "none", "up", "closing" or "down", as ChatServer sees it
    toServer,       \* toServer[c]: bytes on their way
    toClient,
    serverInput,    \* serverInput[c]: the input buffer of the connection
    clientInput,
    written,        \* history, written[c]: the messages that c wrote
    log,            \* history: the messages broadcast, with their senders
    joinedAt,       \* history, joinedAt[c]: the length of log when c joined
    received        \* history, received[c]: the messages c was shown

chatVars == <<client, server, toServer, toClient, serverInput, clientInput, written,
              log, joinedAt, received>>

Each(x) == [c \in Clients |-> x]

ChatInit ==
    /\ client = Each("new") /\ server = Each("none")
    /\ toServer = Each(<<>>) /\ toClient = Each(<<>>)
    /\ serverInput = Each(<<>>) /\ clientInput = Each(<<>>)
    /\ written = Each(<<>>) /\ received = Each(<<>>)
    /\ log = <<>> /\ joinedAt = Each(0)

-----------------------------------------------------------------------------
(* A wrong variant: the length in the header counts the header.             *)

HeaderCounted(m) ==
    Contents(Prepend(AppendData(NewBuffer, m), BytesOf(Len(m) + KHeaderLen, KHeaderLen)))

-----------------------------------------------------------------------------
(* LengthHeaderCodec.                                                       *)

\* send(): append the message, prepend its length
EncodeMessage(m) == Contents(Prepend(AppendData(NewBuffer, m), BytesOf(Len(m), KHeaderLen)))

\* Messages sent one after the other
EncodeAll(messages) == FlattenSeq([i \in DOMAIN messages |-> EncodeMessage(messages[i])])

\* onMessage(), a turn of its loop: the next message when it is whole.  A length
\* out of range ends the loop, and so does a message that is not whole.
DecodeTurn(d) ==
    LET len == IntOf(SubSeq(d.input, 1, KHeaderLen))
        end == KHeaderLen + len
    IN  CASE Len(d.input) < KHeaderLen -> d
          [] Len(d.input) >= KHeaderLen /\ (len > MaxLength \/ len < 0) -> [d EXCEPT !.bad = TRUE]
          [] Len(d.input) >= KHeaderLen /\ len \in 0..MaxLength /\ Len(d.input) >= end ->
                [d EXCEPT !.input = SubSeq(@, end + 1, Len(@)),
                          !.messages = Append(@, SubSeq(d.input, KHeaderLen + 1, end))]
          [] OTHER -> d

\* The whole loop: a message takes a header at least, and where the loop ends a
\* turn more changes nothing.
Decode(input) ==
    LET turns[n \in 0..Len(input)] ==
            IF n = 0 THEN [input |-> input, messages |-> <<>>, bad |-> FALSE]
            ELSE DecodeTurn(turns[n - 1])
    IN  turns[Len(input)]

-----------------------------------------------------------------------------
(* ChatClient.                                                              *)

\* onConnection() of the client
ClientUp(c) ==
    /\ client[c] = "new"
    /\ client' = [client EXCEPT ![c] = "up"]
    /\ UNCHANGED <<server, toServer, toClient, serverInput, clientInput, written, log,
                   joinedAt, received>>

WrittenInAll == Cardinality(UNION {{c} \X DOMAIN written[c] : c \in Clients})

\* write(); the n-th message of all is made of the byte n.
Write(c) ==
    /\ client[c] = "up"
    /\ WrittenInAll < MaxMessages
    /\ \E size \in MessageSizes :
          LET m == [i \in 1..size |-> (WrittenInAll + 1) % Base]
          IN  /\ written' = [written EXCEPT ![c] = Append(@, m)]
              /\ toServer' = [toServer EXCEPT ![c] = @ \o EncodeMessage(m)]
    /\ UNCHANGED <<client, server, toClient, serverInput, clientInput, log, joinedAt, received>>

\* onMessage() and onStringMessage() of the client
ClientReads(c) ==
    /\ client[c] = "up"
    /\ \E n \in DOMAIN toClient[c] :
          LET d == Decode(clientInput[c] \o SubSeq(toClient[c], 1, n))
          IN  /\ received' = [received EXCEPT ![c] = @ \o d.messages]
              /\ clientInput' = [clientInput EXCEPT ![c] = d.input]
              /\ toClient' = [toClient EXCEPT ![c] = SubSeq(@, n + 1, Len(@))]
    /\ UNCHANGED <<client, server, toServer, serverInput, written, log, joinedAt>>

\* disconnect() by the user, or the end of the stream from the server
ClientDown(c) ==
    /\ client[c] = "up"
    /\ client' = [client EXCEPT ![c] = "down"]
    /\ toClient' = [toClient EXCEPT ![c] = <<>>]
    /\ UNCHANGED <<server, toServer, serverInput, clientInput, written, log, joinedAt, received>>

-----------------------------------------------------------------------------
(* ChatServer, in its one loop thread.                                      *)

\* onConnection(): connections_.insert()
ServerUp(c) ==
    /\ client[c] # "new" /\ server[c] = "none"
    /\ server' = [server EXCEPT ![c] = "up"]
    /\ joinedAt' = [joinedAt EXCEPT ![c] = Len(log)]
    /\ UNCHANGED <<client, toServer, toClient, serverInput, clientInput, written, log, received>>

\* onMessage() of the codec with onStringMessage(): the messages go to every
\* connection in connections_; send() drops them once forceClose() was called.
ServerReads(c) ==
    /\ server[c] \in {"up", "closing"}
    /\ \E n \in DOMAIN toServer[c] :
          LET d == Decode(serverInput[c] \o SubSeq(toServer[c], 1, n))
          IN  /\ log' = log \o [i \in DOMAIN d.messages |-> [from |-> c, text |-> d.messages[i]]]
              /\ toClient' = [x \in Clients |->
                                IF server[x] = "up" /\ client[x] = "up"
                                THEN toClient[x] \o EncodeAll(d.messages) ELSE toClient[x]]
              /\ serverInput' = [serverInput EXCEPT ![c] = d.input]
              /\ toServer' = [toServer EXCEPT ![c] = SubSeq(@, n + 1, Len(@))]
              /\ server' = [server EXCEPT ![c] = IF d.bad THEN "closing" ELSE @]
    /\ UNCHANGED <<client, clientInput, written, joinedAt, received>>

\* forceCloseInLoop(), or the end of the stream from the client; then
\* onConnection(): connections_.erase()
ServerDown(c) ==
    /\ \/ server[c] = "closing"
       \/ server[c] = "up" /\ client[c] = "down" /\ toServer[c] = <<>>
    /\ server' = [server EXCEPT ![c] = "down"]
    /\ toServer' = [toServer EXCEPT ![c] = <<>>]
    /\ UNCHANGED <<client, toClient, serverInput, clientInput, written, log, joinedAt, received>>

ChatNext ==
    \E c \in Clients : \/ ClientUp(c) \/ Write(c) \/ ClientReads(c) \/ ClientDown(c)
                       \/ ServerUp(c) \/ ServerReads(c) \/ ServerDown(c)

ChatSpec == ChatInit /\ [][ChatNext]_chatVars

-----------------------------------------------------------------------------
Texts(entries) == [i \in DOMAIN entries |-> entries[i].text]

\* The messages broadcast that c wrote, and those that c is to be shown
Mine(c) == FlattenSeq([i \in DOMAIN log |-> IF log[i].from = c THEN <<log[i].text>> ELSE <<>>])
Shown(c) == Texts(SubSeq(log, joinedAt[c] + 1, Len(log)))

\* However the bytes are cut and whoever comes and goes, the messages of a
\* client enter the broadcast in the order it wrote them, none lost or changed
\* before the first that is too long; every client is shown the broadcast from
\* the moment it joined, in the one order all clients see; and a client with
\* nothing on the way has seen all of it.
ChatInOrder ==
    \A c \in Clients :
        LET mine == Mine(c)
            shown == Shown(c)
        IN  /\ IsPrefix(mine, written[c])
            /\ \A i \in DOMAIN mine : Len(mine[i]) <= MaxLength
            /\ (server[c] = "up" /\ toServer[c] = <<>>) => mine = written[c]
            /\ IsPrefix(received[c], shown)
            /\ (server[c] = "up" /\ client[c] = "up" /\ toClient[c] = <<>>)
                  => received[c] = shown

=============================================================================
