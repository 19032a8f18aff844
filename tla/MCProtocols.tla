---------------------------- MODULE MCProtocols ----------------------------
(***************************************************************************)
(* The buffer and the protocols on top of it in one instance.  They share  *)
(* nothing, so a behaviour is a behaviour of one of them, chosen by part,  *)
(* and the others keep their initial state.                                *)
(***************************************************************************)
EXTENDS HttpServer, Chat, IdleEcho

VARIABLE part

protocolVars == <<part, bufferVars, httpVars, chatVars, idleVars>>

\* No Content-Length, one that is no number, and bodies of no and of two bytes
MCLengths == {NoLength, NotANumber, 0, 2}

\* Nothing tells one client of the chat from another
ClientSymmetry == Permutations(Clients)

ProtocolsInit ==
    /\ part \in {"buffer", "http", "chat", "idle"}
    /\ BufferInit /\ HttpInit /\ ChatInit /\ IdleInit

ProtocolsNext ==
    /\ UNCHANGED part
    /\ \/ part = "buffer" /\ BufferNext /\ UNCHANGED <<httpVars, chatVars, idleVars>>
       \/ part = "http" /\ HttpNext /\ UNCHANGED <<bufferVars, chatVars, idleVars>>
       \/ part = "chat" /\ ChatNext /\ UNCHANGED <<bufferVars, httpVars, idleVars>>
       \/ part = "idle" /\ IdleNext /\ UNCHANGED <<bufferVars, httpVars, chatVars>>

ProtocolsSpec == ProtocolsInit /\ [][ProtocolsNext]_protocolVars

=============================================================================
