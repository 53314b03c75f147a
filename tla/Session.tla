------------------------------ MODULE Session ------------------------------
(***************************************************************************)
(* What the two programs (sgx/App/App.cpp and non_sgx/ssle_node.cpp) have  *)
(* in common once the leader has something to send: the leader listens,    *)
(* accepts one participant, registers it, sends, waits for an answer and   *)
(* closes; a participant connects, introduces itself, takes two messages,  *)
(* answers and closes.  What is sent and what is made of it differs, and   *)
(* is in SGXSession and NonSGXSession.                                     *)
(***************************************************************************)
EXTENDS Node

CONSTANTS
    PortOf,     \* the digits of the port of each participant
    Mortal,     \* the processes that may be killed
    None        \* nothing yet

Digits == {"0", "1", "2", "3"}
Byte   == Digits \cup {"host", ":", "hello", "ctl", "x"}
Bytes  == Seq(Byte)

ASSUME SessionAssumption ==
    /\ Mortal \subseteq Procs /\ None \notin Participants
    /\ PortOf \in [Participants -> Seq(Digits)]
    /\ Tails \subseteq Bytes

VARIABLES
    pc,         \* where main of each process is
    conn,       \* inconnect of the leader: the participant it has accepted
    nodes,      \* the participants the leader has registered
    key,        \* key[p]: what p has made of the first message
    comm        \* comm[p]: what p takes for the commitment

progVars == <<pc, conn, nodes, key, comm>>
vars     == <<nodeVars, progVars>>

Gone == {"done", "exited", "killed"}

Goto(x, place) == pc' = [pc EXCEPT ![x] = place]

SessionInit ==
    /\ NodeInit
    /\ pc = [x \in Procs |-> IF x = Leader THEN "elect" ELSE "socket"]
    /\ conn = None
    /\ nodes = <<>>
    /\ key = [p \in Participants |-> None]
    /\ comm = [p \in Participants |-> None]

-----------------------------------------------------------------------------
(* Ends of a process. *)

Ends(x, how) ==
    /\ Goto(x, how)
    /\ ProcessEnds(x)
    /\ UNCHANGED <<local, conn, nodes, key, comm>>

\* socket, bind, listen, accept and connect may fail, and then main exits.
SystemCallFails(x) ==
    /\ pc[x] \in {"socket", "listen", "accept", "connect"}
    /\ Ends(x, "exited")

Killed(x) == x \in Mortal /\ pc[x] \notin Gone /\ Ends(x, "killed")

-----------------------------------------------------------------------------
(* Steps of either program that only use its Node. *)

Socket(x, next) ==
    /\ pc[x] = "socket"
    /\ Goto(x, next)
    /\ UNCHANGED <<nodeVars, conn, nodes, key, comm>>

Receive(x, y, here, next) ==
    /\ pc[x] = here
    /\ ReceiveMessage(x, y)
    /\ Goto(x, next)
    /\ UNCHANGED <<conn, nodes, key, comm>>

Send(x, y, msg, here, next) ==
    /\ pc[x] = here
    /\ \/ SendMessage(x, y, msg) /\ Goto(x, next)
          /\ UNCHANGED <<local, conn, nodes, key, comm>>
       \/ BrokenPipe(x, y) /\ Ends(x, "killed")

-----------------------------------------------------------------------------
(* The leader. *)

LeaderListens ==
    /\ pc[Leader] = "listen"
    /\ Listen
    /\ Goto(Leader, "accept")
    /\ UNCHANGED <<local, conn, nodes, key, comm>>

LeaderAccepts ==
    /\ pc[Leader] = "accept"
    /\ \E p \in Participants : Accept(p) /\ conn' = p
    /\ Goto(Leader, "recv_reg")
    /\ UNCHANGED <<local, nodes, key, comm>>

\* The delimiter of the address is ':' in one program and ',' in the other.
RegMsg(p) == <<"host", ":">> \o PortOf[p]

\* atoi: the digits a text starts with.
Atoi(text) ==
    LET lengths == {n \in 0 .. Len(text) : \A k \in 1 .. n : text[k] \in Digits}
    IN  SubSeq(text, 1, CHOOSE n \in lengths : \A m \in lengths : m <= n)

\* Where the first delimiter at or after a place is; behind the text if nowhere.
Delimiter(text, from) ==
    LET places == {k \in from .. Len(text) : text[k] = ":"}
    IN  IF places = {} THEN Len(text) + 1
        ELSE CHOOSE k \in places : \A m \in places : k <= m

\* The fields of an address that registration looks at.  Without a delimiter
\* the loop takes the whole text twice, and a trailing one adds no field.
Fields(text) ==
    LET first  == Delimiter(text, 1)
        second == Delimiter(text, first + 1)
    IN  IF text = <<>> THEN <<>>
        ELSE IF first > Len(text) THEN <<text, text>>
        ELSE IF first = Len(text) THEN <<SubSeq(text, 1, first - 1)>>
        ELSE <<SubSeq(text, 1, first - 1), SubSeq(text, first + 1, second - 1)>>

\* Variant of LeaderRegisters that waits for an address that is well formed.
LeaderRegistersWellFormed(next) ==
    /\ pc[Leader] = "register"
    /\ LET f == Fields(FirstMessage(Leader))
       IN  /\ Len(f) = 2
           /\ GetMessage(Leader)
           /\ nodes' = Append(nodes, [host |-> f[1], port |-> Atoi(f[2])])
           /\ Goto(Leader, next)
           /\ UNCHANGED <<net, buff, ret, conn, key, comm>>

\* registration reads result[0] and result[1] whether they exist or not: past
\* the end of the vector it dies, or finds some text that is not a port.
LeaderRegisters(next) ==
    /\ pc[Leader] = "register"
    /\ LET f == Fields(FirstMessage(Leader))
       IN  \/ /\ Len(f) > 0
              /\ GetMessage(Leader)
              /\ nodes' = Append(nodes,
                     [host |-> f[1],
                      port |-> IF Len(f) = 2 THEN Atoi(f[2]) ELSE <<>>])
              /\ Goto(Leader, next)
              /\ UNCHANGED <<net, buff, ret, conn, key, comm>>
           \/ Len(f) < 2 /\ Ends(Leader, "killed")

LeaderTakesAnswer ==
    /\ pc[Leader] = "take_hello"
    /\ GetMessage(Leader)
    /\ Goto(Leader, "close")
    /\ UNCHANGED <<net, buff, ret, conn, nodes, key, comm>>

LeaderCloses ==
    /\ pc[Leader] = "close"
    /\ Close(Leader, {conn})
    /\ Goto(Leader, "close_listener")
    /\ UNCHANGED <<listening, backlog, local, conn, nodes, key, comm>>

LeaderFinishes == pc[Leader] = "close_listener" /\ Ends(Leader, "done")

-----------------------------------------------------------------------------
(* A participant. *)

ParticipantConnects(p) ==
    /\ pc[p] = "connect"
    /\ Connect(p)
    /\ Goto(p, "send_reg")
    /\ UNCHANGED <<local, conn, nodes, key, comm>>

ParticipantTakesCommitment(p) ==
    /\ pc[p] = "take_comm"
    /\ GetMessage(p)
    /\ comm' = [comm EXCEPT ![p] = FirstMessage(p)]
    /\ Goto(p, "send_hello")
    /\ UNCHANGED <<net, buff, ret, conn, nodes, key>>

ParticipantFinishes(p) == pc[p] = "close" /\ Ends(p, "done")

\* What both kinds of participant do; taking the first message is their own.
ParticipantCommon(p) ==
    \/ Socket(p, "connect")
    \/ ParticipantConnects(p)
    \/ Send(p, Leader, RegMsg(p), "send_reg", "recv_key")
    \/ Receive(p, Leader, "recv_key", "take_key")
    \/ Receive(p, Leader, "recv_comm", "take_comm")
    \/ ParticipantTakesCommitment(p)
    \/ Send(p, Leader, <<"hello">>, "send_hello", "close")
    \/ ParticipantFinishes(p)

\* What both kinds of leader do, from the socket to the registration and from
\* the answer to the end.
LeaderCommon ==
    \/ Socket(Leader, "listen")
    \/ LeaderListens
    \/ LeaderAccepts
    \/ conn # None /\ Receive(Leader, conn, "recv_reg", "register")
    \/ LeaderRegisters("send_key")
    \/ conn # None /\ Receive(Leader, conn, "recv_hello", "take_hello")
    \/ LeaderTakesAnswer
    \/ LeaderCloses
    \/ LeaderFinishes

AllGone == \A x \in Procs : pc[x] \in Gone

-----------------------------------------------------------------------------
Places ==
    {"elect", "socket", "listen", "accept", "recv_reg", "register", "send_key",
     "send_comm", "recv_hello", "take_hello", "close", "close_listener", "connect",
     "send_reg", "recv_key", "take_key", "recv_comm", "take_comm", "send_hello"}
        \cup Gone

SessionTypeOK ==
    /\ pc \in [Procs -> Places]
    /\ listening \in BOOLEAN
    /\ backlog \in Seq(Participants)
    /\ open \in [Links -> BOOLEAN]
    /\ wire \in [Links -> Bytes]
    /\ buff \in [Procs -> Bytes]
    /\ ret \in [Procs -> 0 .. DefaultLen]
    /\ messages \in [Procs -> Seq(Bytes)]
    /\ conn \in Participants \cup {None}
    /\ nodes \in Seq([host : Bytes, port : Bytes])
    /\ key \in [Participants -> {None} \cup Bytes]
    /\ comm \in [Participants -> {None} \cup Bytes]

-----------------------------------------------------------------------------
\* Two processes are waiting for each other: the leader for the answer of the
\* participant it has served, that participant for the commitment, and nothing
\* is on its way to either.
MutualWait ==
    /\ conn # None
    /\ pc[Leader] = "recv_hello" /\ pc[conn] = "recv_comm"
    /\ wire[<<conn, Leader>>] = <<>> /\ wire[<<Leader, conn>>] = <<>>
    /\ open[<<conn, Leader>>] /\ open[<<Leader, conn>>]

\* Only killing one of the two gets the leader and its participant out of the
\* mutual wait: no other process, connection or leftover byte can.
OnlyKillEndsMutualWait ==
    [][MutualWait => MutualWait' \/ "killed" \in {pc'[Leader], pc'[conn]}]_vars

\* If the address of the participant that the leader serves arrived whole, its host
\* is registered and a port that begins with the one sent: what is left in the
\* buffer can add digits to the port, so that it is another, but replace none.
RegisteredStartsRight ==
    \A k \in 1 .. Len(nodes) :
        pc[Leader] = "send_key" /\ ret[Leader] = Len(RegMsg(conn)) =>
            nodes[k].host = <<"host">> /\ IsPrefix(PortOf[conn], nodes[k].port)

\* An accepted participant gets bytes of the key, or one of the two processes
\* ends: nothing else can come between the backlog and the key.
AcceptedIsServed ==
    \A p \in Participants :
        conn = p ~> \/ key[p] # None
                    \/ pc[p] \in Gone \/ pc[Leader] \in Gone

\* What both programs announce ("send committed value" and "Participant received
\* commitment": App.cpp:307 and 348, ssle_node.cpp:92 and 136) and neither
\* guarantees: a participant that waits for the commitment gets it.
CommitmentArrives ==
    \A p \in Participants : pc[p] = "recv_comm" ~> comm[p] # None
=============================================================================
