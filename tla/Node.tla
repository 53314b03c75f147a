-------------------------------- MODULE Node --------------------------------
(***************************************************************************)
(* The class Node (App/Node.cpp): a TCP socket, a receive buffer and a     *)
(* queue of received messages, for one leader and its participants.  A     *)
(* byte is a token; what TCP does (streams without message boundaries,     *)
(* resets, the backlog of a listening socket) is the external part.        *)
(***************************************************************************)
EXTENDS Integers, Sequences, SequencesExt

CONSTANTS
    Leader, Participants,
    DefaultLen,     \* default_len: the most bytes one recv returns
    MayFragment,    \* may recv return less than what has arrived?
    Tails           \* what stack garbage may follow the bytes recv has written

Procs == {Leader} \cup Participants
Links == ({Leader} \X Participants) \cup (Participants \X {Leader})

ASSUME NodeAssumption ==
    /\ Leader \notin Participants
    /\ DefaultLen \in Nat \ {0}
    /\ MayFragment \in BOOLEAN
    /\ <<>> \in Tails

VARIABLES
    listening,  \* the leader's socket takes connections
    backlog,    \* connected participants the leader has not accepted
    open,       \* open[<<x, y>>]: x holds its end of the connection with y
    wire,       \* wire[<<x, y>>]: bytes x has sent and y has not received
    buff,       \* buff[x]: the stack where x's receive_message has its buffer
    ret,        \* ret[x]: what x's last receive_message returned
    messages    \* messages[x]: the queue of x's Node

net      == <<listening, backlog, open, wire>>
local    == <<buff, ret, messages>>
nodeVars == <<net, local>>

NodeInit ==
    /\ listening = FALSE
    /\ backlog = <<>>
    /\ open = [l \in Links |-> FALSE]
    /\ wire = [l \in Links |-> <<>>]
    /\ buff = [x \in Procs |-> <<>>]
    /\ ret = [x \in Procs |-> 0]
    /\ messages = [x \in Procs |-> <<>>]

-----------------------------------------------------------------------------
(* listen_as_server, connect_from_client, accept_as_server. *)

Listen == ~listening /\ listening' = TRUE /\ UNCHANGED <<backlog, open, wire>>

\* The kernel completes the connection; the leader need not have accepted.
Connect(p) ==
    /\ listening
    /\ backlog' = Append(backlog, p)
    /\ open' = [open EXCEPT ![<<p, Leader>>] = TRUE, ![<<Leader, p>>] = TRUE]
    /\ UNCHANGED <<listening, wire>>

Accept(p) ==
    /\ backlog # <<>> /\ p = Head(backlog)
    /\ backlog' = Tail(backlog)
    /\ UNCHANGED <<listening, open, wire>>

-----------------------------------------------------------------------------
(* receive_message, get_message. *)

\* Line ends and other control characters are removed from a message.
Clean(msg) ==
    LET kept[i \in 0 .. Len(msg)] ==
            IF i = 0 THEN <<>>
            ELSE IF msg[i] = "ctl" THEN kept[i - 1]
            ELSE Append(kept[i - 1], msg[i])
    IN  kept[Len(msg)]

\* Variant of Readable for a socket that does not block.
ReadableAlways(x, y) == open[<<x, y>>]

Readable(x, y) == wire[<<y, x>>] # <<>> \/ ~open[<<y, x>>]

\* recv: something that has arrived, or nothing at the end of the stream.
Sizes(s) ==
    LET most == IF Len(s) < DefaultLen THEN Len(s) ELSE DefaultLen
    IN  IF MayFragment /\ most > 0 THEN 1 .. most ELSE {most}

\* Variant of Consume that leaves the bytes in the socket (MSG_PEEK).
ConsumeNothing(x, y, n) == UNCHANGED wire

Consume(x, y, n) == wire' = [wire EXCEPT ![<<y, x>>] = SubSeq(@, n + 1, Len(@))]

\* Variant of Returns that counts a terminating byte.
ReturnsOneMore(x, n) == ret' = [ret EXCEPT ![x] = n + 1]

Returns(x, n) == ret' = [ret EXCEPT ![x] = n]

\* The buffer is not cleared and not terminated: string(buff) goes on with what
\* an earlier call, or anything else on that stack, has left behind.
ReceiveMessage(x, y) ==
    /\ Readable(x, y)
    /\ \E n \in Sizes(wire[<<y, x>>]) :
       \E tail \in Tails \cup {SubSeq(buff[x], n + 1, Len(buff[x]))} :
           LET data == SubSeq(wire[<<y, x>>], 1, n)
           IN  /\ buff' = [buff EXCEPT ![x] = data \o tail]
               /\ messages' = [messages EXCEPT ![x] = Append(@, Clean(data \o tail))]
               /\ Returns(x, n)
               /\ Consume(x, y, n)
    /\ UNCHANGED <<listening, backlog, open>>

\* get_message: the head of the queue, or the empty string of an empty queue.
FirstMessage(x) == IF messages[x] = <<>> THEN <<>> ELSE Head(messages[x])

GetMessage(x) ==
    messages' = [messages EXCEPT ![x] = IF @ = <<>> THEN @ ELSE Tail(@)]

-----------------------------------------------------------------------------
(* send_message, close_connection, and what the kernel does at an exit. *)

\* What is sent to a closed end is lost.
SendMessage(x, y, msg) ==
    /\ open[<<x, y>>]
    /\ wire' = [wire EXCEPT ![<<x, y>>] = IF open[<<y, x>>] THEN @ \o msg ELSE @]
    /\ UNCHANGED <<listening, backlog, open>>

\* Sending to a closed end may also raise SIGPIPE, which nobody handles.
BrokenPipe(x, y) == open[<<x, y>>] /\ ~open[<<y, x>>]

\* x closes its ends with the processes of ys.  Closing with unread bytes
\* resets the connection: what the other side has not read may be lost.
Close(x, ys) ==
    LET unread(y) == open[<<x, y>>] /\ wire[<<y, x>>] # <<>>
    IN  /\ \E lost \in SUBSET {y \in ys : unread(y)} :
             wire' = [l \in Links |->
                        IF \/ l[1] = x /\ l[2] \in lost
                           \/ l[2] = x /\ l[1] \in ys
                        THEN <<>> ELSE wire[l]]
        /\ open' = [l \in Links |-> open[l] /\ ~(l[1] = x /\ l[2] \in ys)]

\* The process is gone: the kernel closes every descriptor it had, and a
\* listening socket takes the connections of its backlog along.
ProcessEnds(x) ==
    /\ Close(x, IF x = Leader THEN Participants ELSE {Leader})
    /\ IF x = Leader
       THEN listening' = FALSE /\ backlog' = <<>>
       ELSE UNCHANGED <<listening, backlog>>
=============================================================================
