------------------------ MODULE NonSGXSession_proofs ------------------------
(***************************************************************************)
(* The session of the non-SGX program, for any set of participants, any    *)
(* punctured value of whole blocks, any commitment, any cut of the stream  *)
(* and any leftovers in the buffers: the second recv goes on where the     *)
(* first has stopped.                                                      *)
(***************************************************************************)
EXTENDS NonSGXSession, Session_proofs

\* A participant the leader has or will have accepted connects only once.
Connected ==
    /\ conn # None => pc[conn] \notin {"socket", "connect"}
    /\ \A k \in 1 .. Len(backlog) : pc[backlog[k]] \notin {"socket", "connect"}

\* Before its first recv a participant has in front of it what the leader has
\* sent so far, or nothing.
ReadsPunct(p) ==
    pc[p] \in Before =>
        /\ messages[p] = <<>>
        /\ wire[<<Leader, p>>] \in {<<>>, Punct, Punct \o Comm}
        /\ pc[Leader] = "send_comm" =>
               /\ wire[<<Leader, p>>] \in {<<>>, Punct}
               /\ p = conn /\ open[<<p, Leader>>] => wire[<<Leader, p>>] = Punct

\* After a first recv of all of the punctured value, what is still to come is the
\* commitment without what came early, and what the correction cuts off is what
\* has come early or was in the buffer.
ReadsRest(p) ==
    pc[p] \in {"take_key", "recv_comm"} /\ ret[p] >= Len(Punct) =>
        /\ wire[<<Leader, p>>] \in {<<>>, SubSeq(Comm, ret[p] - Len(Punct) + 1, Len(Comm))}
        /\ pc[Leader] = "send_comm" => wire[<<Leader, p>>] = <<>> /\ ret[p] = Len(Punct)
        /\ pc[p] = "take_key" => Len(messages[p]) = 1 /\ Len(Head(messages[p])) >= ret[p]
        /\ pc[p] = "recv_comm" => /\ messages[p] = <<>>
                                  /\ key[p] = Punct => ret[p] - Len(Punct) < Block

StreamAt(p) ==
    /\ p # conn => wire[<<Leader, p>>] = <<>>
    /\ ReadsPunct(p) /\ ReadsRest(p)

Stream == \A p \in Participants : StreamAt(p)

IInv == SessionTypeOK /\ NothingSent /\ Connected /\ Stream

-----------------------------------------------------------------------------
(* Types. *)

LEMMA PunctIs ==
    /\ Punct \in Bytes /\ Comm \in Bytes /\ Punct \o Comm \in Bytes
    /\ Punct \in Seq(Digits) /\ Comm \in Seq(Digits) /\ Punct \o Comm \in Seq(Digits)
    /\ Len(Punct) \in Nat \ {0} /\ Len(Comm) \in Nat \ {0}
    /\ Digits \subseteq Byte \ {"ctl"}
<1>1. Digits \subseteq Byte \ {"ctl"}
  BY DEF Byte, Digits
<1>2. Punct \in Bytes /\ Comm \in Bytes
  BY <1>1, PunctAssumption DEF Bytes
<1>3. Punct \o Comm \in Bytes
  BY <1>2 DEF Bytes
<1>4. Punct \o Comm \in Seq(Digits)
  BY PunctAssumption
<1> QED BY <1>1, <1>2, <1>3, <1>4, PunctAssumption, EmptySeq

LEMMA InitTyped == SessionInit => SessionTypeOK
<1>1. <<>> \in Bytes /\ <<>> \in Seq(Bytes) /\ 0 \in 0 .. DefaultLen
  BY NodeAssumption DEF Bytes
<1>2. <<>> \in Seq(Participants) /\ <<>> \in Seq([host : Bytes, port : Bytes])
  OBVIOUS
<1> SUFFICES ASSUME SessionInit PROVE SessionTypeOK
  OBVIOUS
<1>3. /\ pc \in [Procs -> Places] /\ listening \in BOOLEAN /\ backlog \in Seq(Participants)
      /\ nodes \in Seq([host : Bytes, port : Bytes]) /\ conn \in Participants \cup {None}
  BY <1>2, PlacesAre DEF SessionInit, NodeInit
<1>4. /\ open \in [Links -> BOOLEAN] /\ wire \in [Links -> Bytes]
      /\ buff \in [Procs -> Bytes] /\ ret \in [Procs -> 0 .. DefaultLen]
      /\ messages \in [Procs -> Seq(Bytes)]
  BY <1>1 DEF SessionInit, NodeInit
<1>5. key \in [Participants -> {None} \cup Bytes] /\ comm \in [Participants -> {None} \cup Bytes]
  BY DEF SessionInit
<1> QED BY <1>3, <1>4, <1>5 DEF SessionTypeOK

LEMMA ElectsTyped == SessionTypeOK /\ LeaderElects => SessionTypeOK'
<1> SUFFICES ASSUME SessionTypeOK, LeaderElects PROVE SessionTypeOK'
  OBVIOUS
<1>1. pc' \in [Procs -> Places]
  BY PlacesAre DEF SessionTypeOK, LeaderElects, Goto
<1> QED BY <1>1 DEF SessionTypeOK, LeaderElects, nodeVars, net, local

\* Both sends of the leader.
LEMMA SendsTyped ==
    SessionTypeOK /\ (LeaderSendsPunct \/ LeaderSendsCommitment) => SessionTypeOK'
<1> SUFFICES ASSUME SessionTypeOK, LeaderSendsPunct \/ LeaderSendsCommitment
             PROVE  SessionTypeOK'
  OBVIOUS
<1>1. /\ conn \in Participants /\ <<conn, Leader>> \in Links /\ <<Leader, conn>> \in Links
      /\ Leader \in Procs /\ "recv_hello" \in Places /\ "send_comm" \in Places
  BY LinksOf, PlacesAre DEF LeaderSendsPunct, LeaderSendsCommitment, SessionTypeOK
<1>2. CASE LeaderSendsPunct
  BY <1>1, <1>2, PunctIs, SendEffect DEF LeaderSendsPunct
<1>3. CASE LeaderSendsCommitment
  BY <1>1, <1>3, PunctIs, SendEffect DEF LeaderSendsCommitment
<1> QED BY <1>2, <1>3

\* What is left after the last whole block is less than a block.
LEMMA CorrectedIs ==
    ASSUME NEW text \in Bytes
    PROVE  /\ Corrected(text) \in Bytes
           /\ Len(text) - Len(Corrected(text)) \in 0 .. Block - 1
<1>1. Len(text) \in Nat /\ Block \in Nat \ {0}
  BY PunctAssumption DEF Bytes
<1>2. Len(text) % Block \in 0 .. Block - 1
  BY <1>1
<1>3. Len(text) % Block <= Len(text)
  BY <1>1
<1> DEFINE over == Len(text) % Block
<1>4. over \in Nat /\ over <= Len(text) /\ over < Block
  BY <1>1, <1>2, <1>3
<1> HIDE DEF over
<1>5. SubSeq(text, 1, Len(text) - over) \in Bytes
  BY <1>1, <1>4 DEF Bytes
<1>6. Len(SubSeq(text, 1, Len(text) - over)) = Len(text) - over
  BY <1>1, <1>4 DEF Bytes
<1> QED BY <1>1, <1>4, <1>5, <1>6 DEF Corrected, over

LEMMA TakesPunctIs ==
    ASSUME SessionTypeOK, NEW p \in Participants, ParticipantTakesPunct(p)
    PROVE  /\ SessionTypeOK' /\ pc[p] = "take_key"
           /\ \/ /\ key' = [key EXCEPT ![p] = Corrected(FirstMessage(p))] /\ GetMessage(p)
                 /\ pc' = [pc EXCEPT ![p] = "recv_comm"]
                 /\ UNCHANGED <<net, buff, ret, conn, nodes, comm>>
              \/ Ends(p, "killed")
<1>1. p \in Procs /\ "recv_comm" \in Places /\ "killed" \in Places
  BY LinksOf, PlacesAre
<1>2. CASE Ends(p, "killed")
  BY <1>1, <1>2, EndsEffect DEF ParticipantTakesPunct
<1>3. CASE /\ key' = [key EXCEPT ![p] = Corrected(FirstMessage(p))] /\ GetMessage(p)
           /\ Goto(p, "recv_comm")
           /\ UNCHANGED <<net, buff, ret, conn, nodes, comm>>
  <2>1. messages' \in [Procs -> Seq(Bytes)] /\ FirstMessage(p) \in Bytes
    BY <1>1, <1>3, GetMessageType
  <2>2. Corrected(FirstMessage(p)) \in Bytes
    BY <2>1, CorrectedIs
  <2>3. SessionTypeOK'
    BY <1>1, <1>3, <2>1, <2>2 DEF SessionTypeOK, Goto, net
  <2> QED BY <1>3, <2>3 DEF ParticipantTakesPunct, Goto
<1> QED BY <1>2, <1>3 DEF ParticipantTakesPunct

\* Every step keeps the types.
LEMMA StepTyped == SessionTypeOK /\ [Next]_vars => SessionTypeOK'
<1> SUFFICES ASSUME SessionTypeOK, [Next]_vars PROVE SessionTypeOK'
  OBVIOUS
<1>1. CASE LeaderStep
  BY <1>1, ElectsTyped, SendsTyped, LeaderTyped DEF LeaderStep
<1>2. ASSUME NEW p \in Participants, ParticipantStep(p) PROVE SessionTypeOK'
  BY <1>2, ParticipantTyped, TakesPunctIs DEF ParticipantStep
<1>3. ASSUME NEW x \in Procs, SystemCallFails(x) \/ Killed(x) PROVE SessionTypeOK'
  BY <1>3, EndTyped
<1>4. CASE UNCHANGED vars
  BY <1>4 DEF SessionTypeOK, vars, nodeVars, net, local, progVars
<1> QED BY <1>1, <1>2, <1>3, <1>4 DEF Next, ProcStep, Over

-----------------------------------------------------------------------------
(* Connecting once. *)

\* It is kept by a step after which nobody new is accepted or in the backlog.
LEMMA ConnectedFrame ==
    ASSUME Connected, SessionTypeOK, conn' = conn, backlog' \in {backlog, <<>>},
           \A q \in Participants :
               pc'[q] \in {"socket", "connect"} => pc[q] \in {"socket", "connect"}
    PROVE  Connected'
<1>1. conn # None => conn \in Participants
  BY DEF SessionTypeOK
<1>2. \A k \in 1 .. Len(backlog) : backlog[k] \in Participants
  BY DEF SessionTypeOK
<1>3. Len(<<>>) = 0
  OBVIOUS
<1> QED BY <1>1, <1>2, <1>3 DEF Connected

LEMMA EndKeepsConnected ==
    ASSUME SessionTypeOK, Connected, NEW x \in Procs, NEW how \in Gone, Ends(x, how)
    PROVE  Connected'
<1>1. /\ how \in Places /\ pc \in [Procs -> Places]
      /\ \A q \in Participants : q \in Procs
  BY LinksOf DEF SessionTypeOK, Places
<1>2. pc' = [pc EXCEPT ![x] = how] /\ conn' = conn /\ backlog' \in {backlog, <<>>}
  BY <1>1, EndsEffect
<1>3. how \notin {"socket", "connect"}
  BY DEF Gone
<1> QED BY <1>1, <1>2, <1>3, ConnectedFrame

LEMMA ParticipantKeepsConnected ==
    ASSUME SessionTypeOK, Connected, NEW p \in Participants, ParticipantCommon(p)
    PROVE  Connected'
<1>0. /\ p \in Procs /\ pc \in [Procs -> Places] /\ backlog \in Seq(Participants)
      /\ \A q \in Participants : q \in Procs
  BY LinksOf DEF SessionTypeOK
<1>1. CASE \E how \in Gone : Ends(p, how)
  BY <1>0, <1>1, EndKeepsConnected
<1>2. CASE ParticipantConnects(p)
  <2>1. /\ pc' = [pc EXCEPT ![p] = "send_reg"] /\ conn' = conn
        /\ backlog' = Append(backlog, p)
    BY <1>2 DEF ParticipantConnects, Connect, Goto
  <2>2. \A q \in Participants :
            pc'[q] \in {"socket", "connect"} => pc[q] \in {"socket", "connect"} /\ q # p
    BY <1>0, <2>1
  <2>3. conn' # None => pc'[conn'] \notin {"socket", "connect"}
    BY <1>0, <2>1, <2>2 DEF Connected, SessionTypeOK
  <2>4. ASSUME NEW k \in 1 .. Len(backlog')
        PROVE  pc'[backlog'[k]] \notin {"socket", "connect"}
    <3>1. \/ k \in 1 .. Len(backlog) /\ backlog'[k] = backlog[k]
          \/ backlog'[k] = p
      BY <1>0, <2>1, <2>4
    <3>2. k \in 1 .. Len(backlog) => backlog[k] \in Participants
      BY <1>0
    <3> QED BY <1>0, <2>2, <3>1, <3>2 DEF Connected
  <2> QED BY <2>3, <2>4 DEF Connected
<1>3. CASE ~(\E how \in Gone : Ends(p, how)) /\ ~ParticipantConnects(p)
  <2>1. /\ conn' = conn /\ backlog' = backlog
        /\ \E next \in {"send_reg", "connect", "recv_key", "take_key", "take_comm",
                        "send_hello", "close"} :
               /\ pc' = [pc EXCEPT ![p] = next]
               /\ next = "connect" => pc[p] = "socket"
    BY <1>3 DEF ParticipantCommon, Socket, Send, Receive, ReceiveMessage,
       SendMessage, ParticipantTakesCommitment, ParticipantFinishes, Goto, Gone,
       nodeVars, net
  <2>2. \A q \in Participants :
            pc'[q] \in {"socket", "connect"} => pc[q] \in {"socket", "connect"}
    BY <1>0, <2>1
  <2> QED BY <2>1, <2>2, ConnectedFrame
<1> QED BY <1>1, <1>2, <1>3

LEMMA LeaderKeepsConnected ==
    ASSUME SessionTypeOK, Connected, LeaderCommon
    PROVE  Connected'
<1>0. /\ Leader \in Procs /\ pc \in [Procs -> Places] /\ backlog \in Seq(Participants)
      /\ \A q \in Participants : q \in Procs /\ q # Leader
  BY LinksOf DEF SessionTypeOK
<1>1. CASE \E how \in Gone : Ends(Leader, how)
  BY <1>0, <1>1, EndKeepsConnected
<1>2. CASE ~\E how \in Gone : Ends(Leader, how)
  <2>1. \E next : pc' = [pc EXCEPT ![Leader] = next]
    BY <1>2 DEF LeaderCommon, Socket, LeaderListens, LeaderAccepts, Receive,
       LeaderRegisters, LeaderTakesAnswer, LeaderCloses, LeaderFinishes, Goto, Gone
  <2>2. \A q \in Participants : pc'[q] = pc[q]
    BY <1>0, <2>1
  <2>3. CASE LeaderAccepts
    <3>1. /\ backlog # <<>> /\ conn' = Head(backlog) /\ backlog' = Tail(backlog)
      BY <2>3 DEF LeaderAccepts, Accept
    <3>2. /\ Len(backlog) \in Nat \ {0} /\ conn' = backlog[1] /\ backlog[1] \in Participants
          /\ Len(backlog') = Len(backlog) - 1
          /\ \A k \in 1 .. Len(backlog') : /\ backlog'[k] = backlog[k + 1]
                                           /\ k + 1 \in 1 .. Len(backlog)
                                           /\ backlog[k + 1] \in Participants
      BY <1>0, <3>1
    <3>3. /\ pc'[conn'] \notin {"socket", "connect"}
          /\ \A k \in 1 .. Len(backlog') : pc'[backlog'[k]] \notin {"socket", "connect"}
      BY <2>2, <3>2 DEF Connected
    <3> QED BY <3>3 DEF Connected
  <2>4. CASE ~LeaderAccepts
    <3>1. conn' = conn /\ backlog' = backlog
      BY <1>2, <2>4 DEF LeaderCommon, Socket, LeaderListens, Listen, Receive,
         ReceiveMessage, LeaderRegisters, LeaderTakesAnswer, LeaderCloses,
         LeaderFinishes, Gone, nodeVars, net
    <3> QED BY <2>2, <3>1, ConnectedFrame
  <2> QED BY <2>3, <2>4
<1> QED BY <1>1, <1>2

-----------------------------------------------------------------------------
(* The stream of the leader. *)

\* A process that ends, or a step that leaves the participant q alone.
LEMMA StreamFrame ==
    ASSUME NEW q \in Participants, StreamAt(q), conn' = conn,
           pc'[q] = pc[q] \/ pc'[q] \in Gone,
           messages'[q] = messages[q], ret'[q] = ret[q], key'[q] = key[q],
           wire'[<<Leader, q>>] \in {<<>>, wire[<<Leader, q>>]},
           pc'[Leader] = "send_comm" =>
               /\ pc[Leader] = "send_comm"
               /\ pc'[q] \in Before => /\ wire'[<<Leader, q>>] = wire[<<Leader, q>>]
                                       /\ open'[<<q, Leader>>] => open[<<q, Leader>>]
    PROVE  StreamAt(q)'
<1>1. ReadsPunct(q)'
  BY DEF StreamAt, ReadsPunct, Before, Gone
<1>2. ReadsRest(q)'
  BY DEF StreamAt, ReadsRest, Gone
<1> QED BY <1>1, <1>2 DEF StreamAt

LEMMA EndKeepsStream ==
    ASSUME SessionTypeOK, Stream, NEW x \in Procs, NEW how \in Gone, Ends(x, how)
    PROVE  Stream'
<1> SUFFICES ASSUME NEW q \in Participants PROVE StreamAt(q)'
  BY DEF Stream
<1>1. /\ how \in Places /\ pc \in [Procs -> Places] /\ q \in Procs /\ Leader \in Procs
      /\ <<Leader, q>> \in Links /\ <<q, Leader>> \in Links /\ StreamAt(q)
  BY LinksOf DEF SessionTypeOK, Places, Stream
<1>2. /\ pc' = [pc EXCEPT ![x] = how] /\ UNCHANGED <<local, conn, key>>
      /\ \A l \in Links : wire'[l] \in {<<>>, wire[l]}
      /\ \A l \in Links : l[1] # x => open'[l] = open[l]
      /\ \A l \in Links : l[1] # x /\ l[2] # x => wire'[l] = wire[l]
  BY <1>1, EndsEffect
<1>3. pc'[q] = pc[q] \/ pc'[q] \in Gone
  BY <1>1, <1>2
<1>4. how # "send_comm" /\ how \notin Before
  BY DEF Gone, Before
<1>5. pc'[Leader] = "send_comm" => pc[Leader] = "send_comm" /\ x # Leader
  BY <1>1, <1>2, <1>4
<1>6. pc'[q] \in Before => x # q
  BY <1>1, <1>2, <1>4
<1>7. x # Leader /\ x # q => /\ wire'[<<Leader, q>>] = wire[<<Leader, q>>]
                             /\ open'[<<q, Leader>>] = open[<<q, Leader>>]
  BY <1>1, <1>2
<1> QED BY <1>1, <1>2, <1>3, <1>5, <1>6, <1>7, StreamFrame DEF local

\* The bytes of a stream past a place behind its first part.
LEMMA PastPunct ==
    ASSUME NEW n \in Nat, Len(Punct) <= n, n <= Len(Punct \o Comm)
    PROVE  SubSeq(Punct \o Comm, n + 1, Len(Punct \o Comm))
               = SubSeq(Comm, n - Len(Punct) + 1, Len(Comm))
<1> DEFINE whole == Punct \o Comm
           s == SubSeq(whole, n + 1, Len(whole))
           t == SubSeq(Comm, n - Len(Punct) + 1, Len(Comm))
<1>1. /\ Len(Punct) \in Nat /\ Len(Comm) \in Nat /\ whole \in Bytes
      /\ Len(whole) = Len(Punct) + Len(Comm)
      /\ \A i \in 1 .. Len(whole) :
             whole[i] = IF i <= Len(Punct) THEN Punct[i] ELSE Comm[i - Len(Punct)]
  BY PunctIs DEF Bytes
<1> HIDE DEF whole
<1>2. /\ s \in Seq(Byte) /\ Len(s) = Len(whole) - n
      /\ \A i \in 1 .. Len(s) : s[i] = whole[i + n]
  BY <1>1 DEF Bytes
<1> DEFINE k == n - Len(Punct)
<1>3. /\ t \in Seq(Byte) /\ Len(t) = Len(Comm) - k
      /\ \A i \in 1 .. Len(t) : t[i] = Comm[i + k]
  <2>1. k \in Nat /\ k <= Len(Comm)
    BY <1>1 DEF whole
  <2>2. t = SubSeq(Comm, k + 1, Len(Comm)) /\ Comm \in Seq(Byte)
    BY PunctIs DEF Bytes
  <2> HIDE DEF k, t
  <2> QED BY <1>1, <2>1, <2>2
<1>4. n <= Len(whole)
  BY DEF whole
<1> HIDE DEF s, t
<1>5. Len(s) = Len(t)
  BY <1>1, <1>2, <1>3
<1>6. ASSUME NEW i \in 1 .. Len(s) PROVE s[i] = t[i]
  <2>1. /\ i \in Nat /\ i >= 1 /\ i + n \in 1 .. Len(whole) /\ ~(i + n <= Len(Punct))
        /\ (i + n) - Len(Punct) = i + (n - Len(Punct))
    BY <1>1, <1>2, <1>4
  <2>2. s[i] = Comm[i + (n - Len(Punct))]
    BY <1>1, <1>2, <2>1
  <2> QED BY <1>3, <1>5, <2>2
<1>7. s = t
  BY <1>2, <1>3, <1>5, <1>6, SeqEqual
<1> QED BY <1>7 DEF s, t, whole

\* What recv returns of digits is the beginning of the message.
LEMMA DigitsBegin ==
    ASSUME NEW stream \in Seq(Digits), NEW n \in 0 .. Len(stream), NEW tail \in Bytes
    PROVE  LET data == SubSeq(stream, 1, n)
               text == Clean(data \o tail)
           IN  /\ text \in Bytes /\ Len(text) >= n /\ SubSeq(text, 1, n) = data
<1> DEFINE data == SubSeq(stream, 1, n)
           text == Clean(data \o tail)
<1>1. /\ stream \in Seq(Byte \ {"ctl"}) /\ Len(stream) \in Nat
  BY PunctIs
<1>2. data \in Seq(Byte \ {"ctl"}) /\ Len(data) = n
  BY <1>1
<1>3. data \in Bytes
  BY <1>2 DEF Bytes
<1> HIDE DEF data
<1>4. data \o tail \in Bytes
  BY <1>3 DEF Bytes
<1>5. text \in Bytes
  BY <1>4, CleanType
<1>6. IsPrefix(data, text)
  BY <1>2, CleanKeepsPrefix
<1> HIDE DEF text
<1>7. Len(data) <= Len(text) /\ SubSeq(data, 1, Len(data)) = SubSeq(text, 1, Len(data))
  BY <1>6 DEF IsPrefix
<1>8. SubSeq(data, 1, Len(data)) = data
  BY <1>3 DEF Bytes
<1>9. Len(text) >= n /\ SubSeq(text, 1, n) = data
  BY <1>1, <1>2, <1>5, <1>7, <1>8 DEF Bytes
<1> QED BY <1>5, <1>9 DEF data, text

\* The first recv takes the punctured value, or part of it, or more.
LEMMA ReceivesPunct ==
    ASSUME SessionTypeOK, Stream, NEW p \in Participants,
           Receive(p, Leader, "recv_key", "take_key")
    PROVE  StreamAt(p)'
<1>1. /\ p \in Procs /\ <<Leader, p>> \in Links /\ "take_key" \in Places
      /\ pc \in [Procs -> Places] /\ wire \in [Links -> Bytes]
      /\ ret \in [Procs -> 0 .. DefaultLen] /\ messages \in [Procs -> Seq(Bytes)]
      /\ p # Leader /\ Leader \in Procs
  BY LinksOf, PlacesAre DEF SessionTypeOK
<1>2. /\ pc[p] = "recv_key" /\ pc'[p] = "take_key" /\ pc'[Leader] = pc[Leader]
      /\ StreamAt(p) /\ messages[p] = <<>> /\ conn' = conn
      /\ wire[<<Leader, p>>] \in {<<>>, Punct, Punct \o Comm}
      /\ pc[Leader] = "send_comm" => wire[<<Leader, p>>] \in {<<>>, Punct}
  BY <1>1 DEF Receive, Goto, Stream, StreamAt, ReadsPunct, Before
<1> DEFINE s == wire[<<Leader, p>>]
<1>3. PICK n \in 0 .. Len(s), tail \in Bytes :
          /\ ret' = [ret EXCEPT ![p] = n]
          /\ messages' = [messages EXCEPT ![p] = Append(@, Clean(SubSeq(s, 1, n) \o tail))]
          /\ wire' = [wire EXCEPT ![<<Leader, p>>] = SubSeq(@, n + 1, Len(@))]
  BY <1>1, ReceiveEffect
<1>4. s \in Seq(Digits) /\ s \in Bytes /\ Len(s) \in Nat /\ Len(<<>>) = 0
  <2>1. <<>> \in Seq(Digits) /\ Len(<<>>) = 0
    OBVIOUS
  <2>2. s \in Seq(Digits) /\ s \in Bytes
    BY <1>1, <1>2, <2>1, PunctIs
  <2> QED BY <2>1, <2>2
<1> DEFINE text == Clean(SubSeq(s, 1, n) \o tail)
<1>5. text \in Bytes /\ Len(text) >= n
  BY <1>4, DigitsBegin
<1>6. messages'[p] = Append(<<>>, text)
  BY <1>1, <1>2, <1>3
<1>7. ret'[p] = n /\ wire'[<<Leader, p>>] = SubSeq(s, n + 1, Len(s))
  BY <1>1, <1>3
<1> HIDE DEF text
<1>8. Len(messages'[p]) = 1 /\ Head(messages'[p]) = text
  BY <1>5, <1>6
<1>9. ~(pc'[p] \in Before) /\ (p # conn' => wire'[<<Leader, p>>] = <<>>)
  <2>1. p # conn => s = <<>>
    BY <1>2 DEF StreamAt
  <2>2. s = <<>> => n = 0 /\ SubSeq(s, n + 1, Len(s)) = <<>>
    BY <1>4, EmptySeq, SubSeqEmpty
  <2> QED BY <1>2, <1>7, <2>1, <2>2 DEF Before
<1>10. CASE n < Len(Punct)
  <2>1. ~(ret'[p] >= Len(Punct))
    BY <1>4, <1>7, <1>10, PunctIs
  <2>2. ReadsPunct(p)' /\ ReadsRest(p)'
    BY <1>9, <2>1 DEF ReadsPunct, ReadsRest
  <2> QED BY <1>9, <2>2 DEF StreamAt
<1>11. CASE n >= Len(Punct)
  <2>1. s \in {Punct, Punct \o Comm}
    <3>1. s # <<>>
      BY <1>4, <1>11, PunctIs
    <3> QED BY <1>2, <3>1
  <2>2. s = Punct => n = Len(Punct) /\ SubSeq(s, n + 1, Len(s)) = <<>>
    <3>1. s = Punct => n = Len(Punct)
      BY <1>4, <1>11
    <3>2. SubSeq(Punct, Len(Punct) + 1, Len(Punct)) = <<>>
      BY PunctIs, SubSeqEmpty
    <3> QED BY <3>1, <3>2
  <2>3. s = Punct \o Comm =>
            SubSeq(s, n + 1, Len(s)) = SubSeq(Comm, n - Len(Punct) + 1, Len(Comm))
    BY <1>4, <1>11, PastPunct
  <2>4. pc[Leader] = "send_comm" => s = Punct
    <3>1. s # <<>>
      BY <1>4, <1>11, PunctIs
    <3> QED BY <1>2, <3>1
  <2>5. ReadsRest(p)'
    BY <1>2, <1>5, <1>7, <1>8, <2>1, <2>2, <2>3, <2>4 DEF ReadsRest
  <2> QED BY <1>9, <2>5 DEF StreamAt, ReadsPunct
<1> QED BY <1>4, <1>10, <1>11, PunctIs

LEMMA ParticipantKeepsStream ==
    ASSUME SessionTypeOK, Connected, Stream, NEW p \in Participants, ParticipantCommon(p)
    PROVE  Stream'
<1>0. /\ p \in Procs /\ p # Leader /\ Leader \in Procs
      /\ <<Leader, p>> \in Links /\ <<p, Leader>> \in Links
      /\ <<Leader, p>> # <<p, Leader>>
      /\ pc \in [Procs -> Places] /\ wire \in [Links -> Bytes] /\ open \in [Links -> BOOLEAN]
      /\ ret \in [Procs -> 0 .. DefaultLen] /\ messages \in [Procs -> Seq(Bytes)]
      /\ \A q \in Participants : /\ q \in Procs /\ <<Leader, q>> \in Links
                                 /\ <<q, Leader>> \in Links
                                 /\ <<Leader, q>> # <<p, Leader>>
                                 /\ <<q, Leader>> # <<Leader, p>>
                                 /\ q # p => <<q, Leader>> # <<p, Leader>>
  BY LinksOf DEF SessionTypeOK
<1>1. CASE \E how \in Gone : Ends(p, how)
  BY <1>0, <1>1, EndKeepsStream
<1>2. CASE ~\E how \in Gone : Ends(p, how)
  <2> DEFINE Own ==
        /\ UNCHANGED <<key, conn>> /\ \E next : pc' = [pc EXCEPT ![p] = next]
        /\ \A q \in Participants \ {p} : /\ messages'[q] = messages[q] /\ ret'[q] = ret[q]
                                         /\ wire'[<<Leader, q>>] = wire[<<Leader, q>>]
                                         /\ open'[<<q, Leader>>] = open[<<q, Leader>>]
  <2>1. Own
    <3>1. ASSUME \/ Socket(p, "connect") \/ ParticipantConnects(p)
                 \/ ParticipantTakesCommitment(p)
          PROVE  Own
      BY <1>0, <3>1 DEF Socket, ParticipantConnects, ParticipantTakesCommitment, Connect,
         GetMessage, Goto, net, local, nodeVars
    <3>2. ASSUME NEW here, NEW next, Receive(p, Leader, here, next)
          PROVE  Own
      BY <1>0, <3>2 DEF Receive, ReceiveMessage, Returns, Consume, Goto
    <3>3. ASSUME NEW msg, NEW here, NEW next, Send(p, Leader, msg, here, next)
          PROVE  Own
      BY <1>0, <1>2, <3>3 DEF Send, SendMessage, Goto, local, Gone
    <3> QED BY <1>2, <3>1, <3>2, <3>3 DEF ParticipantCommon, ParticipantFinishes, Gone
  <2>2. ASSUME NEW q \in Participants \ {p} PROVE StreamAt(q)'
    <3>1. pc'[q] = pc[q] /\ pc'[Leader] = pc[Leader]
      BY <1>0, <2>1
    <3> QED BY <2>1, <3>1, StreamFrame DEF Stream
  <2>3. StreamAt(p)'
    <3>0. StreamAt(p) /\ pc'[Leader] = pc[Leader] /\ conn' = conn
      BY <1>0, <2>1 DEF Stream
    <3>1. CASE Socket(p, "connect")
      BY <1>0, <3>0, <3>1 DEF Socket, Goto, StreamAt, ReadsPunct, ReadsRest, Before,
         net, local, nodeVars
    <3>2. CASE ParticipantConnects(p)
      <4>1. p # conn \/ conn = None
        BY <3>2 DEF Connected, ParticipantConnects
      <4>2. p # conn
        BY <4>1, SessionAssumption
      <4> QED BY <1>0, <3>0, <3>2, <4>2 DEF ParticipantConnects, Connect, Goto, StreamAt,
          ReadsPunct, ReadsRest, Before, local
    <3>3. CASE /\ pc[p] = "send_reg" /\ SendMessage(p, Leader, RegMsg(p))
               /\ Goto(p, "recv_key") /\ UNCHANGED local
      BY <1>0, <3>0, <3>3 DEF SendMessage, Goto, StreamAt, ReadsPunct, ReadsRest, Before,
         local
    <3>4. CASE Receive(p, Leader, "recv_key", "take_key")
      BY <3>4, ReceivesPunct
    <3>5. CASE /\ pc'[p] \in {"take_comm", "send_hello", "close"}
               /\ p # conn => wire'[<<Leader, p>>] = <<>>
      BY <3>0, <3>5 DEF StreamAt, ReadsPunct, ReadsRest, Before
    <3>6. ASSUME Receive(p, Leader, "recv_comm", "take_comm")
          PROVE  /\ pc'[p] = "take_comm"
                 /\ p # conn => wire'[<<Leader, p>>] = <<>>
      <4>1. pc'[p] = "take_comm"
        BY <1>0, <3>6 DEF Receive, Goto
      <4>2. PICK n \in 0 .. Len(wire[<<Leader, p>>]) :
                wire' = [wire EXCEPT ![<<Leader, p>>] = SubSeq(@, n + 1, Len(@))]
        BY <1>0, <3>6, PlacesAre, ReceiveEffect
      <4>3. ASSUME p # conn PROVE wire'[<<Leader, p>>] = <<>>
        <5>1. wire[<<Leader, p>>] = <<>>
          BY <3>0, <4>3 DEF StreamAt
        <5>2. n = 0 /\ SubSeq(<<>>, n + 1, Len(<<>>)) = <<>>
          BY <5>1, SubSeqEmpty
        <5> QED BY <1>0, <4>2, <5>1, <5>2
      <4> QED BY <4>1, <4>3
    <3>7. ASSUME ParticipantTakesCommitment(p)
          PROVE  pc'[p] = "send_hello" /\ wire' = wire
      BY <1>0, <3>7 DEF ParticipantTakesCommitment, Goto, net
    <3>8. ASSUME Send(p, Leader, <<"hello">>, "send_hello", "close")
          PROVE  pc'[p] = "close" /\ wire'[<<Leader, p>>] = wire[<<Leader, p>>]
      BY <1>0, <1>2, <3>8 DEF Send, SendMessage, Goto, Gone
    <3>9. Send(p, Leader, RegMsg(p), "send_reg", "recv_key") =>
              /\ pc[p] = "send_reg" /\ SendMessage(p, Leader, RegMsg(p))
              /\ Goto(p, "recv_key") /\ UNCHANGED local
      BY <1>2 DEF Send, Gone
    <3>10. ~ParticipantFinishes(p)
      BY <1>2 DEF ParticipantFinishes, Gone
    <3>11. p # conn => wire[<<Leader, p>>] = <<>>
      BY <3>0 DEF StreamAt
    <3> QED BY <3>1, <3>2, <3>3, <3>4, <3>5, <3>6, <3>7, <3>8, <3>9, <3>10, <3>11
        DEF ParticipantCommon
  <2> QED BY <2>2, <2>3 DEF Stream
<1> QED BY <1>1, <1>2

\* Nothing the leader does but its two sends puts bytes on a stream.
LEMMA LeaderKeepsStream ==
    ASSUME SessionTypeOK, NothingSent, Stream, LeaderCommon
    PROVE  Stream'
<1>0. /\ Leader \in Procs /\ pc \in [Procs -> Places] /\ wire \in [Links -> Bytes]
      /\ ret \in [Procs -> 0 .. DefaultLen] /\ messages \in [Procs -> Seq(Bytes)]
      /\ \A q \in Participants : q \in Procs /\ q # Leader /\ <<Leader, q>> \in Links
      /\ conn # None => conn \in Participants
      /\ \A q \in Participants : conn # None => <<Leader, q>> # <<conn, Leader>>
  BY LinksOf DEF SessionTypeOK
<1>1. CASE \E how \in Gone : Ends(Leader, how)
  BY <1>0, <1>1, EndKeepsStream
<1>2. CASE LeaderAccepts
  <2>1. /\ UNCHANGED <<wire, open, messages, ret, key>> /\ pc'[Leader] = "recv_reg"
        /\ \A q \in Participants : pc'[q] = pc[q]
    BY <1>0, <1>2 DEF LeaderAccepts, Accept, Goto, local
  <2>2. \A q \in Participants : wire[<<Leader, q>>] = <<>>
    BY <1>2 DEF NothingSent, Unserved, LeaderAccepts
  <2>3. ASSUME NEW q \in Participants PROVE StreamAt(q)'
    BY <2>1, <2>2 DEF Stream, StreamAt, ReadsPunct, ReadsRest
  <2> QED BY <2>3 DEF Stream
<1>3. CASE ~(\E how \in Gone : Ends(Leader, how)) /\ ~LeaderAccepts
  <2> DEFINE Own ==
        /\ UNCHANGED <<key, conn>>
        /\ \E next : pc' = [pc EXCEPT ![Leader] = next] /\ next # "send_comm"
        /\ \A q \in Participants :
               /\ messages'[q] = messages[q] /\ ret'[q] = ret[q]
               /\ wire'[<<Leader, q>>] \in {<<>>, wire[<<Leader, q>>]}
  <2>1. ASSUME Socket(Leader, "listen") \/ LeaderListens \/ LeaderTakesAnswer
        PROVE  Own
    BY <1>0, <2>1 DEF Socket, LeaderListens, Listen, LeaderTakesAnswer, GetMessage, Goto,
       nodeVars, net, local
  <2>2. ASSUME NEW here, NEW next, next # "send_comm", conn # None,
               Receive(Leader, conn, here, next)
        PROVE  Own
    BY <1>0, <2>2 DEF Receive, ReceiveMessage, Returns, Consume, Goto
  <2>3. ASSUME LeaderRegisters("send_key") PROVE Own
    BY <1>0, <1>3, <2>3 DEF LeaderRegisters, GetMessage, Goto, net, Gone
  <2>4. ASSUME LeaderCloses PROVE Own
    <3>1. \A l \in Links : wire'[l] \in {<<>>, wire[l]}
      BY <2>4, CloseEffect DEF LeaderCloses
    <3>2. /\ pc' = [pc EXCEPT ![Leader] = "close_listener"] /\ "close_listener" # "send_comm"
          /\ UNCHANGED <<key, conn, messages, ret>>
      BY <2>4 DEF LeaderCloses, Goto, local
    <3> QED BY <1>0, <3>1, <3>2
  <2>5. ~LeaderFinishes
    BY <1>3 DEF LeaderFinishes, Gone
  <2>6. Own
    BY <1>3, <2>1, <2>2, <2>3, <2>4, <2>5 DEF LeaderCommon
  <2>7. ASSUME NEW q \in Participants PROVE StreamAt(q)'
    <3>1. pc'[q] = pc[q] /\ pc'[Leader] # "send_comm"
      BY <1>0, <2>6
    <3> QED BY <2>6, <3>1, StreamFrame DEF Stream
  <2> QED BY <2>7 DEF Stream
<1> QED BY <1>1, <1>2, <1>3

LEMMA ElectsKeeps == IInv /\ LeaderElects => IInv'
<1> SUFFICES ASSUME IInv, LeaderElects PROVE IInv'
  OBVIOUS
<1>1. /\ pc \in [Procs -> Places] /\ Leader \in Procs /\ pc[Leader] = "elect"
      /\ \A p \in Participants : p \in Procs /\ p # Leader
      /\ UNCHANGED <<wire, open, messages, ret, key, conn, backlog>> /\ SessionTypeOK
  BY LinksOf DEF IInv, SessionTypeOK, LeaderElects, nodeVars, net, local
<1>2. pc'[Leader] = "socket" /\ \A p \in Participants : pc'[p] = pc[p]
  BY <1>1 DEF LeaderElects, Goto
<1>3. NothingSent'
  BY <1>1, <1>2 DEF IInv, NothingSent, Unserved
<1>4. Connected'
  BY <1>1, <1>2, ConnectedFrame DEF IInv
<1>5. ASSUME NEW q \in Participants PROVE StreamAt(q)'
  BY <1>1, <1>2, StreamFrame DEF IInv, Stream
<1>6. SessionTypeOK'
  BY ElectsTyped DEF IInv
<1> QED BY <1>3, <1>4, <1>5, <1>6 DEF IInv, Stream

\* The first send: nobody has read anything, and nothing is on its way.
LEMMA SendsPunctKeeps == IInv /\ LeaderSendsPunct => IInv'
<1> SUFFICES ASSUME IInv, LeaderSendsPunct PROVE IInv'
  OBVIOUS
<1>0. /\ conn \in Participants /\ <<conn, Leader>> \in Links /\ <<Leader, conn>> \in Links
      /\ Leader \in Procs /\ pc \in [Procs -> Places] /\ wire \in [Links -> Bytes]
      /\ pc[Leader] = "send_key" /\ SessionTypeOK /\ SessionTypeOK'
      /\ \A q \in Participants : q \in Procs /\ q # Leader /\ <<Leader, q>> \in Links
  BY LinksOf, SendsTyped DEF IInv, SessionTypeOK, LeaderSendsPunct, Send
<1>1. CASE Ends(Leader, "killed")
  <2>1. "killed" \in Gone
    BY DEF Gone
  <2> QED BY <1>0, <1>1, <2>1, EndKeepsNothingSent, EndKeepsConnected, EndKeepsStream
      DEF IInv
<1>2. CASE /\ SendMessage(Leader, conn, Punct) /\ Goto(Leader, "send_comm")
           /\ UNCHANGED <<local, conn, nodes, key, comm>>
  <2>1. /\ pc'[Leader] = "send_comm" /\ \A q \in Participants : pc'[q] = pc[q]
        /\ UNCHANGED <<messages, ret, key, conn, backlog, open>>
    BY <1>0, <1>2 DEF Goto, local, SendMessage
  <2>2. \A q \in Participants : wire[<<Leader, q>>] = <<>> /\ pc[q] \in Before \cup Gone
    BY <1>0 DEF IInv, NothingSent, Unserved
  <2>3. <<>> \o Punct = Punct
    BY PunctAssumption, ConcatEmptySeq
  <2>4. \A q \in Participants :
            /\ wire'[<<Leader, q>>] \in {<<>>, Punct}
            /\ q # conn => wire'[<<Leader, q>>] = <<>>
            /\ q = conn /\ open[<<q, Leader>>] => wire'[<<Leader, q>>] = Punct
    BY <1>0, <1>2, <2>2, <2>3 DEF SendMessage
  <2>5. NothingSent'
    BY <2>1 DEF NothingSent, Unserved
  <2>6. Connected'
    BY <1>0, <2>1, ConnectedFrame DEF IInv
  <2>7. ASSUME NEW q \in Participants PROVE StreamAt(q)'
    <3>1. ReadsRest(q)'
      BY <2>1, <2>2 DEF ReadsRest, Before, Gone
    <3>2. ReadsPunct(q)'
      BY <2>1, <2>4 DEF IInv, Stream, StreamAt, ReadsPunct
    <3> QED BY <2>1, <2>4, <3>1, <3>2 DEF StreamAt
  <2> QED BY <1>0, <2>5, <2>6, <2>7 DEF IInv, Stream
<1> QED BY <1>1, <1>2 DEF LeaderSendsPunct, Send

\* The second send follows the punctured value, read or not.
LEMMA SendsCommitmentKeeps == IInv /\ LeaderSendsCommitment => IInv'
<1> SUFFICES ASSUME IInv, LeaderSendsCommitment PROVE IInv'
  OBVIOUS
<1>0. /\ conn \in Participants /\ <<conn, Leader>> \in Links /\ <<Leader, conn>> \in Links
      /\ Leader \in Procs /\ pc \in [Procs -> Places] /\ wire \in [Links -> Bytes]
      /\ pc[Leader] = "send_comm" /\ SessionTypeOK /\ SessionTypeOK'
      /\ \A q \in Participants : q \in Procs /\ q # Leader /\ <<Leader, q>> \in Links
  BY LinksOf, SendsTyped DEF IInv, SessionTypeOK, LeaderSendsCommitment, Send
<1>1. CASE Ends(Leader, "killed")
  <2>1. "killed" \in Gone
    BY DEF Gone
  <2> QED BY <1>0, <1>1, <2>1, EndKeepsNothingSent, EndKeepsConnected, EndKeepsStream
      DEF IInv
<1>2. CASE /\ SendMessage(Leader, conn, Comm) /\ Goto(Leader, "recv_hello")
           /\ UNCHANGED <<local, conn, nodes, key, comm>>
  <2>1. /\ pc'[Leader] = "recv_hello" /\ \A q \in Participants : pc'[q] = pc[q]
        /\ UNCHANGED <<messages, ret, key, conn, backlog, open>>
    BY <1>0, <1>2 DEF Goto, local, SendMessage
  <2>2. /\ \A q \in Participants \ {conn} : wire'[<<Leader, q>>] = wire[<<Leader, q>>]
        /\ wire'[<<Leader, conn>>] = IF open[<<conn, Leader>>]
                                     THEN wire[<<Leader, conn>>] \o Comm
                                     ELSE wire[<<Leader, conn>>]
    BY <1>0, <1>2 DEF SendMessage
  <2>3. NothingSent'
    BY <2>1 DEF NothingSent, Unserved
  <2>4. Connected'
    BY <1>0, <2>1, ConnectedFrame DEF IInv
  <2>5. ASSUME NEW q \in Participants \ {conn} PROVE StreamAt(q)'
    BY <2>1, <2>2, StreamFrame DEF IInv, Stream
  <2>6. ASSUME NEW c \in Participants, c = conn PROVE StreamAt(c)'
    <3>0. StreamAt(c)
      BY DEF IInv, Stream
    <3>1. ReadsPunct(c)'
      BY <1>0, <2>1, <2>2, <2>6, <3>0 DEF StreamAt, ReadsPunct
    <3>2. ReadsRest(c)'
      <4> SUFFICES ASSUME pc[c] \in {"take_key", "recv_comm"}, ret[c] >= Len(Punct)
                   PROVE  wire'[<<Leader, c>>] \in
                              {<<>>, SubSeq(Comm, ret[c] - Len(Punct) + 1, Len(Comm))}
        BY <2>1, <3>0 DEF StreamAt, ReadsRest
      <4>1. wire[<<Leader, c>>] = <<>> /\ ret[c] = Len(Punct)
        BY <1>0, <2>6, <3>0 DEF StreamAt, ReadsRest
      <4>2. ret[c] - Len(Punct) + 1 = 1
        BY <4>1, PunctIs
      <4>3. <<>> \o Comm = Comm /\ SubSeq(Comm, 1, Len(Comm)) = Comm
        BY PunctIs, ConcatEmptySeq
      <4> QED BY <2>2, <2>6, <4>1, <4>2, <4>3
    <3> QED BY <2>1, <2>6, <3>1, <3>2 DEF StreamAt
  <2> QED BY <1>0, <2>3, <2>4, <2>5, <2>6 DEF IInv, Stream
<1> QED BY <1>1, <1>2 DEF LeaderSendsCommitment, Send

\* The correction: a key that is the punctured value has lost less than a block.
LEMMA TakesPunctKeeps ==
    ASSUME IInv, NEW p \in Participants, ParticipantTakesPunct(p)
    PROVE  IInv'
<1>0. /\ p \in Procs /\ p # Leader /\ Leader \in Procs /\ pc \in [Procs -> Places]
      /\ messages \in [Procs -> Seq(Bytes)] /\ key \in [Participants -> {None} \cup Bytes]
      /\ ret \in [Procs -> 0 .. DefaultLen]
      /\ \A q \in Participants : q \in Procs
      /\ "killed" \in Gone /\ SessionTypeOK /\ SessionTypeOK' /\ pc[p] = "take_key"
  BY LinksOf, TakesPunctIs DEF IInv, SessionTypeOK, Gone
<1>1. CASE Ends(p, "killed")
  BY <1>0, <1>1, EndKeepsNothingSent, EndKeepsConnected, EndKeepsStream DEF IInv
<1>2. CASE /\ key' = [key EXCEPT ![p] = Corrected(FirstMessage(p))] /\ GetMessage(p)
           /\ pc' = [pc EXCEPT ![p] = "recv_comm"]
           /\ UNCHANGED <<net, buff, ret, conn, nodes, comm>>
  <2>1. /\ pc'[p] = "recv_comm" /\ pc'[Leader] = pc[Leader]
        /\ key'[p] = Corrected(FirstMessage(p))
        /\ UNCHANGED <<wire, open, ret, conn, backlog>>
        /\ \A q \in Participants \ {p} : /\ pc'[q] = pc[q] /\ messages'[q] = messages[q]
                                         /\ key'[q] = key[q]
    BY <1>0, <1>2 DEF GetMessage, net
  <2>2. ~Unserved
    BY <1>0 DEF IInv, NothingSent, Before, Gone
  <2>3. NothingSent'
    BY <2>1, <2>2 DEF NothingSent, Unserved
  <2>4. Connected'
    BY <1>0, <2>1, ConnectedFrame DEF IInv
  <2>5. ASSUME NEW q \in Participants \ {p} PROVE StreamAt(q)'
    BY <2>1, StreamFrame DEF IInv, Stream
  <2>6. StreamAt(p)'
    <3>0. StreamAt(p)
      BY DEF IInv, Stream
    <3>1. ReadsPunct(p)'
      BY <2>1 DEF ReadsPunct, Before
    <3>2. ReadsRest(p)'
      <4> SUFFICES ASSUME ret[p] >= Len(Punct)
                   PROVE  /\ messages'[p] = <<>>
                          /\ key'[p] = Punct => ret[p] - Len(Punct) < Block
        BY <1>0, <2>1, <3>0 DEF StreamAt, ReadsRest
      <4>1. Len(messages[p]) = 1 /\ Len(Head(messages[p])) >= ret[p]
        BY <1>0, <3>0 DEF StreamAt, ReadsRest
      <4>2. /\ messages[p] \in Seq(Bytes) /\ messages[p] # <<>>
            /\ Tail(messages[p]) = <<>>
        <5>0. messages[p] \in Seq(Bytes)
          BY <1>0
        <5>1. messages[p] \in Seq(Bytes) /\ messages[p] # <<>>
          BY <4>1, <5>0, EmptySeq
        <5>2. Tail(messages[p]) \in Seq(Bytes) /\ Len(Tail(messages[p])) = 0
          BY <4>1, <5>1
        <5> QED BY <5>1, <5>2, EmptySeq
      <4>3. messages'[p] = <<>> /\ FirstMessage(p) = Head(messages[p])
        BY <1>0, <1>2, <4>2 DEF GetMessage, FirstMessage
      <4>4. FirstMessage(p) \in Bytes
        BY <1>0, <1>2, GetMessageType
      <4>5. ASSUME key'[p] = Punct PROVE ret[p] - Len(Punct) < Block
        <5>1. Len(FirstMessage(p)) - Len(Punct) \in 0 .. Block - 1
          BY <2>1, <4>4, <4>5, CorrectedIs
        <5>2. /\ ret[p] \in Nat /\ Len(FirstMessage(p)) \in Nat /\ Len(Punct) \in Nat
              /\ Block \in Nat
          BY <1>0, <4>4, PunctIs, PunctAssumption, NodeAssumption DEF Bytes
        <5> QED BY <4>1, <4>3, <5>1, <5>2
      <4> QED BY <4>3, <4>5
    <3> QED BY <2>1, <3>0, <3>1, <3>2 DEF StreamAt
  <2> QED BY <1>0, <2>3, <2>4, <2>5, <2>6 DEF IInv, Stream
<1> QED BY <1>1, <1>2, TakesPunctIs DEF IInv

LEMMA InitIInv == SessionInit => IInv
<1> SUFFICES ASSUME SessionInit PROVE IInv
  OBVIOUS
<1>1. /\ Leader \in Procs /\ pc[Leader] = "elect" /\ conn = None /\ Len(backlog) = 0
      /\ \A q \in Participants : /\ pc[q] = "socket" /\ messages[q] = <<>>
                                 /\ wire[<<Leader, q>>] = <<>>
  BY LinksOf DEF SessionInit, NodeInit
<1>2. NothingSent
  BY <1>1 DEF NothingSent, Before
<1>3. Connected
  BY <1>1 DEF Connected
<1>4. Stream
  BY <1>1 DEF Stream, StreamAt, ReadsPunct, ReadsRest
<1> QED BY <1>2, <1>3, <1>4, InitTyped DEF IInv

LEMMA StepIInv == IInv /\ [Next]_vars => IInv'
<1> SUFFICES ASSUME IInv, [Next]_vars PROVE IInv'
  OBVIOUS
<1>0. SessionTypeOK /\ SessionTypeOK'
  BY StepTyped DEF IInv
<1>1. CASE LeaderElects \/ LeaderSendsPunct \/ LeaderSendsCommitment
  BY <1>1, ElectsKeeps, SendsPunctKeeps, SendsCommitmentKeeps
<1>2. CASE LeaderCommon
  BY <1>0, <1>2, LeaderKeepsNothingSent, LeaderKeepsConnected, LeaderKeepsStream DEF IInv
<1>3. ASSUME NEW p \in Participants, ParticipantStep(p) PROVE IInv'
  <2>1. CASE ParticipantCommon(p)
    BY <1>0, <2>1, ParticipantKeepsNothingSent, ParticipantKeepsConnected,
       ParticipantKeepsStream DEF IInv
  <2>2. CASE ParticipantTakesPunct(p)
    BY <2>2, TakesPunctKeeps
  <2> QED BY <1>3, <2>1, <2>2 DEF ParticipantStep
<1>4. ASSUME NEW x \in Procs, SystemCallFails(x) \/ Killed(x) PROVE IInv'
  <2>1. PICK how \in Gone : Ends(x, how)
    BY <1>4 DEF SystemCallFails, Killed, Gone
  <2> QED BY <1>0, <2>1, EndKeepsNothingSent, EndKeepsConnected, EndKeepsStream DEF IInv
<1>5. CASE UNCHANGED vars
  BY <1>5 DEF IInv, SessionTypeOK, NothingSent, Unserved, Connected, Stream, StreamAt,
     ReadsPunct, ReadsRest, vars, nodeVars, net, local, progVars
<1> QED BY <1>1, <1>2, <1>3, <1>4, <1>5 DEF Next, ProcStep, LeaderStep, Over

\* What a participant reads is the leader's stream, cut where recv has cut it.
THEOREM Inductive == Spec => []IInv
  BY InitIInv, StepIInv, PTL DEF Spec

-----------------------------------------------------------------------------
(* The second recv. *)

LEMMA ReceivesRest ==
    ASSUME SessionTypeOK, NEW p \in Participants, StreamAt(p), ret[p] >= Len(Punct),
           Receive(p, Leader, "recv_comm", "take_comm")
    PROVE  LET early == ret[p] - Len(Punct)
           IN  /\ key[p] = Punct => early < Block
               /\ IsPrefix(SubSeq(FirstMessage(p)', 1, ret'[p]),
                           SubSeq(Comm, early + 1, Len(Comm)))
<1> DEFINE early == ret[p] - Len(Punct)
           rest  == SubSeq(Comm, early + 1, Len(Comm))
           s     == wire[<<Leader, p>>]
<1>1. /\ p \in Procs /\ <<Leader, p>> \in Links /\ "take_comm" \in Places
      /\ wire \in [Links -> Bytes] /\ messages \in [Procs -> Seq(Bytes)]
      /\ ret \in [Procs -> 0 .. DefaultLen] /\ ret[p] \in Nat
      /\ pc[p] = "recv_comm"
  <2>1. /\ p \in Procs /\ <<Leader, p>> \in Links /\ "take_comm" \in Places
        /\ wire \in [Links -> Bytes] /\ messages \in [Procs -> Seq(Bytes)]
        /\ ret \in [Procs -> 0 .. DefaultLen] /\ pc[p] = "recv_comm"
    BY LinksOf, PlacesAre DEF SessionTypeOK, Receive
  <2>2. ret[p] \in Nat
    BY <2>1, NodeAssumption
  <2> QED BY <2>1, <2>2
<1>2. /\ messages[p] = <<>> /\ (key[p] = Punct => early < Block)
      /\ s \in {<<>>, rest}
  BY <1>1 DEF StreamAt, ReadsRest
<1>3. early \in Nat
  BY <1>1, PunctIs
<1> HIDE DEF early
<1>4. rest \in Seq(Digits) /\ <<>> \in Seq(Digits) /\ Len(<<>>) = 0
  BY <1>3, PunctIs
<1> HIDE DEF rest
<1>5. PICK n \in 0 .. Len(s), tail \in Bytes :
          /\ ret' = [ret EXCEPT ![p] = n]
          /\ messages' = [messages EXCEPT ![p] = Append(@, Clean(SubSeq(s, 1, n) \o tail))]
  <2>1. \E n \in 0 .. Len(wire[<<Leader, p>>]), tail \in Bytes :
            LET data == SubSeq(wire[<<Leader, p>>], 1, n)
            IN  /\ ret' = [ret EXCEPT ![p] = n]
                /\ messages' = [messages EXCEPT ![p] = Append(@, Clean(data \o tail))]
                /\ wire' = [wire EXCEPT ![<<Leader, p>>] = SubSeq(@, n + 1, Len(@))]
    BY <1>1, ReceiveEffect
  <2> QED BY <2>1
<1> DEFINE text == Clean(SubSeq(s, 1, n) \o tail)
<1>6. s \in Seq(Digits)
  BY <1>2, <1>4
<1>7. text \in Bytes /\ SubSeq(text, 1, n) = SubSeq(s, 1, n)
  BY <1>6, DigitsBegin
<1>8. messages'[p] = Append(<<>>, text) /\ ret'[p] = n
  BY <1>1, <1>2, <1>5
<1> HIDE DEF text
<1>9. messages'[p] # <<>> /\ Head(messages'[p]) = text
  BY <1>7, <1>8
<1>10. SubSeq(FirstMessage(p)', 1, ret'[p]) = SubSeq(s, 1, n)
  BY <1>7, <1>8, <1>9 DEF FirstMessage
<1>11. IsPrefix(SubSeq(s, 1, n), rest)
  <2>1. /\ SubSeq(s, 1, n) \in Seq(Digits) /\ Len(SubSeq(s, 1, n)) = n
        /\ Len(s) \in Nat /\ n \in Nat /\ n <= Len(s)
    BY <1>6
  <2>2. CASE s = rest
    <3>1. SubSeq(SubSeq(s, 1, n), 1, n) = SubSeq(s, 1, n)
      BY <2>1
    <3> QED BY <2>1, <2>2, <3>1 DEF IsPrefix
  <2>3. CASE s = <<>>
    <3>1. n = 0 /\ SubSeq(s, 1, n) = <<>>
      BY <1>4, <2>1, <2>3, SubSeqEmpty
    <3>2. SubSeq(<<>>, 1, 0) = <<>> /\ SubSeq(rest, 1, 0) = <<>>
      BY <1>4, SubSeqEmpty
    <3> QED BY <1>4, <3>1, <3>2 DEF IsPrefix
  <2> QED BY <1>2, <2>2, <2>3
<1> QED BY <1>2, <1>10, <1>11 DEF early, rest

\* After a first recv of all of the punctured value the second one goes on in the
\* commitment where it has stopped, and a corrected key that is the punctured
\* value has cost less than a block of it.
THEOREM CommitmentFollowsKeyHolds == Spec => CommitmentFollowsKey
<1> DEFINE Follows(p) ==
               LET early == ret[p] - Len(Punct)
               IN  /\ key[p] = Punct => early < Block
                   /\ IsPrefix(SubSeq(FirstMessage(p)', 1, ret'[p]),
                               SubSeq(Comm, early + 1, Len(Comm)))
           Rest == \A p \in Participants :
                       /\ pc[p] = "recv_comm" /\ pc'[p] = "take_comm"
                       /\ ret[p] >= Len(Punct)
                       => Follows(p)
<1>1. IInv /\ [Next]_vars => [Rest]_vars
  <2> SUFFICES ASSUME IInv, Next, NEW p \in Participants,
                      pc[p] = "recv_comm", pc'[p] = "take_comm", ret[p] >= Len(Punct)
               PROVE  Follows(p)
    OBVIOUS
  <2> HIDE DEF Follows
  <2>1. /\ p \in Procs /\ p # Leader /\ pc \in [Procs -> Places] /\ Leader \in Procs
        /\ \A q \in Participants : q \in Procs
        /\ SessionTypeOK /\ StreamAt(p)
    BY LinksOf DEF IInv, SessionTypeOK, Stream
  <2>2. ASSUME NEW x \in Procs, NEW how \in Gone, Ends(x, how) PROVE FALSE
    BY <2>1, <2>2 DEF Ends, Goto, Gone
  <2>3. ~LeaderStep
    <3>1. \A next : Goto(Leader, next) => pc'[p] = pc[p]
      BY <2>1 DEF Goto
    <3> QED BY <2>1, <2>2, <3>1 DEF LeaderStep, LeaderElects, LeaderCommon, Socket,
        LeaderListens, LeaderAccepts, Receive, LeaderRegisters, LeaderTakesAnswer,
        LeaderCloses, LeaderFinishes, LeaderSendsPunct, LeaderSendsCommitment, Send, Gone
  <2>4. ASSUME NEW q \in Participants, ParticipantStep(q)
        PROVE  Receive(p, Leader, "recv_comm", "take_comm")
    <3>1. q = p
      <4>1. \A next : Goto(q, next) => pc'[q] = next /\ (q # p => pc'[p] = pc[p])
        BY <2>1 DEF Goto
      <4> QED BY <2>1, <2>2, <2>4, <4>1 DEF ParticipantStep, ParticipantCommon, Socket,
          ParticipantConnects, Send, Receive, ParticipantTakesCommitment,
          ParticipantFinishes, ParticipantTakesPunct, Gone
    <3> QED BY <2>1, <2>4, <3>1 DEF ParticipantStep, ParticipantCommon, Socket,
        ParticipantConnects, Send, Receive, ParticipantTakesCommitment,
        ParticipantFinishes, ParticipantTakesPunct
  <2>5. ~\E x \in Procs : SystemCallFails(x) \/ Killed(x)
    BY <2>2 DEF SystemCallFails, Killed, Gone
  <2>6. ~Over
    <3>1. pc # pc'
      OBVIOUS
    <3> QED BY <3>1 DEF Over, vars, progVars
  <2>7. Receive(p, Leader, "recv_comm", "take_comm")
    BY <2>3, <2>4, <2>5, <2>6 DEF Next, ProcStep
  <2> QED BY <2>1, <2>7, ReceivesRest DEF Follows
<1>2. CommitmentFollowsKey <=> [][Rest]_vars
  BY DEF CommitmentFollowsKey
<1> QED BY <1>1, Inductive, PTL DEF Spec, CommitmentFollowsKey

=============================================================================
