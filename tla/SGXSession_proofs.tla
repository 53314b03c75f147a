------------------------- MODULE SGXSession_proofs -------------------------
(***************************************************************************)
(* The session of the SGX program, for any set of participants, any key,   *)
(* any ports, buffer length and leftovers in the buffers: types, what ends *)
(* the mutual wait, and what becomes of a key that arrives whole.          *)
(***************************************************************************)
EXTENDS SGXSession, Session_proofs

\* What a participant finds before its first recv is nothing or the key; a whole
\* key leaves nothing in the socket, and is kept exactly.
KeyAt(p) ==
    /\ pc[p] \in Before => messages[p] = <<>> /\ wire[<<Leader, p>>] \in {<<>>, Key}
    /\ ret[p] = Len(Key) /\ pc[p] \in {"take_key", "recv_comm"} =>
           /\ wire[<<Leader, p>>] = <<>>
           /\ pc[p] = "take_key" => IsPrefix(Key, FirstMessage(p))
           /\ pc[p] = "recv_comm" => key[p] = Key

KeyKept == \A p \in Participants : KeyAt(p)

IInv == TypeOK /\ NothingSent /\ Addresses /\ KeyKept

-----------------------------------------------------------------------------
(* Types. *)

LEMMA KeyIs ==
    /\ Key \in Bytes /\ Key \in Seq(Byte \ {"ctl"}) /\ Len(Key) \in Nat \ {0}
    /\ \A text \in Bytes : text \in Seq(Bits) => text \in Bytes
<1>1. Bits \subseteq Byte \ {"ctl"}
  BY DEF Bits, Byte, Digits
<1>2. Key \in Seq(Byte \ {"ctl"}) /\ Key \in Bytes
  BY <1>1, KeyAssumption DEF Bytes
<1> QED BY <1>2, KeyAssumption, EmptySeq DEF Bytes

LEMMA InitTyped == SessionInit => TypeOK
<1>1. <<>> \in Bytes /\ <<>> \in Seq(Bytes) /\ 0 \in 0 .. DefaultLen
  BY NodeAssumption DEF Bytes
<1>2. <<>> \in Seq(Participants) /\ <<>> \in Seq([host : Bytes, port : Bytes])
  OBVIOUS
<1> SUFFICES ASSUME SessionInit PROVE TypeOK
  OBVIOUS
<1>3. /\ pc \in [Procs -> Places] /\ listening \in BOOLEAN /\ backlog \in Seq(Participants)
      /\ nodes \in Seq([host : Bytes, port : Bytes]) /\ conn \in Participants \cup {None}
  BY <1>2, PlacesAre DEF SessionInit, NodeInit
<1>4. /\ open \in [Links -> BOOLEAN] /\ wire \in [Links -> Bytes]
      /\ buff \in [Procs -> Bytes] /\ ret \in [Procs -> 0 .. DefaultLen]
      /\ messages \in [Procs -> Seq(Bytes)]
  BY <1>1 DEF SessionInit, NodeInit
<1>5. key \in [Participants -> {None} \cup Bytes] /\ comm \in [Participants -> {None} \cup Bytes]
  BY DEF SessionInit
<1> QED BY <1>3, <1>4, <1>5 DEF TypeOK, SessionTypeOK

LEMMA ElectsTyped == TypeOK /\ LeaderElects => TypeOK'
<1> SUFFICES ASSUME TypeOK, LeaderElects PROVE TypeOK'
  OBVIOUS
<1>1. pc' \in [Procs -> Places]
  BY PlacesAre DEF TypeOK, SessionTypeOK, LeaderElects
<1> QED BY <1>1 DEF TypeOK, SessionTypeOK, LeaderElects, nodeVars, net, local

LEMMA SendsKeyTyped == TypeOK /\ LeaderSendsKey => TypeOK'
<1> SUFFICES ASSUME TypeOK, LeaderSendsKey PROVE TypeOK'
  OBVIOUS
<1>1. /\ conn \in Participants /\ <<conn, Leader>> \in Links /\ <<Leader, conn>> \in Links
      /\ Leader \in Procs /\ Key \in Bytes /\ "recv_hello" \in Places
  BY LinksOf, KeyIs, PlacesAre DEF LeaderSendsKey, TypeOK, SessionTypeOK
<1>2. Send(Leader, conn, Key, "send_key", "recv_hello")
  BY DEF LeaderSendsKey
<1> QED BY <1>1, <1>2, SendEffect DEF TypeOK

\* The first characters of the message, no more than the key has.
Taken(p) ==
    SubSeq(FirstMessage(p), 1, IF Len(FirstMessage(p)) < Len(Key)
                               THEN Len(FirstMessage(p)) ELSE Len(Key))

LEMMA TakesKeyIs ==
    ASSUME TypeOK, NEW p \in Participants, ParticipantTakesKey(p)
    PROVE  /\ TypeOK' /\ pc[p] = "take_key"
           /\ \/ /\ key' = [key EXCEPT ![p] = Taken(p)] /\ GetMessage(p)
                 /\ pc' = [pc EXCEPT ![p] = "recv_comm"]
                 /\ UNCHANGED <<net, buff, ret, conn, nodes, comm>>
              \/ Ends(p, "killed")
<1>1. p \in Procs /\ "recv_comm" \in Places /\ "killed" \in Places
  BY LinksOf, PlacesAre
<1>2. CASE Ends(p, "killed")
  BY <1>1, <1>2, EndsEffect DEF TypeOK, ParticipantTakesKey
<1>3. CASE /\ key' = [key EXCEPT ![p] = Taken(p)] /\ GetMessage(p)
           /\ Goto(p, "recv_comm")
           /\ UNCHANGED <<net, buff, ret, conn, nodes, comm>>
  <2>1. messages' \in [Procs -> Seq(Bytes)] /\ FirstMessage(p) \in Bytes
    BY <1>1, <1>3, GetMessageType DEF TypeOK
  <2>2. Len(FirstMessage(p)) \in Nat /\ Len(Key) \in Nat
    BY <2>1, KeyIs DEF Bytes
  <2>3. Taken(p) \in Bytes
    BY <2>1, <2>2 DEF Taken, Bytes
  <2>4. TypeOK'
    BY <1>1, <1>3, <2>1, <2>3 DEF TypeOK, SessionTypeOK, Goto, net
  <2> QED BY <1>3, <2>4 DEF ParticipantTakesKey, Goto
<1> QED BY <1>2, <1>3 DEF ParticipantTakesKey, Taken

\* Every step keeps the types.
LEMMA StepTyped == TypeOK /\ [Next]_vars => TypeOK'
<1> SUFFICES ASSUME TypeOK, [Next]_vars PROVE TypeOK'
  OBVIOUS
<1>1. CASE LeaderStep
  BY <1>1, ElectsTyped, SendsKeyTyped, LeaderTyped DEF LeaderStep, TypeOK
<1>2. ASSUME NEW p \in Participants, ParticipantStep(p) PROVE TypeOK'
  BY <1>2, ParticipantTyped, TakesKeyIs DEF ParticipantStep, TypeOK
<1>3. ASSUME NEW x \in Procs, SystemCallFails(x) \/ Killed(x) PROVE TypeOK'
  BY <1>3, EndTyped DEF TypeOK
<1>4. CASE UNCHANGED vars
  BY <1>4 DEF TypeOK, SessionTypeOK, vars, nodeVars, net, local, progVars
<1> QED BY <1>1, <1>2, <1>3, <1>4 DEF Next, ProcStep, Over

\* Every variable has its type: what is sent, received and registered are bytes,
\* and every process is at a place of main.
THEOREM TypeCorrect == Spec => []TypeOK
  BY InitTyped, StepTyped, PTL DEF Spec

-----------------------------------------------------------------------------
(* The mutual wait. *)

LEMMA StepWaits ==
    ASSUME TypeOK, MutualWait, [Next]_vars
    PROVE  MutualWait' \/ "killed" \in {pc'[Leader], pc'[conn]}
<1>0. /\ conn \in Participants /\ Leader \in Procs /\ conn \in Procs
      /\ pc[Leader] = "recv_hello" /\ pc[conn] = "recv_comm" /\ pc \in [Procs -> Places]
  BY LinksOf DEF MutualWait, TypeOK, SessionTypeOK
<1>1. CASE LeaderStep
  BY <1>0, <1>1, OnlyKillEndsWait DEF LeaderStep, TypeOK, LeaderElects, LeaderSendsKey, Send
<1>2. ASSUME NEW p \in Participants, ParticipantStep(p)
      PROVE  MutualWait' \/ "killed" \in {pc'[Leader], pc'[conn]}
  <2>1. CASE ParticipantCommon(p)
    BY <2>1, OnlyKillEndsWait DEF TypeOK
  <2>2. CASE ParticipantTakesKey(p)
    <3>1. p # conn /\ p # Leader /\ p \in Procs
      BY <1>0, <2>2, LinksOf DEF ParticipantTakesKey
    <3>2. CASE Ends(p, "killed")
      BY <3>1, <3>2, OthersEndElsewhere, ElsewhereWaits, PlacesAre DEF TypeOK
    <3>3. CASE UNCHANGED <<net, conn>> /\ Goto(p, "recv_comm")
      <4>1. Elsewhere
        BY <1>0, <3>1, <3>3 DEF Elsewhere, net, Goto
      <4> QED BY <4>1, ElsewhereWaits
    <3> QED BY <2>2, <3>2, <3>3 DEF ParticipantTakesKey
  <2> QED BY <1>2, <2>1, <2>2 DEF ParticipantStep
<1>3. ASSUME NEW x \in Procs, SystemCallFails(x) \/ Killed(x)
      PROVE  MutualWait' \/ "killed" \in {pc'[Leader], pc'[conn]}
  BY <1>3, OnlyKillEndsWait DEF TypeOK
<1>4. CASE UNCHANGED vars
  BY <1>4 DEF MutualWait, vars, nodeVars, net, progVars
<1> QED BY <1>1, <1>2, <1>3, <1>4 DEF Next, ProcStep, Over

\* Once the leader waits for the answer of the participant it has served and that
\* one for the commitment, only killing one of the two ends it.
THEOREM OnlyKillEndsMutualWaitHolds == Spec => OnlyKillEndsMutualWait
<1>1. TypeOK /\ [Next]_vars =>
          [MutualWait => MutualWait' \/ "killed" \in {pc'[Leader], pc'[conn]}]_vars
  BY StepWaits
<1> QED BY <1>1, TypeCorrect, PTL DEF Spec, OnlyKillEndsMutualWait

-----------------------------------------------------------------------------
(* The invariant. *)

LEMMA ElectsKeeps == IInv /\ LeaderElects => IInv'
<1> SUFFICES ASSUME IInv, LeaderElects PROVE IInv'
  OBVIOUS
<1>1. /\ pc \in [Procs -> Places] /\ Leader \in Procs /\ pc[Leader] = "elect"
      /\ \A p \in Participants : p \in Procs /\ p # Leader
      /\ UNCHANGED <<wire, open, messages, ret, key, nodes, conn>>
  BY LinksOf DEF IInv, TypeOK, SessionTypeOK, LeaderElects, nodeVars, net, local
<1>2. pc'[Leader] \in {"socket", "exited", "killed"} /\ \A p \in Participants : pc'[p] = pc[p]
  BY <1>1 DEF LeaderElects
<1>3. NothingSent'
  BY <1>1, <1>2 DEF IInv, NothingSent, Unserved
<1>4. Addresses'
  BY <1>1, <1>2 DEF IInv, Addresses, AddressFirst, AddressIsRead, NobodyRegistered,
     RegisteredStartsRight, Unserved, RegMsg
<1>5. KeyKept'
  BY <1>1, <1>2 DEF IInv, KeyKept, KeyAt, FirstMessage
<1>6. TypeOK'
  BY ElectsTyped DEF IInv
<1> QED BY <1>3, <1>4, <1>5, <1>6 DEF IInv

\* A process that ends, or a step that leaves the participant q alone.
LEMMA KeyFrame ==
    ASSUME NEW q \in Participants, KeyAt(q),
           pc'[q] = pc[q] \/ pc'[q] \in Gone,
           messages'[q] = messages[q], ret'[q] = ret[q], key'[q] = key[q],
           wire'[<<Leader, q>>] \in {<<>>, wire[<<Leader, q>>]}
    PROVE  KeyAt(q)'
  BY DEF KeyAt, FirstMessage, Before, Gone

LEMMA EndKeepsKey ==
    ASSUME TypeOK, KeyKept, NEW x \in Procs, NEW how \in Gone, Ends(x, how)
    PROVE  KeyKept'
<1> SUFFICES ASSUME NEW q \in Participants PROVE KeyAt(q)'
  BY DEF KeyKept
<1>1. /\ how \in Places /\ pc \in [Procs -> Places] /\ q \in Procs /\ <<Leader, q>> \in Links
      /\ KeyAt(q)
  BY LinksOf DEF TypeOK, SessionTypeOK, Places, KeyKept
<1>2. /\ pc' = [pc EXCEPT ![x] = how] /\ UNCHANGED <<local, key>>
      /\ \A l \in Links : wire'[l] \in {<<>>, wire[l]}
  BY <1>1, EndsEffect DEF TypeOK
<1>3. pc'[q] = pc[q] \/ pc'[q] \in Gone
  BY <1>1, <1>2
<1> QED BY <1>1, <1>2, <1>3, KeyFrame DEF local

\* recv takes a whole key: nothing is left, and the message begins with it.
LEMMA ReceivesKey ==
    ASSUME TypeOK, KeyKept, NEW p \in Participants,
           Receive(p, Leader, "recv_key", "take_key")
    PROVE  KeyAt(p)'
<1>1. /\ p \in Procs /\ <<Leader, p>> \in Links /\ "take_key" \in Places
      /\ pc \in [Procs -> Places] /\ wire \in [Links -> Bytes]
      /\ ret \in [Procs -> 0 .. DefaultLen] /\ messages \in [Procs -> Seq(Bytes)]
      /\ SessionTypeOK
  BY LinksOf, PlacesAre DEF TypeOK, SessionTypeOK
<1>2. /\ pc[p] = "recv_key" /\ pc'[p] = "take_key"
      /\ messages[p] = <<>> /\ wire[<<Leader, p>>] \in {<<>>, Key}
  BY <1>1 DEF Receive, Goto, KeyKept, KeyAt, Before
<1>3. PICK n \in 0 .. Len(wire[<<Leader, p>>]), tail \in Bytes :
          LET data == SubSeq(wire[<<Leader, p>>], 1, n)
          IN  /\ ret' = [ret EXCEPT ![p] = n]
              /\ messages' = [messages EXCEPT ![p] = Append(@, Clean(data \o tail))]
              /\ wire' = [wire EXCEPT ![<<Leader, p>>] = SubSeq(@, n + 1, Len(@))]
  BY <1>1, ReceiveEffect
<1> SUFFICES ASSUME ret'[p] = Len(Key)
             PROVE  wire'[<<Leader, p>>] = <<>> /\ IsPrefix(Key, FirstMessage(p)')
  BY <1>2 DEF KeyAt, Before
<1>4. n = Len(Key) /\ Len(Key) \in Nat \ {0}
  BY <1>1, <1>3, KeyIs
<1>5. wire[<<Leader, p>>] = Key
  BY <1>2, <1>4, EmptySeq
<1>6. SubSeq(Key, 1, Len(Key)) = Key
  BY KeyIs DEF Bytes
<1>7. SubSeq(Key, Len(Key) + 1, Len(Key)) = <<>>
  BY <1>4, SubSeqEmpty
<1>8. Key \o tail \in Bytes
  BY KeyIs DEF Bytes
<1>9. Clean(Key \o tail) \in Bytes
  BY <1>8, CleanType
<1>10. messages'[p] = Append(<<>>, Clean(Key \o tail))
  BY <1>1, <1>2, <1>3, <1>4, <1>5, <1>6
<1>11. messages'[p] # <<>> /\ Head(messages'[p]) = Clean(Key \o tail)
  <2> HIDE DEF Clean
  <2> QED BY <1>9, <1>10
<1>12. FirstMessage(p)' = Clean(Key \o tail)
  BY <1>11 DEF FirstMessage
<1>13. wire'[<<Leader, p>>] = <<>>
  BY <1>1, <1>3, <1>4, <1>5, <1>7
<1> QED BY <1>12, <1>13, KeyIs, CleanKeepsPrefix

LEMMA ParticipantKeepsKey ==
    ASSUME TypeOK, KeyKept, NEW p \in Participants, ParticipantCommon(p)
    PROVE  KeyKept'
<1>0. /\ p \in Procs /\ <<Leader, p>> \in Links /\ <<p, Leader>> \in Links
      /\ <<Leader, p>> # <<p, Leader>>
      /\ pc \in [Procs -> Places] /\ wire \in [Links -> Bytes]
      /\ ret \in [Procs -> 0 .. DefaultLen] /\ messages \in [Procs -> Seq(Bytes)]
      /\ \A q \in Participants : /\ q \in Procs /\ <<Leader, q>> \in Links
                                 /\ <<Leader, q>> # <<p, Leader>>
  BY LinksOf DEF TypeOK, SessionTypeOK
<1>1. CASE \E how \in Gone : Ends(p, how)
  BY <1>0, <1>1, EndKeepsKey
<1>2. CASE ~\E how \in Gone : Ends(p, how)
  <2> DEFINE Own ==
        /\ UNCHANGED key /\ \E next : pc' = [pc EXCEPT ![p] = next]
        /\ \A q \in Participants \ {p} : /\ messages'[q] = messages[q] /\ ret'[q] = ret[q]
                                         /\ wire'[<<Leader, q>>] = wire[<<Leader, q>>]
  <2>1. Own
    <3>1. CASE \/ Socket(p, "connect") \/ ParticipantConnects(p)
               \/ ParticipantTakesCommitment(p)
      BY <1>0, <3>1 DEF Socket, ParticipantConnects, ParticipantTakesCommitment, Connect,
         GetMessage, Goto, net, local, nodeVars
    <3>2. ASSUME NEW here, NEW next, Receive(p, Leader, here, next)
          PROVE  Own
      BY <1>0, <3>2 DEF Receive, ReceiveMessage, Returns, Consume, Goto
    <3>3. ASSUME NEW msg, NEW here, NEW next, Send(p, Leader, msg, here, next)
          PROVE  Own
      BY <1>0, <1>2, <3>3 DEF Send, SendMessage, Goto, local, Gone
    <3> QED BY <1>2, <3>1, <3>2, <3>3 DEF ParticipantCommon, ParticipantFinishes, Gone
  <2>2. ASSUME NEW q \in Participants \ {p} PROVE KeyAt(q)'
    <3>1. pc'[q] = pc[q]
      BY <1>0, <2>1
    <3> QED BY <2>1, <3>1, KeyFrame DEF KeyKept
  <2>3. KeyAt(p)'
    <3>0. KeyAt(p)
      BY DEF KeyKept
    <3>1. CASE Socket(p, "connect") \/ ParticipantConnects(p)
      BY <1>0, <3>0, <3>1 DEF Socket, ParticipantConnects, Connect, Goto, KeyAt, Before,
         net, local, nodeVars
    <3>2. CASE pc[p] = "send_reg" /\ SendMessage(p, Leader, RegMsg(p))
               /\ Goto(p, "recv_key") /\ UNCHANGED local
      BY <1>0, <3>0, <3>2 DEF SendMessage, Goto, KeyAt, Before, local
    <3>3. CASE Receive(p, Leader, "recv_key", "take_key")
      BY <3>3, ReceivesKey
    <3>4. CASE pc'[p] \in {"take_comm", "send_hello", "close"}
      BY <3>4 DEF KeyAt, Before
    <3>5. Receive(p, Leader, "recv_comm", "take_comm") => pc'[p] = "take_comm"
      BY <1>0 DEF Receive, Goto
    <3>6. ParticipantTakesCommitment(p) => pc'[p] = "send_hello"
      BY <1>0 DEF ParticipantTakesCommitment, Goto
    <3>7. Send(p, Leader, <<"hello">>, "send_hello", "close") => pc'[p] = "close"
      BY <1>0, <1>2 DEF Send, Goto, Gone
    <3>8. Send(p, Leader, RegMsg(p), "send_reg", "recv_key") =>
              /\ pc[p] = "send_reg" /\ SendMessage(p, Leader, RegMsg(p))
              /\ Goto(p, "recv_key") /\ UNCHANGED local
      BY <1>2 DEF Send, Gone
    <3>9. ~ParticipantFinishes(p)
      BY <1>2 DEF ParticipantFinishes, Gone
    <3> QED BY <3>1, <3>2, <3>3, <3>4, <3>5, <3>6, <3>7, <3>8, <3>9 DEF ParticipantCommon
  <2> QED BY <2>2, <2>3 DEF KeyKept
<1> QED BY <1>1, <1>2

LEMMA LeaderKeepsKey ==
    ASSUME TypeOK, KeyKept, LeaderCommon
    PROVE  KeyKept'
<1>0. /\ Leader \in Procs /\ pc \in [Procs -> Places] /\ wire \in [Links -> Bytes]
      /\ ret \in [Procs -> 0 .. DefaultLen] /\ messages \in [Procs -> Seq(Bytes)]
      /\ \A q \in Participants : q \in Procs /\ q # Leader /\ <<Leader, q>> \in Links
      /\ conn # None => conn \in Participants
      /\ \A q \in Participants : conn # None => <<Leader, q>> # <<conn, Leader>>
  BY LinksOf DEF TypeOK, SessionTypeOK
<1>1. CASE \E how \in Gone : Ends(Leader, how)
  BY <1>0, <1>1, EndKeepsKey
<1>2. CASE ~\E how \in Gone : Ends(Leader, how)
  <2> DEFINE Own ==
        /\ UNCHANGED key /\ \E next : pc' = [pc EXCEPT ![Leader] = next]
        /\ \A q \in Participants :
               /\ messages'[q] = messages[q] /\ ret'[q] = ret[q]
               /\ wire'[<<Leader, q>>] \in {<<>>, wire[<<Leader, q>>]}
  <2>1. ASSUME \/ Socket(Leader, "listen") \/ LeaderListens \/ LeaderAccepts
               \/ LeaderTakesAnswer
        PROVE  Own
    BY <1>0, <2>1 DEF Socket, LeaderListens, Listen, LeaderAccepts, Accept,
       LeaderTakesAnswer, GetMessage, Goto, nodeVars, net, local
  <2>2. ASSUME NEW here, NEW next, conn # None, Receive(Leader, conn, here, next)
        PROVE  Own
    BY <1>0, <2>2 DEF Receive, ReceiveMessage, Returns, Consume, Goto
  <2>3. ASSUME LeaderRegisters("send_key") PROVE Own
    BY <1>0, <1>2, <2>3 DEF LeaderRegisters, GetMessage, Goto, net, Gone
  <2>4. ASSUME LeaderCloses PROVE Own
    <3>1. \A l \in Links : wire'[l] \in {<<>>, wire[l]}
      BY <2>4, CloseEffect DEF LeaderCloses, TypeOK
    <3> QED BY <1>0, <2>4, <3>1 DEF LeaderCloses, Goto, local
  <2>5. ~LeaderFinishes
    BY <1>2 DEF LeaderFinishes, Gone
  <2>6. Own
    BY <2>1, <2>2, <2>3, <2>4, <2>5 DEF LeaderCommon
  <2>7. ASSUME NEW q \in Participants PROVE KeyAt(q)'
    <3>1. pc'[q] = pc[q]
      BY <1>0, <2>6
    <3> QED BY <2>6, <3>1, KeyFrame DEF KeyKept
  <2> QED BY <2>7 DEF KeyKept
<1> QED BY <1>1, <1>2

\* The only message of the leader, to a participant that has read nothing yet.
LEMMA SendsKeyKeeps == IInv /\ LeaderSendsKey => IInv'
<1> SUFFICES ASSUME IInv, LeaderSendsKey PROVE IInv'
  OBVIOUS
<1>0. /\ conn \in Participants /\ <<conn, Leader>> \in Links /\ <<Leader, conn>> \in Links
      /\ Leader \in Procs /\ pc \in [Procs -> Places] /\ wire \in [Links -> Bytes]
      /\ pc[Leader] = "send_key" /\ SessionTypeOK
      /\ \A q \in Participants : q \in Procs /\ q # Leader /\ <<Leader, q>> \in Links
  BY LinksOf DEF IInv, TypeOK, SessionTypeOK, LeaderSendsKey, Send
<1>1. TypeOK'
  BY SendsKeyTyped DEF IInv
<1>2. CASE Ends(Leader, "killed")
  <2>1. "killed" \in Gone
    BY DEF Gone
  <2> QED BY <1>0, <1>1, <1>2, <2>1, EndKeepsNothingSent, EndKeepsAddresses, EndKeepsKey
      DEF IInv, TypeOK
<1>3. CASE /\ SendMessage(Leader, conn, Key) /\ Goto(Leader, "recv_hello")
           /\ UNCHANGED <<local, conn, nodes, key, comm>>
  <2>1. /\ pc'[Leader] = "recv_hello" /\ \A q \in Participants : pc'[q] = pc[q]
        /\ UNCHANGED <<messages, ret, key, nodes, conn>>
    BY <1>0, <1>3 DEF Goto, local
  <2>2. \A q \in Participants : wire[<<Leader, q>>] = <<>> /\ pc[q] \in Before \cup Gone
    BY <1>0 DEF IInv, NothingSent, Unserved
  <2>3. <<>> \o Key = Key
    BY KeyAssumption, ConcatEmptySeq
  <2>4. \A q \in Participants : wire'[<<Leader, q>>] \in {<<>>, Key}
    BY <1>0, <1>3, <2>2, <2>3 DEF SendMessage
  <2>5. \A q \in Participants : wire'[<<q, Leader>>] = wire[<<q, Leader>>]
    BY <1>0, <1>3, LinksOf DEF SendMessage
  <2>6. NothingSent'
    BY <2>1 DEF NothingSent, Unserved
  <2>7. Addresses'
    BY <2>1, <2>5 DEF IInv, Addresses, AddressFirst, AddressIsRead, NobodyRegistered,
       RegisteredStartsRight, Unserved
  <2>8. ASSUME NEW q \in Participants PROVE KeyAt(q)'
    BY <2>1, <2>2, <2>4 DEF IInv, KeyKept, KeyAt, Before, Gone
  <2> QED BY <1>1, <2>6, <2>7, <2>8 DEF IInv, KeyKept
<1> QED BY <1>2, <1>3 DEF LeaderSendsKey, Send

LEMMA TakesKeyKeeps ==
    ASSUME IInv, NEW p \in Participants, ParticipantTakesKey(p)
    PROVE  IInv'
<1>0. /\ p \in Procs /\ p # Leader /\ Leader \in Procs /\ pc \in [Procs -> Places]
      /\ messages \in [Procs -> Seq(Bytes)] /\ key \in [Participants -> {None} \cup Bytes]
      /\ \A q \in Participants : q \in Procs
      /\ "killed" \in Gone /\ SessionTypeOK
  BY LinksOf DEF IInv, TypeOK, SessionTypeOK, Gone
<1>1. TypeOK' /\ pc[p] = "take_key"
  BY TakesKeyIs DEF IInv
<1>2. CASE Ends(p, "killed")
  BY <1>0, <1>1, <1>2, EndKeepsNothingSent, EndKeepsAddresses, EndKeepsKey DEF IInv, TypeOK
<1>3. CASE /\ key' = [key EXCEPT ![p] = Taken(p)] /\ GetMessage(p)
           /\ pc' = [pc EXCEPT ![p] = "recv_comm"]
           /\ UNCHANGED <<net, buff, ret, conn, nodes, comm>>
  <2>1. /\ pc'[p] = "recv_comm" /\ pc'[Leader] = pc[Leader] /\ key'[p] = Taken(p)
        /\ messages'[Leader] = messages[Leader] /\ UNCHANGED <<wire, open, ret, nodes, conn>>
        /\ \A q \in Participants \ {p} : /\ pc'[q] = pc[q] /\ messages'[q] = messages[q]
                                         /\ key'[q] = key[q]
    BY <1>0, <1>3 DEF GetMessage, net
  <2>2. ~Unserved
    BY <1>1 DEF IInv, NothingSent, Before, Gone
  <2>3. NothingSent'
    BY <2>1, <2>2 DEF NothingSent, Unserved
  <2>4. Addresses'
    <3>1. \A q \in Participants :
              pc'[q] \in {"socket", "connect", "send_reg"} => wire'[<<q, Leader>>] = <<>>
      BY <2>1 DEF IInv, Addresses, AddressFirst
    <3>2. LeaderSame
      BY <2>1 DEF LeaderSame
    <3> QED BY <2>2, <3>1, <3>2, LeaderSameAddresses DEF IInv, Unserved
  <2>5. ASSUME NEW q \in Participants \ {p} PROVE KeyAt(q)'
    BY <2>1, KeyFrame DEF IInv, KeyKept
  <2>6. ASSUME ret[p] = Len(Key) PROVE Taken(p) = Key
    <3>1. IsPrefix(Key, FirstMessage(p))
      BY <1>1, <2>6 DEF IInv, KeyKept, KeyAt
    <3>2. FirstMessage(p) \in Bytes
      BY <1>0, <1>3, GetMessageType
    <3>3. /\ Len(FirstMessage(p)) \in Nat /\ Len(Key) \in Nat
          /\ Len(Key) <= Len(FirstMessage(p))
          /\ SubSeq(Key, 1, Len(Key)) = SubSeq(FirstMessage(p), 1, Len(Key))
      BY <3>1, <3>2, KeyIs DEF IsPrefix, Bytes
    <3>4. SubSeq(Key, 1, Len(Key)) = Key
      BY KeyIs
    <3> QED BY <3>3, <3>4 DEF Taken
  <2>7. KeyAt(p)'
    BY <1>1, <2>1, <2>6 DEF IInv, KeyKept, KeyAt, Before
  <2> QED BY <1>1, <2>3, <2>4, <2>5, <2>7 DEF IInv, KeyKept
<1> QED BY <1>2, <1>3, TakesKeyIs DEF IInv

LEMMA InitIInv == SessionInit => IInv
<1> SUFFICES ASSUME SessionInit PROVE IInv
  OBVIOUS
<1>1. /\ Leader \in Procs /\ pc[Leader] = "elect" /\ nodes = <<>> /\ messages[Leader] = <<>>
      /\ \A q \in Participants : /\ pc[q] = "socket" /\ messages[q] = <<>>
                                 /\ wire[<<q, Leader>>] = <<>> /\ wire[<<Leader, q>>] = <<>>
  BY LinksOf DEF SessionInit, NodeInit
<1>2. NothingSent
  BY <1>1 DEF NothingSent, Before
<1>3. Addresses
  BY <1>1 DEF Addresses, AddressFirst, AddressIsRead, NobodyRegistered, RegisteredStartsRight
<1>4. KeyKept
  BY <1>1 DEF KeyKept, KeyAt
<1> QED BY <1>2, <1>3, <1>4, InitTyped DEF IInv

LEMMA StepIInv == IInv /\ [Next]_vars => IInv'
<1> SUFFICES ASSUME IInv, [Next]_vars PROVE IInv'
  OBVIOUS
<1>0. TypeOK /\ SessionTypeOK /\ TypeOK'
  BY StepTyped DEF IInv, TypeOK
<1>1. CASE LeaderElects \/ LeaderSendsKey
  BY <1>1, ElectsKeeps, SendsKeyKeeps
<1>2. CASE LeaderCommon
  BY <1>0, <1>2, LeaderKeepsNothingSent, LeaderKeepsAddresses, LeaderKeepsKey DEF IInv
<1>3. ASSUME NEW p \in Participants, ParticipantStep(p) PROVE IInv'
  <2>1. CASE ParticipantCommon(p)
    BY <1>0, <2>1, ParticipantKeepsNothingSent, ParticipantKeepsAddresses, ParticipantKeepsKey
    DEF IInv
  <2>2. CASE ParticipantTakesKey(p)
    BY <2>2, TakesKeyKeeps
  <2> QED BY <1>3, <2>1, <2>2 DEF ParticipantStep
<1>4. ASSUME NEW x \in Procs, SystemCallFails(x) \/ Killed(x) PROVE IInv'
  <2>1. PICK how \in Gone : Ends(x, how)
    BY <1>4 DEF SystemCallFails, Killed, Gone
  <2> QED BY <1>0, <2>1, EndKeepsNothingSent, EndKeepsAddresses, EndKeepsKey DEF IInv
<1>5. CASE UNCHANGED vars
  BY <1>5 DEF IInv, TypeOK, SessionTypeOK, NothingSent, Unserved, Addresses, AddressFirst,
     AddressIsRead, NobodyRegistered, RegisteredStartsRight, RegMsg, KeyKept, KeyAt,
     FirstMessage, vars, nodeVars, net, local, progVars
<1> QED BY <1>1, <1>2, <1>3, <1>4, <1>5 DEF Next, ProcStep, LeaderStep, Over

THEOREM Inductive == Spec => []IInv
  BY InitIInv, StepIInv, PTL DEF Spec

-----------------------------------------------------------------------------
(* What becomes of the key. *)

\* Whatever the buffer held, a participant that got the whole key decodes it
\* exactly, and the port the leader registers of an address it got whole begins
\* with the one sent: stale bytes may lengthen it and replace none of it.
THEOREM StaleBytesOnlyFollowHolds == Spec => []StaleBytesOnlyFollow
<1>1. IInv => StaleBytesOnlyFollow
  <2> SUFFICES ASSUME IInv, NEW p \in Participants, ret[p] = Len(Key), pc[p] = "take_key"
               PROVE  SubSeq(FirstMessage(p), 1, Len(Key)) = Key
    BY DEF IInv, Addresses, KeyKept, KeyAt, StaleBytesOnlyFollow, WholeKeyIsExact
  <2>1. SubSeq(Key, 1, Len(Key)) = SubSeq(FirstMessage(p), 1, Len(Key))
    BY DEF IInv, KeyKept, KeyAt, IsPrefix
  <2>2. SubSeq(Key, 1, Len(Key)) = Key
    BY KeyIs
  <2> QED BY <2>1, <2>2
<1> QED BY <1>1, Inductive, PTL

\* A participant whose key came whole leaves the wait for the commitment only
\* when the leader has closed the connection.
THEOREM HelloOnlyByMistakeHolds == Spec => HelloOnlyByMistake
<1> DEFINE Leaves(p) == pc[p] = "recv_comm" /\ pc'[p] = "take_comm"
           Mistake == \A p \in Participants :
                          Leaves(p) => ret[p] # Len(Key) \/ ~open[<<Leader, p>>]
<1>1. IInv /\ [Next]_vars => [Mistake]_vars
  <2> SUFFICES ASSUME IInv, Next, NEW p \in Participants, Leaves(p), ret[p] = Len(Key)
               PROVE  ~open[<<Leader, p>>]
    OBVIOUS
  <2>1. /\ p \in Procs /\ p # Leader /\ pc \in [Procs -> Places] /\ Leader \in Procs
        /\ \A q \in Participants : q \in Procs
        /\ SessionTypeOK /\ wire[<<Leader, p>>] = <<>>
    BY LinksOf DEF IInv, TypeOK, SessionTypeOK, KeyKept, KeyAt
  <2>2. ASSUME NEW x \in Procs, NEW how \in Gone, Ends(x, how) PROVE FALSE
    BY <2>1, <2>2 DEF Ends, Goto, Gone
  <2>3. ~LeaderStep
    <3>1. \A next : Goto(Leader, next) => pc'[p] = pc[p]
      BY <2>1 DEF Goto
    <3>2. ~LeaderElects
      BY <2>1 DEF LeaderElects
    <3>3. ~LeaderCommon /\ ~LeaderSendsKey
      BY <2>1, <2>2, <3>1 DEF LeaderCommon, Socket, LeaderListens, LeaderAccepts, Receive,
         LeaderRegisters, LeaderTakesAnswer, LeaderCloses, LeaderFinishes, LeaderSendsKey,
         Send, Gone
    <3> QED BY <3>2, <3>3 DEF LeaderStep
  <2>4. ASSUME NEW q \in Participants, ParticipantStep(q) PROVE ~open[<<Leader, p>>]
    <3>1. q = p
      <4>1. \A next : Goto(q, next) => pc'[q] = next /\ (q # p => pc'[p] = pc[p])
        BY <2>1 DEF Goto
      <4> QED BY <2>1, <2>2, <2>4, <4>1 DEF ParticipantStep, ParticipantCommon, Socket,
          ParticipantConnects, Send, Receive, ParticipantTakesCommitment,
          ParticipantFinishes, ParticipantTakesKey, Gone
    <3>2. Receive(p, Leader, "recv_comm", "take_comm")
      BY <2>1, <2>4, <3>1 DEF ParticipantStep, ParticipantCommon, Socket,
         ParticipantConnects, Send, Receive, ParticipantTakesCommitment,
         ParticipantFinishes, ParticipantTakesKey
    <3> QED BY <2>1, <3>2 DEF Receive, ReceiveMessage, Readable
  <2>5. ~\E x \in Procs : SystemCallFails(x) \/ Killed(x)
    BY <2>2 DEF SystemCallFails, Killed, Gone
  <2>6. ~Over
    <3>1. pc # pc'
      OBVIOUS
    <3> QED BY <3>1 DEF Over, vars, progVars
  <2> QED BY <2>3, <2>4, <2>5, <2>6 DEF Next, ProcStep
<1>2. HelloOnlyByMistake <=> [][Mistake]_vars
  BY DEF HelloOnlyByMistake
<1> QED BY <1>1, Inductive, PTL DEF Spec, HelloOnlyByMistake

=============================================================================
