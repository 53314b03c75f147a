----------------------------- MODULE SGXSession -----------------------------
(***************************************************************************)
(* The session of sgx/App/App.cpp: one leader process and its participants *)
(* on one host.  The enclave phase of the leader is Election; here it is   *)
(* one step that gives it the key or ends it.  The send of the commitment  *)
(* is commented out in the source, and the participant waits for it.       *)
(***************************************************************************)
EXTENDS Session

CONSTANT Key        \* uint64ToBinString(*prfkey)

Bits == {"0", "1"}

ASSUME KeyAssumption == Key \in Seq(Bits) /\ Key # <<>>

\* The enclave phase of main: it reaches the sockets, returns -1 or aborts.
LeaderElects ==
    /\ pc[Leader] = "elect"
    /\ pc' \in {[pc EXCEPT ![Leader] = e] : e \in {"socket", "exited", "killed"}}
    /\ UNCHANGED <<nodeVars, conn, nodes, key, comm>>

LeaderSendsKey ==
    conn # None /\ Send(Leader, conn, Key, "send_key", "recv_hello")

\* Variant of ParticipantTakesKey that keeps the text of the message.
ParticipantKeepsText(p) ==
    /\ pc[p] = "take_key"
    /\ GetMessage(p)
    /\ key' = [key EXCEPT ![p] = FirstMessage(p)]
    /\ Goto(p, "recv_comm")
    /\ UNCHANGED <<net, buff, ret, conn, nodes, comm>>

\* stringToUint64: bitset<64> reads at most 64 characters, takes fewer for a
\* shorter number, and throws at one that is neither '0' nor '1'.
ParticipantTakesKey(p) ==
    LET head == SubSeq(FirstMessage(p), 1, IF Len(FirstMessage(p)) < Len(Key)
                                    THEN Len(FirstMessage(p)) ELSE Len(Key))
    IN  /\ pc[p] = "take_key"
        /\ \/ /\ head \in Seq(Bits)
              /\ GetMessage(p)
              /\ key' = [key EXCEPT ![p] = head]
              /\ Goto(p, "recv_comm")
              /\ UNCHANGED <<net, buff, ret, conn, nodes, comm>>
           \/ head \notin Seq(Bits) /\ Ends(p, "killed")

LeaderStep ==
    LeaderElects \/ LeaderCommon \/ LeaderSendsKey

ParticipantStep(p) == ParticipantCommon(p) \/ ParticipantTakesKey(p)

ProcStep(x) ==
    \/ x = Leader /\ LeaderStep
    \/ x \in Participants /\ ParticipantStep(x)

Over == AllGone /\ UNCHANGED vars

Next ==
    \/ \E x \in Procs : ProcStep(x) \/ SystemCallFails(x) \/ Killed(x)
    \/ Over

Spec == SessionInit /\ [][Next]_vars

\* The scheduler runs a process that is not blocked in accept or recv.
FairSpec == Spec /\ \A x \in Procs : WF_vars(ProcStep(x))

-----------------------------------------------------------------------------
TypeOK == SessionTypeOK

\* A whole key is decoded exactly, whatever the buffer held before it:
\* stringToUint64 never reads what receive_message leaves behind the received
\* bytes.
WholeKeyIsExact ==
    \A p \in Participants :
        ret[p] = Len(Key) =>
            /\ pc[p] = "recv_comm" => key[p] = Key
            /\ pc[p] = "take_key" => SubSeq(FirstMessage(p), 1, Len(Key)) = Key

\* A participant gets past the wait for the commitment only by mistake: the key
\* reached it in pieces and the rest passes for the commitment, or the leader
\* has given the connection up and leftover bytes do.
HelloOnlyByMistake ==
    [][\A p \in Participants :
           pc[p] = "recv_comm" /\ pc'[p] = "take_comm" =>
               ret[p] # Len(Key) \/ ~open[<<Leader, p>>]]_vars

\* What the receive buffer held before can only follow a message that arrives
\* whole, at either end of the connection: the key is decoded exactly, as only its
\* bits are read, while the port that is registered begins with the one sent and
\* may go on with stale digits, which make it another port.
StaleBytesOnlyFollow == WholeKeyIsExact /\ RegisteredStartsRight

=============================================================================
