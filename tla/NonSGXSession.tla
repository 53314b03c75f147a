--------------------------- MODULE NonSGXSession ---------------------------
(***************************************************************************)
(* The session of non_sgx/ssle_node.cpp.  The leader sends the punctured   *)
(* value and the commitment with two calls of send; the participant takes  *)
(* them with two calls of recv.  The generator, the puncturing and its     *)
(* inverse come from a library (pprf.h) and are used as values here.       *)
(***************************************************************************)
EXTENDS Session

CONSTANTS
    Punct,      \* pprf.puncturing(rval): a number of whole blocks
    Comm,       \* commit(rval, 1), which is rval itself
    Block       \* bits of a punctured block: 18 in the program

ASSUME PunctAssumption ==
    /\ Block \in Nat \ {0}
    /\ Punct \in Seq(Digits) /\ Punct # <<>> /\ Len(Punct) % Block = 0
    /\ Comm \in Seq(Digits) /\ Comm # <<>>

\* prf and puncturing, and the registration of the leader itself.
LeaderElects ==
    /\ pc[Leader] = "elect"
    /\ Goto(Leader, "socket")
    /\ UNCHANGED <<nodeVars, conn, nodes, key, comm>>

LeaderSendsPunct ==
    conn # None /\ Send(Leader, conn, Punct, "send_key", "send_comm")

\* Variant of LeaderSendsCommitment with the send commented out.
LeaderKeepsCommitment ==
    /\ pc[Leader] = "send_comm"
    /\ Goto(Leader, "recv_hello")
    /\ UNCHANGED <<nodeVars, conn, nodes, key, comm>>

LeaderSendsCommitment ==
    conn # None /\ Send(Leader, conn, Comm, "send_comm", "recv_hello")

\* "correction of the received punctured key": what is left over after the last
\* whole block is erased.
Corrected(received) ==
    SubSeq(received, 1, Len(received) - (Len(received) % Block))

\* depuncturing looks at the last block, whether there is one or not.
ParticipantTakesPunct(p) ==
    LET corrected == Corrected(FirstMessage(p))
    IN  /\ pc[p] = "take_key"
        /\ \/ /\ GetMessage(p)
              /\ key' = [key EXCEPT ![p] = corrected]
              /\ Goto(p, "recv_comm")
              /\ UNCHANGED <<net, buff, ret, conn, nodes, comm>>
           \/ corrected = <<>> /\ Ends(p, "killed")

LeaderStep ==
    LeaderElects \/ LeaderCommon \/ LeaderSendsPunct \/ LeaderSendsCommitment

ParticipantStep(p) == ParticipantCommon(p) \/ ParticipantTakesPunct(p)

ProcStep(x) ==
    \/ x = Leader /\ LeaderStep
    \/ x \in Participants /\ ParticipantStep(x)

Over == AllGone /\ UNCHANGED vars

Next ==
    \/ \E x \in Procs : ProcStep(x) \/ SystemCallFails(x) \/ Killed(x)
    \/ Over

Spec == SessionInit /\ [][Next]_vars

\* The scheduler runs a process that is not blocked in accept or recv.
FairSpec == Spec /\ \A x \in Procs : WF_vars(ProcStep(x))

-----------------------------------------------------------------------------
\* However the stream was cut: if the first recv took the whole punctured value,
\* and perhaps the beginning of the commitment with it, then what the second one
\* takes, if it takes anything, goes on in the commitment where the first left
\* off; and if the correction has given back the punctured value, what came with
\* it and is lost is less than a block.
CommitmentFollowsKey ==
    [][\A p \in Participants :
           /\ pc[p] = "recv_comm" /\ pc'[p] = "take_comm"
           /\ ret[p] >= Len(Punct)
           => LET early == ret[p] - Len(Punct)
              IN  /\ key[p] = Punct => early < Block
                  /\ IsPrefix(SubSeq(FirstMessage(p)', 1, ret'[p]),
                              SubSeq(Comm, early + 1, Len(Comm)))]_vars

\* A participant that has corrected its key to the punctured value goes on to
\* the end, unless the leader is gone first: the commitment is still to come.
SeparateMessagesComplete ==
    \A p \in Participants :
        key[p] = Punct ~> pc[p] \in Gone \/ pc[Leader] \in Gone

=============================================================================
