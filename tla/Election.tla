------------------------------ MODULE Election ------------------------------
(***************************************************************************)
(* The leader's enclave phase: main in App.cpp from initialize_enclave to  *)
(* sgx_destroy_enclave, the three ecalls it makes, and the election of     *)
(* SSLE_Obfuscation inside ecall_election.  Every call that can fail may   *)
(* fail; which status the application looks at is the source's choice.     *)
(***************************************************************************)
EXTENDS Integers, FiniteSets

CONSTANTS
    WordSize,       \* uint64_t is 0 .. WordSize - 1
    IntSize,        \* int is -IntSize/2 .. IntSize/2 - 1
    NumNodes,       \* num in main
    Secret, Hash,   \* the defaults of SSLE_Obfuscation; lcg starts at 0
    Win, Lose,      \* what the enclave commits to
    Xor(_, _),
    Generator(_, _, _)  \* PPRF::prf: the state it leaves and the value it returns

Word == 0 .. WordSize - 1

ASSUME SizeAssumption ==
    /\ WordSize \in Nat \ {0}
    /\ IntSize \in Nat \ {0} /\ IntSize % 2 = 0
    /\ NumNodes \in Nat \ {0}

ASSUME ValueAssumption ==
    /\ {Secret, Hash, Win, Lose} \subseteq Word
    /\ Win # Lose

\* Exclusive or with the same value is its own inverse.
ASSUME XorAssumption ==
    \A a, b \in Word : Xor(a, b) \in Word /\ Xor(Xor(a, b), b) = a

ASSUME PrfAssumption ==
    \A s, l, h \in Word :
        Generator(s, l, h) \in [seed : Word, lcg : Word, hash : Word, out : Word]

VARIABLES
    pc,             \* where main is
    enclave,        \* "none", "up" or "crashed"
    prfkey,         \* *prfkey of main: malloc memory until the key arrives
    output,         \* *output of main: likewise
    res,            \* res of main, the opened commitment
    secret, lcg, hash, prfValue, leader_id, comm_values, \* the ssleobf of
    i                                                   \* ecall_election

app  == <<prfkey, output, res>>
obj  == <<secret, lcg, hash, prfValue, leader_id, comm_values>>
vars == <<pc, enclave, app, obj, i>>

Nodes == 0 .. NumNodes - 1

-----------------------------------------------------------------------------
(* C arithmetic. *)

\* (int)w: the low bits of the word read as a two's complement number.
IntOf(w) ==
    LET low == w % IntSize
    IN  IF low < IntSize \div 2 THEN low ELSE low - IntSize

\* a % b of C, which has the sign of a.
CRem(a, b) == IF a >= 0 THEN a % b ELSE -((-a) % b)

Commit(data, key) == Xor(data, key)

-----------------------------------------------------------------------------
Ended == {"serve", "failed", "aborted"}

TypeOK ==
    /\ pc \in {"launch", "get_key", "key_pair", "election", "elect", "commit",
               "decommit", "destroy"} \cup Ended
    /\ enclave \in {"none", "up", "crashed"}
    /\ {prfkey, output, res, secret, lcg, hash, prfValue} \subseteq Word
    /\ leader_id \in Int
    /\ comm_values \in [Nodes -> Word]
    /\ i \in 0 .. NumNodes

\* malloc does not clear prfkey and output.
Init ==
    /\ pc = "launch"
    /\ enclave = "none"
    /\ prfkey \in Word
    /\ output \in Word
    /\ res = 0
    /\ secret = Secret /\ lcg = 0 /\ hash = Hash
    /\ prfValue = 0 /\ leader_id = 0
    /\ comm_values = [n \in Nodes |-> 0]
    /\ i = 0

Launch ==
    /\ pc = "launch"
    /\ \/ enclave' = "up" /\ pc' = "get_key"
       \/ enclave' = "none" /\ pc' = "failed"   \* sgx_create_enclave fails
    /\ UNCHANGED <<app, obj, i>>

\* A fresh SSLE_Obfuscation, so the prf runs from the default state.  The bridge
\* copies 256 bytes (Enclave.edl), zeros but for the first 8, to a block of 8:
\* the block after it may be cleared, and the allocator may abort.
GetKey ==
    /\ pc = "get_key"
    /\ prfkey' = Generator(Secret, 0, Hash).out
    /\ output' \in {output, 0}
    /\ pc' \in {"key_pair", "aborted"}
    /\ UNCHANGED <<enclave, res, obj, i>>

\* The status of ecall_get_key is not looked at.
GetKeyFails ==
    /\ pc = "get_key"
    /\ pc' = "key_pair"
    /\ UNCHANGED <<enclave, app, obj, i>>

\* A failure of the RSA functions is only printed; the copies that follow read
\* through a NULL handle and take the enclave down.  Errors are printed too, and
\* public_key has the 256 bytes that the bridge copies.
KeyPair ==
    /\ pc = "key_pair"
    /\ enclave' \in {"up", "crashed"}
    /\ pc' = "election"
    /\ UNCHANGED <<app, obj, i>>

\* The bridge fails, the enclave is lost, or create_rsa_pair crashes it.
ElectionFails ==
    /\ pc = "election"
    /\ pc' = "failed"
    /\ enclave' \in {enclave, "crashed"}
    /\ UNCHANGED <<app, obj, i>>

\* ecall_election up to ssleobf.initialize.
Initialize ==
    /\ pc = "election" /\ enclave = "up"
    /\ pc' = "elect"
    /\ secret' = prfkey /\ lcg' = 0 /\ hash' = Hash
    /\ comm_values' = [n \in Nodes |-> 0]
    /\ UNCHANGED <<enclave, app, prfValue, leader_id, i>>

\* Variant of ElectLeader without the cast to int.
ElectLeaderUncast ==
    /\ pc = "elect"
    /\ LET r == Generator(prfkey, lcg, hash)
       IN  /\ secret' = r.seed /\ lcg' = r.lcg /\ hash' = r.hash
           /\ prfValue' = r.out
           /\ leader_id' = r.out % NumNodes
    /\ i' = 0
    /\ pc' = "commit"
    /\ UNCHANGED <<enclave, app, comm_values>>

\* Variant of ElectLeader that runs on the default secret.
ElectLeaderDefaultKey ==
    /\ pc = "elect"
    /\ LET r == Generator(Secret, lcg, hash)
       IN  /\ secret' = r.seed /\ lcg' = r.lcg /\ hash' = r.hash
           /\ prfValue' = r.out
           /\ leader_id' = CRem(IntOf(r.out), NumNodes)
    /\ i' = 0
    /\ pc' = "commit"
    /\ UNCHANGED <<enclave, app, comm_values>>

\* electLeader up to its loop.
ElectLeader ==
    /\ pc = "elect"
    /\ LET r == Generator(prfkey, lcg, hash)
       IN  /\ secret' = r.seed /\ lcg' = r.lcg /\ hash' = r.hash
           /\ prfValue' = r.out
           /\ leader_id' = CRem(IntOf(r.out), NumNodes)
    /\ i' = 0
    /\ pc' = "commit"
    /\ UNCHANGED <<enclave, app, comm_values>>

\* Variant of CommitNode that lets every node from the leader on win.
CommitNodeFromLeader ==
    /\ pc = "commit" /\ i < NumNodes
    /\ comm_values' =
           [comm_values EXCEPT
              ![i] = Commit(IF i >= leader_id THEN Win ELSE Lose, prfValue)]
    /\ i' = i + 1
    /\ UNCHANGED <<pc, enclave, app, secret, lcg, hash, prfValue, leader_id>>

\* Variant of CommitNode whose loop does not advance.
CommitNodeStuck ==
    /\ pc = "commit" /\ i < NumNodes
    /\ comm_values' =
           [comm_values EXCEPT
              ![i] = Commit(IF i = leader_id THEN Win ELSE Lose, prfValue)]
    /\ UNCHANGED <<pc, enclave, app, secret, lcg, hash, prfValue, leader_id, i>>

\* Variant of CommitNode that goes one node too far.
CommitNodePastEnd ==
    /\ pc = "commit" /\ i <= NumNodes
    /\ comm_values' =
           [n \in Nodes \cup {i} |->
              IF n # i THEN comm_values[n]
              ELSE Commit(IF i = leader_id THEN Win ELSE Lose, prfValue)]
    /\ i' = i + 1
    /\ UNCHANGED <<pc, enclave, app, secret, lcg, hash, prfValue, leader_id>>

\* One turn of the loop.
CommitNode ==
    /\ pc = "commit" /\ i < NumNodes
    /\ comm_values' =
           [comm_values EXCEPT
              ![i] = Commit(IF i = leader_id THEN Win ELSE Lose, prfValue)]
    /\ i' = i + 1
    /\ UNCHANGED <<pc, enclave, app, secret, lcg, hash, prfValue, leader_id>>

\* The loop is over: ecall_election returns the commitment of node 0.
ReturnCommitment ==
    /\ pc = "commit" /\ i = NumNodes
    /\ output' = comm_values[0]
    /\ pc' = "decommit"
    /\ UNCHANGED <<enclave, prfkey, res, obj, i>>

Decommit ==
    /\ pc = "decommit"
    /\ res' = Commit(output, prfkey)
    /\ pc' = "destroy"
    /\ UNCHANGED <<enclave, prfkey, output, obj, i>>

DestroyEnclave ==
    /\ pc = "destroy"
    /\ enclave' = "none"
    /\ pc' = "serve"
    /\ UNCHANGED <<app, obj, i>>

\* The phase is over: main has returned, aborted or goes on to serve.
Over == pc \in Ended /\ UNCHANGED vars

Step ==
    \/ Launch \/ GetKey \/ GetKeyFails \/ KeyPair \/ ElectionFails
    \/ Initialize \/ ElectLeader \/ CommitNode \/ ReturnCommitment
    \/ Decommit \/ DestroyEnclave

Next == Step \/ Over

Spec == Init /\ [][Next]_vars

\* One thread runs straight on: whatever it can do next, it does.
FairSpec == Spec /\ WF_vars(Step)

-----------------------------------------------------------------------------
Decided == pc \in {"decommit", "destroy", "serve"}

\* What a commitment opens to under the value it was made with.
Opens(n) == Commit(comm_values[n], prfValue)

Winners == {n \in Nodes : Opens(n) = Win}

\* The election is single: when ecall_election has returned, no two nodes hold
\* commitments that open to the winning value, and every commitment opens to
\* winning or losing (SSLE_Obfuscation::electLeader).
AtMostOneWinner ==
    Decided => /\ \A m, n \in Winners : m = n
               /\ \A n \in Nodes : Opens(n) \in {Win, Lose}

\* The election is decided by the sign of the truncated random value: with a
\* negative remainder the index matches no node, and otherwise the winner is
\* the node of that index (leader_id = (int)prfValue % num).
WinnerIsRemainder ==
    Decided => LET r == CRem(IntOf(prfValue), NumNodes)
               IN  Winners = IF r < 0 THEN {} ELSE {r}

\* The pair main ends up with, the key and the commitment of node 0, is enough
\* to check the election without the enclave: one run of the prf from the key
\* and the public constants opens the commitment, and it wins exactly when node
\* 0 does.  This relies on every SSLE_Obfuscation starting from the same lcg
\* and hash, and on the key being the one the election was called with.
OutputVerifiable ==
    Decided => LET opened == Commit(output, Generator(prfkey, 0, Hash).out)
               IN  opened = IF 0 \in Winners THEN Win ELSE Lose

\* main leaves the enclave phase.
PhaseEnds == <>(pc \in Ended)

\* The enclave phase implements the abstract election.
Abstract == INSTANCE SecretElection
              WITH phase <- IF Decided THEN "decided"
                            ELSE IF pc \in Ended THEN "abandoned" ELSE "open",
                   winners <- IF Decided THEN Winners ELSE {}
ImplementsElection == Abstract!Spec

-----------------------------------------------------------------------------
(* What a comment of the source says and the code does not do. *)

\* SSLE_Obfuscation.cpp:53, "electing a leader": when the election has been
\* decided one of the nodes is the leader.
ALeaderIsElected == Decided => Winners # {}
=============================================================================
