------------------------------ MODULE KeyPair ------------------------------
(***************************************************************************)
(* create_rsa_pair (pke/pke.cpp) and ecall_create_rsa_key_pair, called any *)
(* number of times in one enclave.  The RSA functions of the SGX library   *)
(* may fail at any call, and nothing that is allocated is ever freed.      *)
(***************************************************************************)
EXTENDS Integers

CONSTANTS
    HeapBlocks,     \* allocations the heap of the enclave has room for
    MaxCalls        \* bound on the calls of the application

ASSUME HeapAssumption == HeapBlocks \in Nat /\ MaxCalls \in Nat

VARIABLES
    pc,             \* where create_rsa_pair is; "idle" outside of it
    free,           \* allocations left
    private_key, public_key,    \* the handles: "null" or "handle"; one block
                                \* of the heap stands for what a handle takes
    pubkey,         \* the global array of Enclave.cpp: "zero" or "key"
    pkey,           \* the buffer of the application: "malloc", "zero", "key"
    returned        \* calls that have returned SGX_SUCCESS

heapVars == <<free, private_key, public_key>>
vars     == <<pc, heapVars, pubkey, pkey, returned>>

TypeOK ==
    /\ pc \in {"idle", "params", "private", "public", "modulus", "keys",
               "return", "crashed"}
    /\ free \in 0 .. HeapBlocks
    /\ {private_key, public_key} \subseteq {"null", "handle"}
    /\ pubkey \in {"zero", "key"}
    /\ pkey \in {"malloc", "zero", "key"}
    /\ returned \in 0 .. MaxCalls

Init ==
    /\ pc = "idle"
    /\ free = HeapBlocks
    /\ private_key = "null" /\ public_key = "null"
    /\ pubkey = "zero"
    /\ pkey = "malloc"
    /\ returned = 0

Call ==
    /\ pc = "idle" /\ returned < MaxCalls
    /\ pc' = "params"
    /\ private_key' = "null" /\ public_key' = "null"
    /\ UNCHANGED <<free, pubkey, pkey, returned>>

\* Whether the parameters have been generated or not: a failure is printed, and
\* the function goes on with what is in its arrays.
GenerateParams ==
    /\ pc = "params"
    /\ pc' = "private"
    /\ UNCHANGED <<heapVars, pubkey, pkey, returned>>

CreatePrivate ==
    /\ pc = "private"
    /\ \/ private_key' = "null" /\ UNCHANGED free
       \/ free > 0 /\ private_key' = "handle" /\ free' = free - 1
    /\ pc' = "public"
    /\ UNCHANGED <<public_key, pubkey, pkey, returned>>

CreatePublic ==
    /\ pc = "public"
    /\ \/ public_key' = "null" /\ UNCHANGED free
       \/ free > 0 /\ public_key' = "handle" /\ free' = free - 1
    /\ pc' = "modulus"
    /\ UNCHANGED <<private_key, pubkey, pkey, returned>>

\* Two blocks for modulus and exponent; a malloc that fails is copied to.
CopyModulus ==
    /\ pc = "modulus"
    /\ IF free >= 2
       THEN free' = free - 2 /\ pc' = "keys"
       ELSE pc' = "crashed" /\ UNCHANGED free
    /\ UNCHANGED <<private_key, public_key, pubkey, pkey, returned>>

\* Variant of CopyKeys that looks at the public handle only, and copies no
\* private key if there is none.
CopyKeysHalfChecked ==
    /\ pc = "keys"
    /\ IF free >= 2 /\ public_key # "null"
       THEN free' = free - 2 /\ pc' = "return"
       ELSE pc' = "crashed" /\ UNCHANGED free
    /\ UNCHANGED <<private_key, public_key, pubkey, pkey, returned>>

\* Two blocks take the place of the parameters pubk and prik: the arrays of the
\* caller are not written.  A handle that is NULL is copied from.
CopyKeys ==
    /\ pc = "keys"
    /\ IF free >= 2 /\ "null" \notin {private_key, public_key}
       THEN free' = free - 2 /\ pc' = "return"
       ELSE pc' = "crashed" /\ UNCHANGED free
    /\ UNCHANGED <<private_key, public_key, pubkey, pkey, returned>>

\* ecall_create_rsa_key_pair copies the global array out.
Return ==
    /\ pc = "return"
    /\ pkey' = pubkey
    /\ returned' = returned + 1
    /\ pc' = "idle"
    /\ UNCHANGED <<heapVars, pubkey>>

Over ==
    /\ pc = "crashed" \/ (pc = "idle" /\ returned = MaxCalls)
    /\ UNCHANGED vars

Next ==
    \/ Call \/ GenerateParams \/ CreatePrivate \/ CreatePublic
    \/ CopyModulus \/ CopyKeys \/ Return \/ Over

Spec == Init /\ [][Next]_vars

-----------------------------------------------------------------------------
\* Every call that returns has taken six blocks for good, those of both handles
\* among them though their statuses are dropped, so that one enclave can only make
\* as many key pairs as the heap has room for: the next call takes the enclave
\* down, whatever the application does.
CallsAreBounded == 6 * returned <= HeapBlocks
=============================================================================
