# A verification of ssle_experiment in TLA+

The repository is an experiment in single secret leader election. One process,
the *leader*, draws a random value in an SGX enclave, elects one of `num` nodes
with it, commits to every node's result, and then serves a key to a participant
over TCP. A variant without SGX sends a *punctured* key (convolutionally encoded,
one bit of every block flipped) and a commitment. The repository also carries
`config4cpp`, a library for configuration files: two thirds of its code. This
directory holds the specifications of both, the configurations that model-check
them with TLC, and the theorems about them that TLAPS checks.

Paths below are relative to the repository: `sgx/` stands for `src/sgx/`,
`non_sgx/` for `src/non_sgx/` and `c4/` for `libs/config4cpp/src/`.

## 1. Inventory

| Part | State it keeps | Operations | Talks to |
|---|---|---|---|
| Generator: `prvhash_core64` (`sgx/Enclave/pprf/prvhash_core.h`), `PPRF::prf` | `Seed`, `lcg`, `Hash`, behind pointers | a round; 2^28 rounds | called by `SSLE_Obfuscation` |
| Enclave phase: `main` (`sgx/App/App.cpp`), ecalls (`sgx/Enclave/Enclave.cpp`), `SSLE_Obfuscation` | `prfkey`, `output` on the heap of the application; the enclave; a fresh `SSLE_Obfuscation` per ecall with `secret`, `lcg`, `hash`, `prfValue`, `leader_id`, `comm_values` | create enclave, get key, make a key pair, elect, open a commitment, destroy enclave | bridge of SGX, generator, `create_rsa_pair` |
| RSA key pair (`sgx/Enclave/pke/pke.cpp`) | heap of the enclave, global `pubkey`, handles | generate, two handles, four allocations, two copies | SGX crypto library |
| `Node` (`sgx/App/Node.cpp`) | a socket, `messages`, and whatever the stack holds where `receive_message` has its buffer | initialize, listen, accept, connect, send, receive, get, close | TCP |
| SGX session (`sgx/App/App.cpp`, `utils/utils.cpp`) | `nodes`, `inconnect`, the key | register a participant, send the key, wait for an answer | `Node` of the other process |
| Non-SGX session (`non_sgx/ssle_node.cpp`) | the same, and a commitment | the same, two sends | the same |
| Viterbi codec (`sgx/Enclave/pprf/viterbi.cpp`) | path metrics, trellis | encode, decode | called by `PPRF` |
| Puncturing (`sgx/Enclave/pprf/pprf.cpp`) | strings of bits | align, split, encode and flip; split and decode | codec, random bits of SGX |
| `batchRegistration`, `readCmdline` | `nodes` | never called | |
| AES and RSA encryption, their tests, the `SSLE` base class, `viterbi_main`, `error_print` | none of interest | never called in what is built, or print | |
| Strings of config4cpp (`c4/StringBuffer.cpp`, `StringVector.cpp`) | an array, its size and capacity; a text inside the object or on the heap | append, assign, add, pass on ownership, grow, sort, empty | all of config4cpp |
| Configuration (`c4/ConfigScope.cpp`, `ConfigItem.cpp`, `ConfigurationImpl.cpp`) | a tree of scopes, each a hash table; a current scope; a fallback configuration; a stack of file names | insert, ensure a scope, remove, empty, look up, list, dump, set the fallback | parser, validator, application |
| Parser (`c4/ConfigParser.cpp`) | the open blocks, on the stack of C++ calls; the current scope and the file names of its configuration | assign, scope, `@include`, `@if`, `@copyFrom`, `@remove`, `@error` | configuration, lexer, environment |
| Typed lookups (`c4/ConfigurationImpl.cpp` 884 to 2812) | none | test, convert, look up, look up with a default, for 20 types | configuration, `sscanf` |
| Schema (`c4/SchemaParser.cpp`, `SchemaValidator.cpp`, `SchemaType*.cpp`) | the array of types and whether it is sorted; rules; ignore rules | parse a schema, validate a configuration | typed lookups, listings, `UidIdentifierProcessor` |
| Lexer, `patternMatch`, exec policy, code generator and demos of config4cpp | see section 5 | | |

What is hard in this code:

* **Concurrency and blocking.** Leader and participants are processes that meet
  in `connect`/`accept` and in blocking `send`/`recv`. There are no timeouts and no
  retries, so that an order nobody expected ends in an exit or in a wait for ever.
* **Streams taken for messages.** A `recv` is taken for a message: it may be half
  of one, two of them, or nothing at the end of the stream; the buffer is neither
  cleared nor terminated.
* **Ignored failures.** The status of an ecall, of the three RSA calls, of `malloc`,
  of `send` and `recv` is dropped; what follows runs on what memory held.
* **Arithmetic at the edge.** A truncation to `int` before a remainder, unsigned
  differences, `INT_MAX` for "unreached".
* **Limits.** A heap that only shrinks; EDL sizes that are not those of the blocks;
  arrays, tables and buffers of config4cpp that grow in the middle of an operation.
* **Long sequences of legal calls.** Ownership of strings that moves between
  containers; schemas parsed one after the other; files that include files; a parse that
  fails half-way and leaves its configuration to the next one.

What makes each part correct is stated with the runs below; `PROJECT.json` lists
every hazard at its line with the properties that cover it.

## 2. Modules

    Election ── implements SecretElection
        └─ PrvElection (takes PrvHash) ─┬─ MCElection
                                        └─ Election_proofs
    Node ── Session ─┬─ SGXSession ── MCSGXSession
             │       │       └─ SGXSession_proofs
             │       └─ NonSGXSession ── MCNonSGXSession
             │               └─ NonSGXSession_proofs
             └─ Session_proofs (used by both)
    PowersOfTwo ── PrvHash
        └─ ViterbiCodec ─┬─ ViterbiDecoder ── implements MaxLikelihood
                         │       └─ BlockTrip ─┐
                         └─ PPRF ──────────────┼─ EnclaveTools ─┬─ MCEnclaveTools
    KeyPair ───────────────────────────────────┘                └─ EnclaveTools_proofs

    StringVector ── implements TextLists;  MCStringVector
        └─ StringVector_proofs
    ConfigScope ── Configuration ── implements ConfigTree;  MCConfiguration
                       └─ Configuration_proofs
    ConfigLookup ─┬─ ConfigParser ── implements ConfigTree
                  │       ├─ ConfigParser_proofs
                  └─ ConfigExpressions ─┴─ MCConfigParser
    ConfigValues ── SchemaTypes ── Schema ── MCSchema

**PrvHash** is the generator on words of `W` bits (all sums and products modulo
`2^W`), with the inverse of a round (`Rewind`), which only properties use.

**Election** is the leader's thread from `initialize_enclave` to
`sgx_destroy_enclave`. `pc` names the calls of `main`; `GetKey`, `Initialize`,
`ElectLeader`, `CommitNode`, `ReturnCommitment` are the bodies of the ecalls, with
`*Fails` for the outcomes in which the bridge or the enclave gives up.
`prfkey` and `output` start with any word, because `malloc` does not clear them. The
bridge copies 256 bytes to application blocks of 8 (`Enclave.edl`): the model lets
it clear the blocks allocated near them, or abort the process; other damage to the
heap of the application is not distinguished from an abort. The generator
and exclusive or are constants: the theorems only assume that they are functions on
words and that exclusive or undoes itself. **PrvElection** says that the generator is that of
`PrvHash` on words of `2^W` values; `MCElection` gives exclusive or its meaning.

**SecretElection** is what the phase promises: decided in one step, at most one
winner, or abandoned.

**KeyPair** is `create_rsa_pair`, call after call in one enclave, one action per
statement group; `free` counts allocations and not bytes, one per handle. A handle
of the SGX library may well take more than one: the bound then only gets smaller.

**Node** models a socket as `open[x, y]` (x holds its end) and `wire[x, y]` (bytes on
their way), a byte as a token. `ReceiveMessage` takes any non-empty prefix of at
most `DefaultLen` bytes (or all there is, when `MayFragment` is off), or nothing
when the other end is closed and all is read (an error of `recv` is not told from that:
the code looks at neither); the message is those bytes *and*
the bytes the buffer held behind them, or other garbage of `Tails`. `Close` with
unread bytes may reset the connection, which loses what the other side has not
read; a send to a closed end is lost or kills the sender (SIGPIPE). The kernel
completes connections before `accept` does, and drops the backlog when the
listener closes.

**Session** has the steps both programs share, **SGXSession** and **NonSGXSession** what
they send and make of it. `pc[x]` is the place of process x in `main`; a step is one
call that can block or fail, together with the assignments after it. The two
programs use different delimiters of an address (`:` and `,`); the model has one.
Any system call may fail (exit), and processes of `Mortal` may be killed at any
point. `registration` of an address with no second field reads past a vector: it
kills the leader or gives a port that is no number.

**ViterbiCodec** holds the pure part of the codec for any constraint length and
polynomials, and the reference (`Closest`); **ViterbiDecoder** is `Decode`, a column per
step and a bit of the traceback per step, on strings of at most `MaxBits` bits, which an
`int` counts; **MaxLikelihood** is what it implements.
**BlockTrip** sends one block through `Encode`, `bitFlip` and `Decode`. **PPRF** is
puncturing and depuncturing of a whole key, with the decoder taken at its abstract
promise. That a flip can be undone is a matter of the code and not of the program: both
assume `KeepsApart`, that no code word of other inputs is closer than three bits, and TLC finds it
true of the program's code (polynomials 6 and 5 of constraint 3, blocks of 7 bits).
**EnclaveTools** puts the three helpers of the enclave side by side; they
share no state and no caller, so that a behaviour runs one of them.

**StringVector** is `StringBuffer` and `StringVector` on one heap. The array of a vector
is a function on `0..max`, one cell more than its capacity, in which a cell holds the
address of a block, a null or garbage; `spill` tells of a write outside, `failed` of
a delete of what is not live, `died` of a program killed by a null pointer. `operator=` of a vector
does not look whether it is assigned to itself (`StringVector.cpp:83-92`): it deletes its strings, nulls
their cells and copies the nulls (`AssignToItself`), and the program dies in `strlen`. Characters are ordered tokens.
**TextLists** is what it implements: lists of texts and texts, of which a list assigned to itself
loses its texts and takes the program down. What is not told apart is `delete` and `delete[]`: line 85 releases memory
of `new char[]` with the first. Other operations of an object on itself are not tried (a buffer assigned or appended to itself,
or given its own text, which growing may release before it is copied; `addWithOwnership` and
`takeOwnershipOfStringIn` of the object itself); nothing in the repository calls them so.

**ConfigTree** is what a configuration promises: a function from paths to items, and the
current scope; `Paths`, `Strings` and `Lists` bound what is written into it. **ConfigScope** is the hash table of one scope, buckets in their order,
with the hash of the code over the character codes of a name. **Configuration** is the
tree of tables with its operations; its refinement mapping reads the tree off the
tables. A parse that fails inside a scope is an action here (`ParseFailsIn`): it is how the
current scope comes to be another one than the root.

**ConfigParser** works on the tree itself. What the source says next is chosen as it is
read, so that every source within the bound is tried; `frames` is the stack of C++
calls: files, scopes, blocks of `@if`, skipped blocks, copies in progress. An exception
(`Throw`) unwinds every frame and pops a file name per file. What an expression or a condition
yields at a place (`StringAt`, `ListAt`, `HoldsAt`, `TypeAt`) is a parameter of the parser: no
statement depends on more of it than whether there is a value, and which. The instance gives
it as **ConfigExpressions**, which evaluates parse trees of a small set as the code does; which
file a source names, what the environment and commands yield, and `patternMatch` are operators
of the instance. **ConfigLookup** is what both look up in the configuration and its fallback.
A file may be included again while it is read if the second source spells it differently
(`file#f`): `checkForCircularIncludes` compares the sources as they are written, with the names
of the files that are open, and those have lost the prefix. No condition of the parser ends this recursion: it
ends when the process may open no more files and `fopen` fails, which is what `MaxFiles` stands for
(`Opens`; in the run it is 2). `NoCircularInclude` speaks of sources with one spelling. `split()` and
`replace()` find an empty text again and again at the same place (`ConfigParser.cpp:1316-1323`, `1357-1363`), until
the memory for the pieces gives out, if there are any: such an evaluation has the result `Loops`, the
parse then the result `"looping"`, and no statement follows.

**ConfigValues** is every `isX`, `stringToX`, `lookupX`. A text is a sequence of words and
numbers, which is what the `sscanf` formats tell apart; a number is whole or has a half
behind it, and the product of a unit with a float loses the bits beyond 24; a default of `lookupFloat` is printed with six decimals (`Printed`).
**SchemaTypes** is `checkRule`, `isA` and `validate` of every type and the array of types
with its searches; **Schema** is `parseSchema`, an item at a time, and `validate`. A check ends
well, in an exception, or in an assertion that stops the program, and the three are
kept apart.

## 3. Runs

All bounds are constants of the `.cfg` files.

| Run | What it shows | Bounds, and why they are enough |
|---|---|---|
| `election` | at most one winner; winner = truncated remainder; the pair `main` keeps is enough to check the election; every state the generator leaves tells the secret it came from (`KeyRecoverable`); the phase ends; it implements `SecretElection` | 4-bit words and 6 rounds (a round is the same at every width, and one that lost a bit would do so here), a 3-bit `int` (so that truncation, sign and remainder all matter), 3 nodes as in `main`, every content of uninitialised memory |
| `sgx_session` | see below | two participants (one served, one in the backlog), a key of 2 bits, `DefaultLen` 4 so that a registration just fits and longer streams do not, any cut of the stream, stale bytes with and without a character that is removed, leader and one participant mortal |
| `non_sgx_session` | see below | one participant, two blocks and a commitment of one and a half blocks, `DefaultLen` 7 so that both just fit, any cut, leader and participant mortal |
| `enclave_tools` | `Decode` returns inputs of maximum likelihood, on metrics that are distances; every flip of every block is corrected and a whole key comes back; at most heap/6 calls of `create_rsa_pair` return, whichever handle is missing | the polynomials and sizes of the program: 128 blocks times 18 flips, all strings of up to 8 bits (odd lengths, and ones shorter than the flushing bits); keys of none, one or two blocks of 2 with three trailers; a heap of 39 blocks and 8 calls, so that the heap gives out first, at either pair of allocations |
| `strings` | no write outside an array or a buffer, no leak, no double delete, and the texts are those of lists; a vector assigned to itself kills the program and nothing else is lost | two vectors, two buffers, three blocks, initial capacities of 1 and an internal buffer of 2: every container grows, and the heap is shared by vectors and buffers; objects and addresses are symmetric |
| `config_scope` | tables are sound after any history; every operation does in the tree what it says; a lookup yields the innermost entry, else the fallback's; listings are complete and sorted; a dump parses back, if no name is empty | up to three entries, tables of 2 at first so that they grow twice, two names that share a bucket at every size, the empty name, two fallbacks |
| `config_parse` | a parse changes the configuration as operations on its tree do, restores the current scope if it succeeds and leaves it at one that exists if it fails, parses at most one block of an `@if`, copies whole scopes, nests files only at the root and circularly only under another spelling; reading ends (`ReadingEnds`), and only the evaluation of one expression may not | five tokens in the first file, two in each included one, two files open at once: enough for an `@if` in a scope, an error in a nested file, a file in itself under another spelling, a copy with two entries; several configurations to start from |
| `schema` | see below | two of 27 items per schema, two typedefs in all, room for one before the array grows, schemas parsed one after the other and failing anywhere; 14 configurations, whole and below a local name, all masks and force modes |

`schema` asks that `validate` accepts a configuration exactly if it conforms, where
conformance is defined afresh: an entry has a rule (or is ignored) and *the lookup of the rule's
type* yields a value of its range. Below a local name this is asked of schemas without rules that ignore
variables or scopes, which are then misjudged (`schema_local_name`). The local name of the run is not a `uid-` name:
`validateRequiredUidEntry` compares the unexpanded name of a scope with a pattern in which the local name is still
expanded, so that below a `uid-` local name no required `uid-` entry is ever missed. It ties the validator to the typed lookups, two pieces of
code that repeat each other. In its first state the conversions are compared on some 430
texts: `isX` says yes to what `stringToX` converts, the conversions of one text to finer and
coarser units agree, and a lookup with a default yields the default only when there is no entry
(`DefaultsOnlyWhenAbsent`). That one follows the code over the whole range of `int`, defaults included that do not come back:
those of durations and memory sizes go through a text and a `float`, are rounded above 2^24 and come back as
the least `int` from 2147483584 on (`AfterFloat`); a default of `lookupFloat` keeps six decimals; that of `lookupMemorySizeBytes` throws, because
it is formatted in milliseconds (`ConfigurationImpl.cpp:2661`); and the lookups with units of a variable that exists call
themselves for ever.

The sessions are asked: a whole key is decoded exactly whatever the buffer held
(`WholeKeyIsExact`, a part of `StaleBytesOnlyFollow`); a participant gets past the wait for the
commitment only by mistake (`HelloOnlyByMistake`, a property of that step: afterwards the connection
may be closed for any reason, and an invariant could not tell which came first); an address that arrives whole is registered with its host and its digits
first, which stale digits may follow and so make another port (`RegisteredStartsRight`, the other part); once leader and participant wait for each other only
killing one ends it (`OnlyKillEndsMutualWait`); an accepted participant is served or
one of the two ends (`AcceptedIsServed`). In the non-SGX one: if the correction gives
back the punctured key, at most a part of a block of the commitment is lost, and what the
second `recv` takes goes on where the first has stopped (`CommitmentFollowsKey`, of that step too), and such a participant
finishes unless the leader goes first (`SeparateMessagesComplete`).

The other runs are expected to fail: each checks one sentence of the source that
the code does not live up to.

| Run | The source says | What the run finds |
|---|---|---|
| `election_no_leader` | "electing a leader" (`SSLE_Obfuscation.cpp:53`) | a negative truncated value is nobody's index |
| `non_sgx_commitment` | "Participant received commitment" (`ssle_node.cpp:136`) | both messages come in one `recv`, the second waits for ever |
| `strings_terminator` | `assert(m_array[m_currSize] == 0)` (`StringVector.cpp:272`) | `ensureCapacity` and `addWithOwnership` clear the cell after that one: it holds what the memory held |
| `schema_local_name` | "the rule applies if the item is a variable" (`SchemaValidator.cpp:659-661`, shortened) | `shouldIgnore` asks for the type in the scope without the local name (line 646): the variable `s.s.a`, validated below the local name `s` under `@ignoreVariablesIn s`, is taken for `s.a`, which there is not, and is reported as unknown |

Other divergences met while modelling are part of the model but have no run of their own:
"test for commitment value", "You win" (`App.cpp:255-260`): the application compares with 1111 what the
enclave commits to as 0xABCDEF1234567890, and opens with the key and not with the value drawn from it, so that
a winner is never told;
"Participant received commitment" (`App.cpp:348`) though its send is commented out (the
mutual wait that `OnlyKillEndsMutualWait` is about); the status of `ecall_get_key` is dropped (`GetKeyFails`); stale bytes of the receive buffer may
add digits to a registered port (`ReceiveMessage`, which is why `RegisteredStartsRight`
speaks of a prefix); whole blocks of the commitment in the first `recv` pass for
key in the non-SGX correction (`Corrected`); `Decode` leaves the flushing bits of a word shorter
than they are (`Unflushed`); the loop under "padding with 0" never runs (`Split`);
`create_rsa_pair` never writes the arrays of its caller (`CopyKeys`), so that no public key
leaves the enclave.

In config4cpp: a parse that fails inside a scope leaves the configuration there (`Throw`); the
defaults that do not come back, above; `replace()` and `split()` look for an empty text for ever (`Loops`); a vector
assigned to itself (`AssignToItself`); the type of an identifier on
the right of an assignment is not looked up in the fallback; a second `@typedef` of a
name in a later schema is an error. The test file `schema-type-tests.cfg` (lines 44 to 47) still uses type
names such as `int_with_units`, which `registerBuiltinTypes` no longer registers; nothing here depends on them.

With the constants compiled into the program the election is always the same: the key
is 7450515431689900718, the random value drawn from it 0x76be82f4fca6a3da, its low
word is negative but divisible by 3, and node 0 wins. `election_no_leader` is about
every other key, and about a run in which `ecall_get_key` has failed.

### Fairness

* `Election`: weak fairness of `Step`. One thread runs straight on, and the loops of the
  enclave are bounded.
* Sessions: weak fairness of `ProcStep(x)` for each process. `ProcStep` is disabled while
  the process is blocked in `accept` or `recv`, so that this only says that the
  scheduler runs processes that can run. Failing calls and kills are not fair: nothing
  says that they ever happen.
* `EnclaveTools`: weak fairness of `Decode`, a loop over its argument.
* `ConfigParser`: weak fairness of `Statement`: the parser is one thread, a loop over a finite
  source. The bounds on tokens only cut off longer sources; every file ends. An expression that never comes back is a state
  of its own (`"looping"`), in which the parser stutters: fairness promises nothing of it.
* `StringVector`, `Configuration` and `Schema` state no fairness and no liveness: nothing
  makes a caller call.

Deadlock is checked in every passing run but `strings`, where the bounds on heap and lengths
leave nothing to do in some states: a process that has ended stutters in
`Over`, `Return` or `Returned`, and only then. In the session runs a mortal process
can still be killed, which is why the mutual wait is not a deadlock of the model there.

## 4. Proofs

`Election_proofs` proves, for every word size, width of `int`, number of nodes, pair of
committed values, self-inverse exclusive or and generator:

* `TypeCorrect`, `AtMostOneWinnerHolds`, `WinnerIsRemainderHolds`, `OutputVerifiableHolds`: the
  four invariants of the run `election`;
* `Refinement`: every behaviour is one of the safety part of `SecretElection`.

None of the four is inductive: they speak of the state after the ecall. The
invariant `IInv` adds what links it to the loop: before the election `lcg` and `hash` are the
initial ones; after it `prfValue` is what the generator returns for `prfkey`, `leader_id` is its
truncated remainder, and the commitments *below the loop counter* are those of that index;
when decided, the counter is at its end and `output` is the commitment of node 0. The
lemmas are those of C arithmetic (`RemainderBelow`, `IntOfInt`) and of the commitment
(`CommitOpens`, `OpensExactly`); that at most one node wins needs `Win # Lose`,
`ValueAssumption`.

`KeyRecoverableHolds`, for words of any even number of bits and any number of rounds, is in three
layers. An odd number has an inverse modulo `2^W` (`InverseModuloPower`, by induction on the power:
an inverse modulo `2^k` or that plus `2^k` is one modulo `2^(k+1)`). So each of the assignments of
`prvhash_core64` can be undone, *in the opposite order*: the old `lcg` is found from `mixed` before
the factor that made `mixed` can be (`SumUndone`, `ProductUndone`, `RoundUndone`). And `Rewind` undoes the
rounds one by one (`PrfUndone`, by induction). Assumed: exclusive or undoes itself, `WordSize` is
`2^W`, and the generator is `Prf` (`GeneratorAssumption`), which TLC checks for its instance.

`EnclaveTools_proofs` proves all of the run `enclave_tools` but that `Decode` ends, for every
constraint length and polynomials, any strings and blocks, and any heap.

* `DecodesClosestHolds` and `ToolsSoundHolds`: after `n` columns the metric of a state is the
  least distance of the `n` inputs that end in it, and `Unreached` if none do (`MetricsOK`); the source
  the trellis keeps is one whose best inputs are the beginning of best inputs (`SourceOK`); and whatever best
  inputs the traceback has come back to, with the bits it has collected they are among the closest
  (`Traced`). Nothing of it is inductive alone: that `Unreached` never wins needs that no distance comes near it
  (`NeverOverflows`, from `MaxBits`). The lemmas under it are about sequences built by recursion: the states
  and the code word of one more input (`StatesOfAppend`, `WalkAppend`), the distance of what is
  appended (`DistanceAdds`), the two sources of a state (`Sources`, `OnlySources`).
* `PuncturingUndoneHolds`: what is received is at most one bit from the code word of the block, so
  that the word `Decode` returns is at most two bits from it (`Triangle`), and `KeepsApart` leaves only the
  block (`FlipCorrected`). For a whole key the invariant `KeyInv` says which blocks are punctured, what the
  pieces in the loop are, and how much of the key has come back; the parts of a string and the pieces
  `splitBinaryVector` makes of it are the same up to the last whole one (`SplitIs`, `PartsStay`).
* `CallsAreBoundedHolds`: the invariant `PairInv` is an accounting: free blocks, those of the call that
  runs (`Taken`, by place), and six for each call that has returned, never exceed the heap. The six are only
  right because a call that lacks a handle does not return: its dropped status ends in a crash.

`StringVector_proofs` proves `VectorsInBounds` for any number of vectors and buffers, any heap,
capacities and texts. It is not inductive, because `MakeRoom` doubles the capacity and a
capacity of 0 would stay 0: the invariant (`Sound`, for every vector) adds that the capacity is positive
and that the sizes are numbers; a lemma per helper says that it keeps a vector sound and what
length and capacity it leaves, and the operations follow from those.

It goes on to `OwnedOnce` (nothing leaks or is deleted twice, and no cell is null in a live program). `OwnedOnce` speaks of live owners only, and a cell beyond the length, or a vector whose cells
repeat an address, would break it a step later. The invariant `OwnInv` adds that every vector is
shaped as its sizes say, that its cells below the length are distinct, and that the strings of the
vectors and the blocks of the buffers *partition* the live blocks. An operation is then one of three:
it replaces the part of one vector (`OneVectorOwns`), the part of one buffer (`OneBufferOwns`), or moves
a block from one part to another (`TakeOwnership`, `AddBuffer`, `AddVectorWithOwnership`). The assignment of a vector
to itself is apart (`Death`, `DeathOwns`): it empties one part, and nothing follows, so that the invariant only has to hold
while the program lives (`StepAlive`). A lemma
per helper says which cells it keeps and which it writes. Assumed: the heap is finite and the null
pointer, garbage and the buffer inside the object are no addresses of it (`HeapAssumption`), from which
it follows that the allocator returns distinct free addresses (`FreshIsFresh`).

It then proves `TypeOK`, of which `BuffersInBounds` is the part that matters: no
operation writes past the memory of a buffer. It needs the ownership: the capacity a buffer
remembers is at most that of its block, and nobody else replaces that block, *because* nobody else owns
it. The invariant `TypeInv` is `OwnInv`, the types of the cells and of the heap, and for every buffer
`InternalSize <= max <= Capacity` with a text shorter than `max`. `empty()` shows why the three are
needed: it lowers `max` below the block, and the next growth starts from there. Assumed: texts
are sequences of ordered tokens (`TextsAssumption`).

`ImplementsListsHolds` is the refinement of `TextLists`, one lemma per operation. The list of a vector is
read off its cells through the heap, so that it might change without the vector being touched: it
does not, because what an operation deletes it owns, what it allocates is fresh, and the block of a
buffer is in no vector (`OtherLists`, `BufferLists`, from `OwnInv`). What the operation makes of its own
list follows from its cells (`LongerList` when it grows, `CopiesTexts` when strings are copied); a self-assignment is `Die` (`DeathLists`).

`Session_proofs` says what the steps both programs share keep, for any set of participants, any
ports and any buffer length: their types, that nobody has read anything before the leader's first send
(`NothingSent`), and that what the leader reads first from anybody is its address, and is registered
as one (`Addresses`). Two lemmas carry more than the sessions. `SetInduction` is induction over
the numbers as a statement about a set, and `PrimitiveRecursion` the existence of a function
that is defined step by step; both follow from the well-foundedness of inclusion between finite sets.
With them `CleanIs` shows what the removal of control characters keeps of a message of any length.
Assumed: ports are written in digits, and leftovers of the buffer are bytes (`SessionAssumption`).

`SGXSession_proofs` proves `TypeOK`, `StaleBytesOnlyFollow`, `HelloOnlyByMistake` and
`OnlyKillEndsMutualWait`. The last needs only types: no action of the two processes is enabled in the
mutual wait, and no other process touches their sockets. For the others the invariant adds `KeyKept`:
what a participant finds before its first `recv` is nothing or the key, and a key that was
taken whole leaves *nothing* in the socket, which is why only a closed connection ends the wait after it.

`NonSGXSession_proofs` proves `CommitmentFollowsKey`. The invariant `Stream` says what is in front of a
participant at every moment between the two sends of the leader and the two `recv`s: the punctured
value, the two in one, or the end of the commitment from the byte where the first `recv` has
stopped. It holds only because the leader serves one connection (`Connected`: a process it has
accepted never connects again), without which the two sends could go to different streams.

`ConfigParser_proofs` proves every safety property of the run `config_parse`, for any sources, files,
configuration and fallback, and whatever expressions yield (they are parameters). None of them is
inductive. The invariant `IInv` is about the stack of calls:

* `Nesting`: every frame is of one of six kinds, a file is at the bottom, and a copy only on top;
* `ScopesKept` and `Chained`: the first scope that was opened returns to where the parse began, each
  returns to a place on the path to the current scope, and no file is on top of any of them. This
  gives `ScopeRestored`, of a parse that fails too (every scope up to the current one exists), and `IncludedAtRoot`;
* `BlockCounted`: how many blocks of a chain were parsed follows from whether a condition was true;
* `CopiedSoFar`: what is listed is below the other scope and still there, and what is no longer
  in the rest of the list has arrived with its value, unless some goal of the copy lies in the
  scope it reads. The lemmas it rests on say that writing one path leaves the others alone and
  that scopes come before what is in them.

`TypeOK` also says that names and braces are counted right, and that needs a second invariant, `Counts`:
for a stack of frames `Tally(fs, b, names)` says that a skipped block is only on top, that the names are those
of the files in their order, and that every file has counted the braces of its own frames, except
that the innermost may have counted `b` too many. A statement reads a token and then pushes or pops
the frame it stands for, so `b` is the brace just read in between and 0 again at the end; the
lemmas `ReadCounts`, `PushCounts`, `PopCounts` and their like say what each half does.

`ImplementsTreeHolds` is the refinement of `ConfigTree`: one step per statement, where a statement
that fails half-way has made the scopes on its way, a closing brace is a `LeaveScope` because
of `Chained`, and an entry of a copy is an insertion or a scope that is made. Assumed: the names the tree
may be given include every non-empty path (the run bounds them).

`Configuration_proofs` proves `TypeOK`, `ImplementsTree`, `LookupIsInnermost`, `ListingsComplete` and
`DumpRestores`, all that the run `config_scope` checks, for any names, values, fallbacks and character codes: which names share a bucket
does not matter. None of them is inductive. The invariant is `CInv`, whose core is `SoundTree`:
every table is `Well`, the scopes a table lists are exactly those that have a table of their own,
and the root has one. `Well` says of a table that each entry is in the bucket of its name, that
no bucket has a name twice, that the count is the number of entries, and that the table is less
than half full. The proof goes in five layers:

* one table: `FindPresent` and `FindAbsent` tie `findEntry` to the *set* of entries (`Cont`), and
  `AddWell`, `PutWell`, `DropWell` say what an operation does to that set. `RehashedIs` is the
  growth: every entry arrives in the bucket of its name in the larger table, none is lost. Recursive
  definitions (hash, rehash, `FlattenSeq`) are reasoned about with `PrimitiveRecursion` and
  `SetInduction`, as above;
* the tree: `TreePut`, `TreeScope` and `ItemsOf` turn a change of one table into a change of one path;
  `PrefixClosed` and `NothingBelow` say that entries are in scopes all the way up, which is why
  a removal that takes away all tables below a path loses nothing else;
* the operations: `EnsureIs` follows `ensureScopeExists` component by component, up to a variable
  in its way (`Progress`), and with it `InsertedIs` and `RemovedIs` are the steps of `ConfigTree`. `SearchIs` is
  the loop of `lookup` from the inside to the outside, which yields the entry of the largest number;
* the listings: `CInv` is joined by `Deep` (no path is longer than some number), so that the recursion
  into scopes ends (`ListingMakes`) and its result can be followed from the deepest scope upwards:
  `LineIs` and `LinesAre` say that each line of a table names its entry and what is below it, and that no
  two lines have a name in common (`BranchesApart`). `SortedIs` says that sorting keeps every name and
  leaves nothing behind what comes after it, which needs that `strcmp` is an order (`OrderIs`); and
  `CodesOnce` that dotted names without an empty component are told apart by their text, so that
  the order is strict;
* the dump: `Transcript` says of a list of statements that it has each entry below a scope once, with
  its item, and after the statement that opens its scope (`Follows`). `StatedAre` and `NestedAre` show it of
  the two passes at one scope, `DumpLinesAre` puts them together, and `DumpingIs` goes from the deepest scope
  upwards. Reading then adds one path at a time: `RereadIs` needs the scope of a statement to be there
  and its name to be free, which is what `Transcript` provides, so that the tree after `k` statements has
  the paths of the first `k` (`RereadingStep`). Two tables of different layout with the
  same items are found the same (`SameItems`).

Assumed: names have codes of characters, none of them a dot (`splitScopedNameIntoVector` takes names
apart at dots), the empty name alone has none, and the codes are the name (`NamesAssumption`); a new table has a power of two
of at most 256 buckets (`InitialSizeAssumption`; the code has 16).

Only model-checked: liveness (`PhaseEnds`, `AcceptedIsServed`, `SeparateMessagesComplete`,
`ReadingEnds`, the fair parts of `ImplementsElection` and `ImplementsMaxLikelihood`), which is out of the
prover's reach; `SchemaTypes` and `Schema`, whose
operators are recursive over data.

## 5. Not modelled

* `ecall_test`, `commit(string)`, `getRandKey`, `getPunctKey`, `depunct`, `verifyLeader`, the setters and
  factors of `Node`, its three-argument `receive_message`, hexadecimal conversions,
  `batchRegistration`, `readCmdline`, `commit` with `b = 0`, `verify`: nothing calls them.
* The command line; the non-SGX program goes on with default nodes when it is wrong.
* AES and RSA encryption, `SSLE`, `viterbi_main`, `error_print`: not called, or only printing.
* `Node.h`, `pprf.h` and `commitment.h` of the non-SGX program are in a submodule that is not
  in the repository: `Node` is taken to be the same class, `prf` and `puncturing` give one value.
* The numbers of RSA, the launch token file, output.
* Randomness as probability: a random choice is any choice.
* The lexer of config4cpp (characters, escapes, multi-byte text in the locale of the
  process) and `patternMatch`: the models start from tokens and take the match as given.
* Ownership of fallback and security configurations, and the exec policy: which commands
  run is a constant.
* `expand` of `UidIdentifierProcessor`.
* `delete` for `delete[]`, and operations of a string object on itself other than `operator=` of a vector.
* `validate` after a `parseSchema` that has failed, which the documentation does not speak of.
* The code generator, the command line tools and the demos: they print.

## 6. Plan

Done: the enclave phase with its refinement and proofs; the generator, the codec, puncturing and
the key pair with their proofs; both sessions on one model of sockets; the strings, the
configuration and its tree of tables with their refinement, the parser, the typed lookups and the
schemas of config4cpp.

1. Extend: a restart of the leader on a port in TIME_WAIT and repeated sessions; the
   composition of `Election` with `SGXSession`, in which the key that is served is the one the
   election used; the lexer as a machine over classes of characters; `expand` of uid
   identifiers in the parser.
2. Prove: the schema, once the types of `SchemaTypes` are recursive functions.
