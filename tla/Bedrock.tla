------------------------------ MODULE Bedrock ------------------------------
(***************************************************************************)
(* The Bedrock simulation, src/src/aws/bedrock: a counter per model, which *)
(* decides what a request is answered (scenario_engine.rs), and the chunks *)
(* of a streamed answer (streaming.rs).  An answer waits for its latency,  *)
(* so requests overlap and are answered in any order.                      *)
(***************************************************************************)
EXTENDS Integers, Sequences, FiniteSets, Functions, SequencesExt, ServiceConstants

CONSTANTS
    BedClients,
    MaxEvery,      \* bound: the period of an error injection
    MaxResponses,  \* bound: the length of a list of responses
    MaxRequests,   \* bound: requests made
    StreamTexts,   \* texts that are streamed: where each character begins, and the end
    ChunkSizes,    \* fixed_chunk_size
    FailAfters     \* fail_after_chunks, where it is set

ASSUME BedrockConstants ==
    /\ MaxEvery \in Nat /\ MaxResponses \in Nat /\ MaxRequests \in Nat
    /\ ChunkSizes \subseteq Nat /\ FailAfters \subseteq Nat /\ None \notin Nat
    /\ \A text \in StreamTexts :
          /\ text \in Seq(Nat) /\ text # <<>> /\ text[1] = 0
          /\ \A i, j \in DOMAIN text : i < j => text[i] < text[j]

VARIABLES
    bedCfg,      \* the configuration of the model, fixed at the start
    bedCount,    \* BedrockState.counters: requests of the model
    bedHeld,     \* the answer that each client's request waits with, or None
    bedServed    \* history: the sources of the answers, answered or waiting

bedVars == <<bedCfg, bedCount, bedHeld, bedServed>>

\* One injection (0: none), one rule, a list of responses with its mode.
BedConfigs ==
    [every : 0..MaxEvery, rule : {"none", "error", "response", "neither"},
     mode : {"cycle", "sequence"}, responses : 0..MaxResponses]

-----------------------------------------------------------------------------
(* resolve *)

\* Mutant: the count starts from zero.
InjectedEarly(n) == bedCfg.every > 0 /\ (n - 1) % bedCfg.every = 0

Injected(n) == bedCfg.every > 0 /\ n % bedCfg.every = 0

\* A rule that matches and says neither an error nor a response is passed over.
RuleAnswers(matching) == matching /\ bedCfg.rule \in {"error", "response"}

\* Mutant: the list is clamped in both modes.
EntryClamped(n) == IF n > bedCfg.responses THEN bedCfg.responses ELSE n

\* The index into the responses, from 1.
Entry(n) ==
    IF bedCfg.mode = "cycle" THEN ((n - 1) % bedCfg.responses) + 1
    ELSE IF n > bedCfg.responses THEN bedCfg.responses ELSE n

\* ResolvedResponse.source; "mode" stands for text, schema and static.
Resolve(n, matching) ==
    IF Injected(n) THEN <<"error_injection">>
    ELSE IF RuleAnswers(matching) THEN <<"rule">>
    ELSE IF bedCfg.responses > 0 THEN <<"sequence", Entry(n)>>
    ELSE <<"mode">>

\* increment, under the mutex.
Increment == bedCount + 1

\* invoke_model and invoke_model_stream up to apply_latency.
Invoke(c, matching) ==
    /\ bedHeld[c] = None
    /\ bedCount < MaxRequests
    /\ bedCount' = bedCount + 1
    /\ bedHeld' = [bedHeld EXCEPT ![c] = Resolve(Increment, matching)]
    /\ bedServed' = Append(bedServed, Resolve(Increment, matching))
    /\ UNCHANGED bedCfg

Answer(c) ==
    /\ bedHeld[c] # None
    /\ bedHeld' = [bedHeld EXCEPT ![c] = None]
    /\ UNCHANGED <<bedCfg, bedCount, bedServed>>

BedInit ==
    /\ bedCfg \in BedConfigs
    /\ bedCount = 0 /\ bedServed = <<>>
    /\ bedHeld = [c \in BedClients |-> None]

BedNext == \E c \in BedClients : Answer(c) \/ \E matching \in BOOLEAN : Invoke(c, matching)

BedSpec == BedInit /\ [][BedNext]_bedVars

-----------------------------------------------------------------------------
(* split_chunks and build_streaming_body.  A text is the offsets of its      *)
(* characters in its bytes, with the offset of its end; a chunk is the set   *)
(* of the characters that it carries.                                        *)

Letters(text) == 1..(Len(text) - 1)
End(text) == text[Len(text)]

\* from_utf8_lossy of the bytes from one offset up to another: a character that is not
\* wholly there is replaced.
Decode(text, from, to) == {i \in Letters(text) : from <= text[i] /\ text[i + 1] <= to}

\* fixed_chunk_size.max(1)
ChunkSize(size) == IF size = 0 THEN 1 ELSE size

\* Mutant: the last, shorter chunk is dropped.
FixedChunksOnly(text, size) ==
    [j \in 1..(End(text) \div size) |-> Decode(text, (j - 1) * size, j * size)]

\* chunk_mode "fixed": bytes.chunks.
FixedChunks(text, size) ==
    LET n == End(text) IN
    [j \in 1..((n + size - 1) \div size) |->
        Decode(text, (j - 1) * size, IF j * size > n THEN n ELSE j * size)]

\* chunk_mode "char".
CharChunks(text) == [i \in Letters(text) |-> {i}]

\* What the client gets: chunks and the last event.
StreamingBody(chunks, failAfter) ==
    IF failAfter # None /\ failAfter < Len(chunks)
    THEN [chunks |-> SubSeq(chunks, 1, failAfter), last |-> "error"]
    ELSE [chunks |-> chunks, last |-> "stop"]

-----------------------------------------------------------------------------
(* Properties *)

\* Each every-th request is the one that fails: of n requests, n div every, however
\* they overlap and are delayed by their latency.
InjectedShare ==
    bedCfg.every > 0 =>
        Cardinality({i \in DOMAIN bedServed : bedServed[i] = <<"error_injection">>})
        = Len(bedServed) \div bedCfg.every

\* In cycle mode the responses are served equally often; in sequence mode all but
\* the last are served once, and no later one before an earlier one.
ResponsesShared ==
    LET Times(i) == Cardinality({k \in DOMAIN bedServed : bedServed[k] = <<"sequence", i>>})
        entries == 1..bedCfg.responses
    IN  bedCfg.every = 0 /\ bedCfg.rule \in {"none", "neither"} =>
        \A i, j \in entries : i < j =>
            IF bedCfg.mode = "cycle" THEN Times(i) - Times(j) \in {0, 1}
            ELSE Times(i) <= 1 /\ (Times(j) > 0 => Times(i) = 1)

\* The chunks are the characters of all in their order, none of them twice; those of a
\* stream that fails are a beginning of them.
Carries(body, all) ==
    LET carried == UNION Range(body.chunks) IN
    /\ \A j, k \in DOMAIN body.chunks : j < k =>
          \A x \in body.chunks[j], y \in body.chunks[k] : x < y
    /\ carried \subseteq all
    /\ \A x \in carried, y \in all : y < x => y \in carried
    /\ body.last = "stop" => carried = all

\* A stream that ends with a stop event carries the whole text: in char mode, and in
\* fixed mode up to the characters that a chunk boundary cuts in two, wherever the
\* text ends.  One that fails carries a beginning of it.
StreamsWhole ==
    \A text \in StreamTexts, given \in ChunkSizes, failAfter \in FailAfters \cup {None} :
        LET size == ChunkSize(given)
            Cut(i) == \E k \in 1..End(text) : text[i] < k * size /\ k * size < text[i + 1]
        IN  /\ Carries(StreamingBody(FixedChunks(text, size), failAfter),
                       {i \in Letters(text) : ~Cut(i)})
            /\ Carries(StreamingBody(CharChunks(text), failAfter), Letters(text))
=============================================================================
