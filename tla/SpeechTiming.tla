----------------------------- MODULE SpeechTiming -----------------------------
(***************************************************************************)
(* When a word was said.  The recogniser counts time in the audio it was   *)
(* sent; the page maps that back to the time of the microphone, run by run *)
(* of contiguous chunks (memory/client speechTiming.ts).  Time is in units *)
(* of which a chunk has CHUNK; rounding to milliseconds is left out.       *)
(***************************************************************************)
EXTENDS Integers, Sequences, FiniteSetsExt

CONSTANTS
    CHUNK,        \* CHUNK_MS
    TOLERANCE,    \* 1.5 chunks
    Gaps,         \* time between the end of a chunk and the start of the next one that is sent
    Offsets,      \* times of words in the audio sent
    MaxChunks     \* bound: chunks of a connection

ASSUME TimingAssumption ==
    /\ CHUNK \in Nat \ {0} /\ TOLERANCE \in Nat /\ MaxChunks \in Nat
    /\ Offsets \subseteq Nat /\ Gaps \subseteq Int /\ \A g \in Gaps : g >= -CHUNK

VARIABLES
    audio,        \* the runs of the SentAudioTimeline
    stamps,       \* the microphone's time of every chunk sent (for the properties)
    lastFinal,    \* prevFinalEndMs, or NoTime
    span          \* the interval of the last transcript

timingVars == <<audio, stamps, lastFinal, span>>

NoTime == -1
Distance(a, b) == IF a > b THEN a - b ELSE b - a

TimingInit == audio = <<>> /\ stamps = <<>> /\ lastFinal = NoTime /\ span = [from |-> 0, to |-> 0]

(* The run's own chunks say when the next one is expected. *)
EndOf(run) == run.source + run.chunks * CHUNK
Newest == audio[Len(audio)]

Expected == EndOf(Newest)

(* recordSent(): the chunk goes on with the run, or begins the next one. *)
RecordSent(gap) ==
    LET now == IF stamps = <<>> THEN 0 ELSE stamps[Len(stamps)] + CHUNK + gap
        goesOn == audio # <<>> /\ Distance(now, Expected) <= TOLERANCE
        new == [cloud |-> Len(stamps), source |-> now, chunks |-> 1]
    IN
    /\ Len(stamps) < MaxChunks
    /\ stamps' = Append(stamps, now)
    /\ audio' = IF goesOn THEN [audio EXCEPT ![Len(audio)].chunks = @ + 1] ELSE Append(audio, new)
    /\ UNCHANGED <<lastFinal, span>>

(* toSourceMs(): c is a time in the audio sent.  What is after it is at its end. *)
ToSource(c) ==
    LET after == {i \in 1..Len(audio) : c < (audio[i].cloud + audio[i].chunks) * CHUNK}
    IN IF c <= 0 THEN audio[1].source
       ELSE IF after = {} THEN EndOf(Newest)
       ELSE LET run == audio[Min(after)] IN run.source + (c - run.cloud * CHUNK)

(* mapWords(): a word never ends before it starts. *)
WordSpan(from, to) == [from |-> ToSource(from), to |-> Max({ToSource(from), ToSource(to)})]

(* boundSegmentInterval(), without words: from the last final, or the first chunk, to the last one. *)
WordlessSpan(received) ==
    LET from == IF lastFinal # NoTime THEN lastFinal ELSE IF audio # <<>> THEN audio[1].source ELSE received
    IN [from |-> from, to |-> IF audio = <<>> THEN from ELSE Max({from, EndOf(Newest)})]

Transcribed(s, final) ==
    /\ span' = s
    /\ lastFinal' = IF final THEN s.to ELSE lastFinal
    /\ UNCHANGED <<audio, stamps>>

TimingNext ==
    \/ \E gap \in Gaps : RecordSent(gap)
    \/ \E from, to \in Offsets, final \in BOOLEAN : audio # <<>> /\ Transcribed(WordSpan(from, to), final)
    \/ \E final \in BOOLEAN : Transcribed(WordlessSpan(0), final)

TimingSpec == TimingInit /\ [][TimingNext]_timingVars

-----------------------------------------------------------------------------
TimingTypeOK ==
    /\ audio \in Seq([cloud: 0..MaxChunks, source: Int, chunks: 1..MaxChunks])
    /\ stamps \in Seq(Int) /\ lastFinal \in Int

(* A word gets the time at which it was said, to the tolerance: however many chunks came late *)
(* before it, and whatever was not sent; and an utterance does not end before it begins.      *)
WordsKeepTheirTime ==
    /\ \A k \in 1..Len(stamps) : Distance(ToSource((k - 1) * CHUNK), stamps[k]) <= TOLERANCE
    /\ span.from <= span.to
=============================================================================
