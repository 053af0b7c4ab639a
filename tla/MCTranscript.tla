----------------------------- MODULE MCTranscript -----------------------------
(***************************************************************************)
(* An instance of Transcript.                                              *)
(***************************************************************************)
EXTENDS Transcript

CONSTANTS r1, r2, a, b

MCReaders == {r1, r2}
MCCalls   == {a, b}

\* Threads and tool calls are only compared.
MCSymmetry == Permutations(MCReaders) \cup Permutations(MCCalls)
=============================================================================
