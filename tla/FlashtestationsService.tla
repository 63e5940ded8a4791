------------------------ MODULE FlashtestationsService ------------------------
(***************************************************************************)
(* Flashtestations over the restarts of the program: the manager is made   *)
(* with the key that TeeKey loads or generates, and what the program does  *)
(* on the chain outlives it.                                               *)
(***************************************************************************)
EXTENDS Flashtestations, FiniteSets

CONSTANTS MaxKeys, MaxStarts

ASSUME ServiceAssumption == MaxKeys \in Nat \ {0} /\ MaxStarts \in Nat \ {0}

VARIABLES exists, content, proc, generated, starts, lost, used

keyVars == <<exists, content, proc, teeSigner, generated, starts, lost, used>>
ftVars == <<arguments, attestation, chainVars, jobVars>>
vars == <<keyVars, ftVars>>

Key == INSTANCE TeeKey WITH key <- teeSigner

Init == Key!Init /\ FlashtestationsInit

\* The step works while the program runs.
Serving == proc = "running" /\ Job /\ UNCHANGED keyVars

Starting == Key!LoadOrGenerate /\ UNCHANGED ftVars

Crash == Key!Crash /\ Restart

Next == Serving \/ Starting \/ Crash

Spec == Init /\ [][Next]_vars

----------------------------------------------------------------------------
TypeOK == Key!TypeOK /\ FlashtestationsTypeOK

\* The program never works on a block with a key that the file does not hold:
\* whatever step it crashed or failed at before, the next start finds that key.
WorksWithSavedKey == phase # "idle" => exists /\ content = teeSigner

\* "save ephemeral TEE key between restarts" (flashtestations/args.rs:39): two
\* services that follow one another use one key, unless a sound file could not be
\* read or was removed in between; crashes alone never change the key.
KeySurvivesCrashes ==
  \A i \in 2..Len(used) : used[i].key # used[i - 1].key => used[i].lost

\* The registry gets one more TEE address at most for each such loss: failed
\* starts, crashes and discarded blocks never register a second one.
OneAddressPerKeyFile ==
  Cardinality(chain.registered) <= 1 + Cardinality({i \in 2..Len(used) : used[i].lost})
=============================================================================
