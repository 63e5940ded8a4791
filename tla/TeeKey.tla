------------------------------- MODULE TeeKey -------------------------------
(***************************************************************************)
(* The key of the TEE service, kept in a file between restarts:            *)
(* load_or_generate_tee_key of flashtestations/service.rs over             *)
(* try_from_file and write_to_file of signer.rs, with crashes at every     *)
(* step. A file that is empty or holds part of a key cannot be parsed.     *)
(***************************************************************************)
EXTENDS Naturals, Sequences

CONSTANTS
  MaxKeys,    \* bound on the keys generated in a behaviour
  MaxStarts   \* bound on the starts of the process

NoKey == 0

VARIABLES
  exists,     \* the file exists
  content,    \* the key it holds, NoKey when it is empty or torn
  proc,       \* where the process stands
  key,        \* the key in its memory
  generated,  \* keys generated so far
  starts,     \* starts so far
  lost,       \* since the last service a sound file went unread or was removed
  used        \* the keys served with, and whether each followed such a loss

vars == <<exists, content, proc, key, generated, starts, lost, used>>

TypeOK ==
  /\ exists \in BOOLEAN
  /\ content \in 0..MaxKeys /\ key \in 0..MaxKeys
  /\ proc \in {"down", "loading", "generating", "opening", "writing", "running"}
  /\ generated \in 0..MaxKeys /\ starts \in 0..MaxStarts
  /\ lost \in BOOLEAN
  /\ used \in Seq([key : 1..MaxKeys, lost : BOOLEAN])

----------------------------------------------------------------------------
Init ==
  /\ exists = FALSE /\ content = NoKey
  /\ proc = "down" /\ key = NoKey
  /\ generated = 0 /\ starts = 0
  /\ lost = FALSE
  /\ used = <<>>

Start ==
  /\ proc = "down"
  /\ starts < MaxStarts
  /\ starts' = starts + 1
  /\ proc' = "loading"
  /\ UNCHANGED <<exists, content, key, generated, lost, used>>

\* load_or_generate_tee_key returns k and the program goes on with it.
Serve(k) ==
  /\ proc' = "running"
  /\ key' = k
  /\ used' = Append(used, [key |-> k, lost |-> lost])
  /\ lost' = FALSE

\* Mutant of Load: whatever the file holds is a key.
LoadUnparsed ==
  /\ proc = "loading"
  /\ exists
  /\ Serve(content)
  /\ UNCHANGED <<exists, content, generated, starts>>

Load ==
  /\ proc = "loading"
  /\ exists /\ content # NoKey
  /\ Serve(content)
  /\ UNCHANGED <<exists, content, generated, starts>>

\* No file, a file that cannot be parsed, or any error in reading a sound one:
\* each of them leads to a new key.
LoadFails ==
  /\ proc = "loading"
  /\ proc' = "generating"
  /\ lost' = (lost \/ (exists /\ content # NoKey))
  /\ UNCHANGED <<exists, content, key, generated, starts, used>>

Generate ==
  /\ proc = "generating"
  /\ generated < MaxKeys
  /\ generated' = generated + 1
  /\ key' = generated'
  /\ proc' = "opening"
  /\ UNCHANGED <<exists, content, starts, lost, used>>

\* create and truncate
Open ==
  /\ proc = "opening"
  /\ exists' = TRUE
  /\ content' = NoKey
  /\ proc' = "writing"
  /\ UNCHANGED <<key, generated, starts, lost, used>>

\* write_all
Write ==
  /\ proc = "writing"
  /\ content' = key
  /\ Serve(key)
  /\ UNCHANGED <<exists, generated, starts>>

\* Mutant of WriteFails: the error is only logged.
WriteFailureIgnored ==
  /\ proc \in {"opening", "writing"}
  /\ Serve(key)
  /\ UNCHANGED <<exists, content, generated, starts>>

\* The error ends the start of the program.
WriteFails ==
  /\ proc \in {"opening", "writing"}
  /\ proc' = "down"
  /\ key' = NoKey
  /\ UNCHANGED <<exists, content, generated, starts, lost, used>>

\* The process ends, wherever it stands.
Crash ==
  /\ proc # "down"
  /\ proc' = "down"
  /\ key' = NoKey
  /\ UNCHANGED <<exists, content, generated, starts, lost, used>>

\* The file's directory, /run by default, does not outlive the machine's boot.
FileRemoved ==
  /\ proc = "down"
  /\ exists
  /\ exists' = FALSE
  /\ lost' = (lost \/ content # NoKey)
  /\ content' = NoKey
  /\ UNCHANGED <<proc, key, generated, starts, used>>

LoadOrGenerate ==
  \/ Start
  \/ Load
  \/ LoadFails
  \/ Generate
  \/ Open
  \/ Write
  \/ WriteFails
  \/ FileRemoved

Next == LoadOrGenerate \/ Crash

Spec == Init /\ [][Next]_vars
=============================================================================
