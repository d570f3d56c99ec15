------------------------------ MODULE ClaimLog ------------------------------
(***************************************************************************)
(* What one asserter's log promises its callers: an append-only sequence   *)
(* of lines that readers see grow one whole line at a time, and of which   *)
(* no acknowledged line is ever lost, not even to a power failure.         *)
(* LogWriter, the read / write-tmp / fsync / rename / fsync-dir protocol   *)
(* of claim/src/log.rs, is shown to implement it.                          *)
(***************************************************************************)
EXTENDS Sequences, SequencesExt

CONSTANT Line        \* the claim documents that may be appended

VARIABLES
  visible,           \* the lines a reader of log.jsonl sees
  durable,           \* the lines it would see after a power failure
  acked              \* the lines whose append has returned Ok

vars == <<visible, durable, acked>>

\* Types: logs and acknowledgements hold claims, as lines of the asserter.
TypeOK ==
  /\ visible \in Seq(Line)
  /\ durable \in Seq(Line)
  /\ acked \subseteq Line

Init ==
  /\ visible = <<>>
  /\ durable = <<>>
  /\ acked = {}

\* A line becomes readable; it is not yet promised to survive a power failure.
Publish(l) ==
  /\ visible' = Append(visible, l)
  /\ UNCHANGED <<durable, acked>>

\* The operating system writes the directory back on its own.
Flush ==
  /\ durable' = visible
  /\ UNCHANGED <<visible, acked>>

\* The append of l returns: by then l, and all that precedes it, is durable.
Return(l) ==
  /\ l \in ToSet(visible)
  /\ durable' = visible
  /\ acked' = acked \cup {l}
  /\ UNCHANGED visible

PowerLoss ==
  /\ visible' = durable
  /\ UNCHANGED <<durable, acked>>

Next ==
  \/ \E l \in Line : Publish(l) \/ Return(l)
  \/ Flush
  \/ PowerLoss

Spec == Init /\ [][Next]_vars
=============================================================================
