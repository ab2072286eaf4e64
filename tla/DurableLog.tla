----------------------------- MODULE DurableLog ------------------------------
(***************************************************************************)
(* What the recorder promises to whoever reads its archive: one log per    *)
(* process that only grows while that process lives, runs whose outcome is *)
(* decided once, and an acknowledged prefix that is really in the log.     *)
(*                                                                         *)
(* A crash is an action of the specification: the next process gets a log  *)
(* of its own, every undecided run becomes interrupted, and nothing that   *)
(* was acknowledged can change any more.                                   *)
(***************************************************************************)
EXTENDS Naturals, Sequences, SequencesExt

VARIABLES
    log,       \* records of each boot, in order
    outcome,   \* runs of each boot: "recording" until decided
    acked      \* how much of the current log the owner was told is durable

logVars == <<log, outcome, acked>>

\* A decided run keeps its outcome; a new one starts as recording.
Decided(before, after) ==
    /\ Len(before) <= Len(after)
    /\ \A r \in DOMAIN before : before[r] # "recording" => after[r] = before[r]
    /\ \A r \in DOMAIN after : after[r] \in {"recording", "sealed", "failed"}

LogInit == log = <<<<>>>> /\ outcome = <<<<>>>> /\ acked = 0

\* One committed transaction: records are appended, runs opened or decided.
Write ==
    /\ Front(log') = Front(log) /\ Len(log') = Len(log)
    /\ IsPrefix(Last(log), Last(log'))
    /\ Front(outcome') = Front(outcome) /\ Len(outcome') = Len(outcome)
    /\ Decided(Last(outcome), Last(outcome'))
    /\ UNCHANGED acked

\* The owner learns how far the log is durable.
Acknowledge ==
    /\ acked < acked' /\ acked' <= Len(Last(log))
    /\ UNCHANGED <<log, outcome>>

\* The next process: its log is empty, what was undecided is interrupted.
Reopen ==
    /\ log' = Append(log, <<>>)
    /\ outcome' = Append([b \in DOMAIN outcome |->
                            [r \in DOMAIN outcome[b] |->
                                IF outcome[b][r] = "recording" THEN "interrupted"
                                ELSE outcome[b][r]]], <<>>)
    /\ acked' = 0

LogNext == Write \/ Acknowledge \/ Reopen

LogSpec == LogInit /\ [][LogNext]_logVars
=============================================================================
