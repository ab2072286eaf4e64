--------------------------- MODULE RecorderArchive ---------------------------
(***************************************************************************)
(* The SQLite archive of the recorder (recorder/sqlite): what one database *)
(* file holds and what each command of the storage worker may commit.      *)
(*                                                                         *)
(* The file is a sequence of boots, one per process that opened it.  A     *)
(* boot is its state, its records in record_seq order (record_seq is the   *)
(* position) and its runs.  Every commit is one SQL transaction, so it is  *)
(* applied whole or not at all, and a process that dies loses only what is *)
(* outside the file.  The worker's connection adds two volatile fields:    *)
(* the open run and the coverage_gap flag.  Rows carry only what later     *)
(* reads tell apart: their kind, the run they belong to (0: none) and one  *)
(* item.  One recording interval exists per run, so intervals are not kept *)
(* apart from runs.                                                        *)
(***************************************************************************)
EXTENDS Integers, Sequences, SequencesExt

\* runtime_boots, records and runs of one process.
Boot(state, records, runs) == [state |-> state, records |-> records, runs |-> runs]

\* A run row as start_run_impl inserts it; end is its end_seq (0: none).
OpenRun == [state |-> "recording", coverage |-> "complete", end |-> 0]

\* Opening the file makes every run an earlier process left open an unknown tail ...
InterruptedRun(run) ==
    IF run.state = "recording"
    THEN [run EXCEPT !.state = "interrupted", !.coverage = "unknown_tail"]
    ELSE run

\* ... and its boot, when it was not sealed, interrupted.
Interrupted(boot) ==
    [boot EXCEPT !.state = IF @ = "active" THEN "interrupted" ELSE @,
                 !.runs = [r \in DOMAIN @ |-> InterruptedRun(@[r])]]

\* Mutant: opening the file leaves the runs of the dead process open.
OpenLeavesRuns(file) ==
    Append([b \in DOMAIN file |->
              [file[b] EXCEPT !.state = IF @ = "active" THEN "interrupted" ELSE @]],
           Boot("active", <<>>, <<>>))

\* SqliteStore::open_with_boot_anchor: recover what is left, insert this boot.
OpenBoot(file) ==
    Append([b \in DOMAIN file |-> Interrupted(file[b])], Boot("active", <<>>, <<>>))

\* The worker's connection over an opened file.
Connection(file) == [file |-> file, run |-> 0, gap |-> FALSE]

CurrentBoot(store) == store.file[Len(store.file)]

\* next_record_sequence: records are appended at the next identity only.
NextRecord(store) == Len(CurrentBoot(store).records) + 1

\* The rows of one command, charged to the run it is committed in.
RowsOf(message, run) ==
    [i \in DOMAIN message.rows |->
        [kind |-> message.rows[i].kind, item |-> message.rows[i].item, run |-> run]]

\* A recording_stop terminal may be recorded after its run was sealed.
LifecycleTerminal(message) ==
    \E i \in DOMAIN message.rows :
        /\ message.rows[i].kind = "operation"
        /\ message.rows[i].item.command = "recording_stop"
        /\ message.rows[i].item.phase # "accepted"

\* Every *_assigned command requires next_record_sequence + 1 = its first identity.
AtAssignedIdentity(store, message) ==
    message.rows # <<>> => message.first = NextRecord(store)

\* The guards of the commands on the open run and the boot.
RunGuard(store, message) ==
    CASE message.kind \in {"facts", "completion", "annotation", "probe", "gap", "stop"} ->
             store.run # 0
      [] message.kind \in {"operation", "accepted"} ->
             store.run # 0 \/ LifecycleTerminal(message)
      [] message.kind = "start" -> store.run = 0
      [] message.kind = "finish" -> store.run = 0 /\ CurrentBoot(store).state = "active"
      [] message.kind \in {"activation", "clock"} -> TRUE

Accepts(store, message) ==
    AtAssignedIdentity(store, message) /\ RunGuard(store, message)

\* The rows of a command entered into the current boot.
WithRows(store, message, run) ==
    [store EXCEPT !.file[Len(store.file)].records = @ \o RowsOf(message, run)]

\* start_run_impl: the boundary and the start anchor belong to the new run.
StartRun(store, message) ==
    LET run == Len(CurrentBoot(store).runs) + 1 IN
    [WithRows(store, message, run) EXCEPT
        !.run = run,
        !.file[Len(store.file)].runs = Append(@, OpenRun)]

\* The open run leaves the connection with the given state and coverage.
RunEnded(store, message, state, coverage) ==
    LET last == Len(store.file)
        end == Len(CurrentBoot(store).records) + Len(message.rows) IN
    [WithRows(store, message, store.run) EXCEPT
        !.run = 0,
        !.file[last].runs[store.run] =
            [state |-> state, coverage |-> coverage, end |-> end]]

\* stop_run_impl leaves the coverage column as start_run_impl wrote it.
StopRun(store, message) ==
    RunEnded(store, message, "sealed", CurrentBoot(store).runs[store.run].coverage)

\* fail_run: the gap seal ends the run and marks the connection.
FailRun(store, message) ==
    [RunEnded(store, message, "failed", "gap") EXCEPT !.gap = TRUE]

\* finish_boot_with_summary: the terminal clock and shutdown rows seal the boot.
FinishBoot(store, message) ==
    [WithRows(store, message, 0) EXCEPT !.file[Len(store.file)].state = "sealed"]

\* append_fact_groups, append_operation, append_annotation, append_clock_anchor,
\* commit_activation_lifecycle: rows of the open run, if any; probe has none.
AppendRows(store, message) == WithRows(store, message, store.run)

\* One committed transaction of the worker.
Committed(store, message) ==
    CASE message.kind = "start" -> StartRun(store, message)
      [] message.kind = "stop" -> StopRun(store, message)
      [] message.kind = "gap" -> FailRun(store, message)
      [] message.kind = "finish" -> FinishBoot(store, message)
      [] OTHER -> AppendRows(store, message)

\* Several fact groups share one transaction (append_fact_groups_assigned).
CommittedBatch(store, batch) ==
    Committed(store, [kind |-> "facts", first |-> batch[1].first,
                      rows |-> FlattenSeq([i \in DOMAIN batch |-> batch[i].rows])])

\* The worker checks that the groups of a batch are contiguous before the SQL.
Aligned(batch) ==
    \A i \in 1..(Len(batch) - 1) : batch[i + 1].first = batch[i].first + Len(batch[i].rows)
=============================================================================
