-------------------------------- MODULE Team --------------------------------
(* The runs of one team in TeamService (vscode-extension/src/team-service.ts):  *)
(* the panel's commands, the runs in the background and the record on disk.     *)
(*                                                                             *)
(* The task store is synchronous under its promises, so a command is one        *)
(* action; only a start gives way in the middle, while buildBaseConfig() reads  *)
(* the secrets.  What a run does is Orchestrator; here it works and ends.       *)
EXTENDS Integers

CONSTANTS Runs,      \* run ids, each used once
          MaxHosts   \* bound on restarts of the extension host

None == "none"

ASSUME TeamConstants == MaxHosts \in Nat /\ None \notin Runs

VARIABLES
    record,     \* the status of the team in the task store, None if it has no record
    slot,       \* the entry of the map of active runs
    run,        \* the step each run is at, and whether it was settled
    closed,
    hosts,      \* restarts so far
    raced       \* history: a command came in the middle of a start

teamVars == <<record, slot, run, closed, hosts, raced>>

Statuses == {"idle", "running", "completed", "failed", "cancelled"}

TeamTypeOK ==
    /\ record \in Statuses \cup {None}
    /\ slot \in Runs \cup {None}
    /\ run \in [Runs -> [step : {"unused", "starting", "working", "over"},
                         settled : BOOLEAN]]
    /\ closed \in BOOLEAN /\ raced \in BOOLEAN
    /\ hosts \in 0..MaxHosts

TeamInit ==
    /\ record = None
    /\ slot = None
    /\ run = [r \in Runs |-> [step |-> "unused", settled |-> FALSE]]
    /\ closed = FALSE /\ raced = FALSE
    /\ hosts = 0

Starting == {r \in Runs : run[r].step = "starting"}
Working == {r \in Runs : run[r].step = "working"}
\* persistTeamState(): a record that was removed is not written again.
Persisted(status) == IF record = None THEN None ELSE status

\* createTeam(), whose validations are not about runs.
CreateTeam ==
    /\ ~closed /\ record = None
    /\ \A r \in Runs : run[r].step = "unused"
    /\ record' = "idle"
    /\ UNCHANGED <<slot, run, closed, hosts, raced>>

\* startTeam() up to buildBaseConfig().
StartAsked == record \notin {None, "running"} /\ slot = None

\* retryTeam(): a record that still says "running" is of a host that is gone.
RetryAsked == record \notin {None, "idle", "completed"} /\ slot = None

StartTeam(r) ==
    /\ ~closed /\ run[r].step = "unused"
    /\ StartAsked \/ RetryAsked
    /\ run' = [run EXCEPT ![r].step = "starting"]
    /\ raced' = (raced \/ Starting # {})
    /\ UNCHANGED <<record, slot, closed, hosts>>

\* ... and from there on, whatever has happened in between.
Go(r) ==
    /\ run[r].step = "starting"
    /\ run' = [run EXCEPT ![r].step = "working"]
    /\ slot' = r
    /\ record' = Persisted("running")
    /\ UNCHANGED <<closed, hosts, raced>>

\* Faulty: the run is left to find out by itself.
CancelTeam_Unsettled ==
    /\ ~closed
    /\ slot # None /\ record = "running"
    /\ record' = Persisted("cancelled")
    /\ slot' = None
    /\ raced' = (raced \/ Starting # {})
    /\ UNCHANGED <<run, closed, hosts>>

\* cancelTeam(): the run is settled first.
CancelTeam ==
    /\ ~closed
    /\ slot # None /\ record = "running"
    /\ run' = [run EXCEPT ![slot].settled = TRUE]
    /\ record' = Persisted("cancelled")
    /\ slot' = None
    /\ raced' = (raced \/ Starting # {})
    /\ UNCHANGED <<closed, hosts>>

\* Faulty: the slot is left to the next start.
RunEnds_KeepsSlot(r, verdict) ==
    /\ run[r].step = "working"
    /\ run' = [run EXCEPT ![r].step = "over", ![r].settled = TRUE]
    /\ ~run[r].settled => record' = Persisted(verdict)
    /\ run[r].settled => UNCHANGED record
    /\ UNCHANGED <<slot, closed, hosts, raced>>

\* runInBackground() once execute() has ended.  A cancelled run says nothing more;
\* any other empties the slot, whoever is in it.
RunEnds(r, verdict) ==
    /\ run[r].step = "working"
    /\ run' = [run EXCEPT ![r].step = "over", ![r].settled = TRUE]
    /\ \/ run[r].settled /\ UNCHANGED <<record, slot>>
       \/ /\ ~run[r].settled
          /\ record' = Persisted(verdict)
          /\ slot' = None
    /\ UNCHANGED <<closed, hosts, raced>>

RemoveTeam ==
    /\ ~closed
    /\ record # None /\ slot = None
    /\ record' = None
    /\ raced' = (raced \/ Starting # {})
    /\ UNCHANGED <<slot, run, closed, hosts>>

\* dispose(): the run in the slot is told to stop and forgotten, unsettled.
DisposeService ==
    /\ ~closed
    /\ closed' = TRUE
    /\ slot' = None
    /\ raced' = (raced \/ Starting # {})
    /\ UNCHANGED <<record, run, hosts>>

\* The host is gone, with dispose() or without, and a new one reads the record.
RestartHost ==
    /\ hosts < MaxHosts
    /\ hosts' = hosts + 1
    /\ slot' = None /\ closed' = FALSE
    /\ run' = [r \in Runs |->
                 IF r \in Starting \cup Working
                 THEN [run[r] EXCEPT !.step = "over", !.settled = TRUE] ELSE run[r]]
    /\ UNCHANGED <<record, raced>>

TeamNext ==
    \/ CreateTeam
    \/ \E r \in Runs : StartTeam(r) \/ Go(r)
    \/ CancelTeam
    \/ \E r \in Runs, verdict \in {"completed", "failed"} : RunEnds(r, verdict)
    \/ RemoveTeam
    \/ DisposeService
    \/ RestartHost

TeamSpec == TeamInit /\ [][TeamNext]_teamVars

---------------------------------------------------------------------------
\* While no command comes in the middle of a start, every run that may still write
\* the record is the one that cancelTeam() and removeTeam() find in the slot, and
\* the record of a team with a run says "running".
RunIsReachable ==
    ~raced /\ ~closed =>
        /\ \A r \in Working : run[r].settled \/ slot = r
        /\ slot # None => slot \in Working /\ record = "running"

\* "cancellation stays authoritative" (team-service.ts:684): a cancelled team stays
\* cancelled until it is started again or removed.
StaysCancelled ==
    record = "cancelled"
      => record' \in {"cancelled", None} \/ \E r \in Runs : Go(r)

\* That holds while no command comes in the middle of a start; of two starts that
\* overlap only the later is cancelled, and the earlier writes its own end.
CancellationHolds == [][~raced => StaysCancelled]_teamVars
=============================================================================
