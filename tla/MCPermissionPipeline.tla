------------------------ MODULE MCPermissionPipeline ------------------------
(* Instances of PermissionPipeline for TLC.                                   *)
EXTENDS PermissionPipeline

Op(action, print, scoped, critical, blocked, escapes) ==
    [action |-> action, print |-> print, scoped |-> scoped,
     critical |-> critical, blocked |-> blocked, escapes |-> escapes]

\* Two commands that may run, one of them critical; one that the command
\* policy blocks; one that leaves the workspace.
MCProfile ==
    [op \in Ops |->
       CASE op = "test"  -> Op("exec", "test",  TRUE,  FALSE, FALSE, FALSE)
         [] op = "sudo"  -> Op("exec", "sudo",  TRUE,  TRUE,  FALSE, FALSE)
         [] op = "wipe"  -> Op("exec", "wipe",  TRUE,  TRUE,  TRUE,  FALSE)
         [] op = "leave" -> Op("exec", "leave", TRUE,  FALSE, FALSE, TRUE)]

\* A call of a task, and one that names neither session nor task.
MCOrigins == {[session |-> "s1", task |-> "t1"],
              [session |-> "none", task |-> "none"]}

Policy(id, actions, decision, priority) ==
    [id |-> id, actions |-> actions, decision |-> decision,
     priority |-> priority, enabled |-> TRUE]

\* A deny below an allow that only decides to ask.
MCPolicies == {Policy("no", {"exec"}, "deny_session", 1),
               Policy("ok", {}, "allow_session", 2)}
=============================================================================
