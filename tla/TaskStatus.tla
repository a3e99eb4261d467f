----------------------------- MODULE TaskStatus -----------------------------
(***************************************************************************)
(* The status column of agent_task_queue and the edges between its values. *)
(* "waiting" abbreviates waiting_local_directory; "absent" is an id that   *)
(* no INSERT has used yet.                                                 *)
(***************************************************************************)

\* The rows the partial unique index idx_one_pending_task_per_issue_agent covers.
Pending == {"queued", "dispatched"}

\* The rows that occupy an agent: counted against max_concurrent_tasks,
\* excluded by ClaimAgentTask, shown as "working".
Active == {"dispatched", "running", "waiting"}

Terminal == {"completed", "failed", "cancelled"}

Live     == Pending \cup Active
Statuses == {"absent"} \cup Live \cup Terminal

\* The WHERE clauses of every statement that writes the column.
Legal ==
  {<<"absent", "queued">>, <<"queued", "dispatched">>, <<"dispatched", "waiting">>,
   <<"dispatched", "running">>, <<"waiting", "running">>, <<"running", "completed">>}
    \cup (Live \X {"failed", "cancelled"})
=============================================================================
