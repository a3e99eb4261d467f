--------------------------- MODULE DesktopDaemon ---------------------------
(***************************************************************************)
(* How the desktop application drives the daemon of its machine            *)
(* (main/daemon-manager.ts): which user's token the daemon runs with, and  *)
(* which state the application shows.                                      *)
(*                                                                         *)
(* The renderer calls the main process when a user logs in or out and when *)
(* a button is pressed.  Every call runs as a job of asynchronous steps;   *)
(* only the buttons and the stop of a logout respect operationInProgress,  *)
(* so jobs overlap.  The token of the profile and the user it was minted   *)
(* for are two files.  The daemon reads the token once, when it boots.     *)
(*                                                                         *)
(* The CLI is installed and the daemon runs on this machine: the set-up of *)
(* the CLI, foreign daemons and restarts for a new version are left out.   *)
(***************************************************************************)
EXTENDS Naturals, Sequences, FiniteSets

CONSTANTS
  Users, None,
  Slots,        \* bound: jobs under way at a time are 1..Slots
  MaxActs,      \* bound: what users, networks and crashes may do
  ProbesFail    \* the request that probes the token may fail

VARIABLES
  session,      \* the user who is logged in
  token, owner, \* config.json's PAT; .desktop-user-id
  daemon,       \* the daemon's status, and the token it booted with
  state,        \* currentState
  guard,        \* operationInProgress
  probed, expired, since, \* authProbeDone, authExpired, startingSince # null
  jobs,
  assured,      \* whether a probe of this attempt found the token accepted
  refused,      \* whether the last boot ended because the server refused the token
  slips,        \* what has happened that the code has no answer to
  acts

files == <<token, owner>>
probe == <<probed, expired, since, assured>>
app   == <<state, guard, probe>>
vars  == <<session, files, daemon, app, jobs, refused, slips, acts>>

\* A PAT: whose it is, and whether the server still accepts it.
Pat == [user : Users, ok : BOOLEAN]

NoDaemon == [status |-> "none", token |-> None]

Steps == {"readConfig", "readOwner", "mint", "writeConfig", "writeOwner", "switch", "readToken",
          "clearConfig", "clearOwner", "enter", "release", "auto", "start", "spawn", "wait",
          "stop", "kill", "stopped", "answer"}

Jobs == [todo : Seq(Steps), user : Users \cup {None}, token : Pat \cup {None},
         owner : Users \cup {None}, booting : BOOLEAN]

\* None is no user, no PAT and no job.
ASSUME DaemonAssumption ==
  /\ None \notin Users /\ None \notin Pat /\ None \notin Jobs
  /\ Slots \in Nat \ {0} /\ MaxActs \in Nat /\ ProbesFail \in BOOLEAN

Alive == daemon.status # "none"

Usable(t) == t # None /\ t.ok

-----------------------------------------------------------------------------
(* Jobs: what they still have to do, for whom, and what they read *)

\* Mutant of SyncToken: the owner is written first.
SyncOwnerFirst == <<"readConfig", "readOwner", "mint", "writeOwner", "writeConfig", "switch">>

SyncToken  == <<"readConfig", "readOwner", "mint", "writeConfig", "writeOwner", "switch">>
ClearToken == <<"readToken", "clearConfig", "clearOwner">>
StartDaemon == <<"start", "spawn", "wait">>
StopDaemon == <<"stop", "kill", "stopped">>
RestartDaemon == StopDaemon \o StartDaemon

Login  == SyncToken \o <<"auto">>
Logout == ClearToken \o <<"enter">> \o StopDaemon \o <<"release">>
Reauthenticate == ClearToken \o SyncToken \o RestartDaemon
Guarded(steps) == <<"enter">> \o steps \o <<"release">>

Job(steps, u) ==
  [todo |-> steps, user |-> u, token |-> None, owner |-> None, booting |-> FALSE]

Free == {i \in DOMAIN jobs : jobs[i] = None}

\* The jobs besides the probes.
Busy == \E i \in DOMAIN jobs : jobs[i] # None /\ jobs[i].todo[1] # "answer"

Has(i, S) == jobs[i] # None /\ \E k \in DOMAIN jobs[i].todo : jobs[i].todo[k] \in S

\* The steps that read or write the two files, and the one that follows them.
FileSteps == {"readConfig", "readOwner", "mint", "writeConfig", "writeOwner", "switch",
              "readToken", "clearConfig", "clearOwner"}

Synchronising == \E i \in DOMAIN jobs : Has(i, FileSteps)
Operating     == \E i \in DOMAIN jobs : Has(i, {"release"})
Switching     == \E i \in DOMAIN jobs : Has(i, {"switch", "kill"})

\* "overlap": a session began or ended beside a synchronisation or a logout, or ended
\* beside an operation; "mint": no PAT was minted; "cut": the application ended before it
\* had switched the daemon.  A logout that overlaps nothing clears them.
Slip(bad, what) == slips' = slips \cup IF bad THEN {what} ELSE {}

\* The job at i goes on as j.
Goes(js, i, j) == [js EXCEPT ![i] = IF j.todo = <<>> THEN None ELSE j]
Next1(j) == [j EXCEPT !.todo = Tail(@)]
Begins(js, j) == [js EXCEPT ![CHOOSE i \in DOMAIN js : js[i] = None] = j]

At(i, step) == jobs[i] # None /\ jobs[i].todo[1] = step
Continue(i) == jobs' = Goes(jobs, i, Next1(jobs[i]))

-----------------------------------------------------------------------------
(* syncToken and clearToken *)

ReadConfig(i) ==
  /\ At(i, "readConfig")
  /\ jobs' = Goes(jobs, i, [Next1(jobs[i]) EXCEPT !.token = token])
  /\ UNCHANGED <<session, files, daemon, app, refused, slips, acts>>

ReadOwner(i) ==
  /\ At(i, "readOwner")
  /\ jobs' = Goes(jobs, i, [Next1(jobs[i]) EXCEPT !.owner = owner])
  /\ UNCHANGED <<session, files, daemon, app, refused, slips, acts>>

\* sameUserWithCachedPat
Reuses(j) == j.owner = j.user /\ j.token # None

UserChanged(j) == j.owner # None /\ j.owner # j.user

Mint(i) ==
  /\ At(i, "mint")
  /\ LET j == jobs[i]
     IN  jobs' = Goes(jobs, i,
           IF Reuses(j) THEN Next1(j) ELSE [Next1(j) EXCEPT !.token = [user |-> j.user, ok |-> TRUE]])
  /\ UNCHANGED <<session, files, daemon, app, refused, slips, acts>>

\* No PAT is minted: the job ends.
MintFails(i) ==
  /\ At(i, "mint") /\ ~Reuses(jobs[i])
  /\ acts < MaxActs /\ acts' = acts + 1
  /\ jobs' = [jobs EXCEPT ![i] = None]
  /\ Slip(TRUE, "mint")
  /\ UNCHANGED <<session, files, daemon, app, refused>>

WriteConfig(i) ==
  /\ At(i, "writeConfig")
  /\ token' = jobs[i].token
  /\ Continue(i)
  /\ UNCHANGED <<session, owner, daemon, app, refused, slips, acts>>

WriteOwner(i) ==
  /\ At(i, "writeOwner")
  /\ owner' = jobs[i].user
  /\ Continue(i)
  /\ UNCHANGED <<session, token, daemon, app, refused, slips, acts>>

\* Mutant of Switch: a daemon that still boots is left alone.
SwitchWhenReady(i) ==
  /\ At(i, "switch")
  /\ LET next == Goes(jobs, i, Next1(jobs[i]))
     IN  IF UserChanged(jobs[i]) /\ daemon.status = "running"
         THEN /\ \E k \in DOMAIN next : next[k] = None
              /\ jobs' = Begins(next, Job(RestartDaemon, jobs[i].user))
         ELSE jobs' = next
  /\ UNCHANGED <<session, files, daemon, app, refused, slips, acts>>

\* A daemon that booted with the token of another user is restarted, by a job
\* nobody waits for.
Switch(i) ==
  /\ At(i, "switch")
  /\ LET next == Goes(jobs, i, Next1(jobs[i]))
     IN  IF UserChanged(jobs[i]) /\ Alive
         THEN /\ \E k \in DOMAIN next : next[k] = None
              /\ jobs' = Begins(next, Job(RestartDaemon, jobs[i].user))
         ELSE jobs' = next
  /\ UNCHANGED <<session, files, daemon, app, refused, slips, acts>>

ReadToken(i) ==
  /\ At(i, "readToken")
  /\ jobs' = Goes(jobs, i, [Next1(jobs[i]) EXCEPT !.token = token])
  /\ UNCHANGED <<session, files, daemon, app, refused, slips, acts>>

\* A config without a token is not written.
ClearConfig(i) ==
  /\ At(i, "clearConfig")
  /\ token' = IF jobs[i].token = None THEN token ELSE None
  /\ Continue(i)
  /\ UNCHANGED <<session, owner, daemon, app, refused, slips, acts>>

ClearOwner(i) ==
  /\ At(i, "clearOwner")
  /\ owner' = None
  /\ Continue(i)
  /\ UNCHANGED <<session, token, daemon, app, refused, slips, acts>>

-----------------------------------------------------------------------------
(* Starting and stopping *)

\* Mutant of Enter: an operation does not look whether another is in progress.
EnterAnyway(i) ==
  /\ At(i, "enter")
  /\ Continue(i) /\ guard' = TRUE
  /\ UNCHANGED <<session, files, daemon, state, probe, refused, slips, acts>>

\* withGuard: an operation is refused while another is in progress.
Enter(i) ==
  /\ At(i, "enter")
  /\ IF guard THEN jobs' = [jobs EXCEPT ![i] = None] /\ UNCHANGED guard
     ELSE Continue(i) /\ guard' = TRUE
  /\ UNCHANGED <<session, files, daemon, state, probe, refused, slips, acts>>

Release(i) ==
  /\ At(i, "release")
  /\ guard' = FALSE
  /\ Continue(i)
  /\ UNCHANGED <<session, files, daemon, state, probe, refused, slips, acts>>

\* auto-start: nothing to do if the daemon is ready or the user does not want it.
AutoStart(i) ==
  /\ At(i, "auto")
  /\ \/ jobs' = Goes(jobs, i, Next1(jobs[i]))
     \/ daemon.status # "running" /\ jobs' = Goes(jobs, i, [jobs[i] EXCEPT !.todo = StartDaemon])
  /\ UNCHANGED <<session, files, daemon, app, refused, slips, acts>>

\* The rest of startDaemon is skipped; an operation still gives the guard back.
SkipStart(j) ==
  [j EXCEPT !.todo = IF @[Len(@)] = "release" THEN <<"release">> ELSE <<>>]

\* Mutant of Start: the probe of the last attempt counts for this one.
StartProbedBefore(i) ==
  /\ At(i, "start")
  /\ IF Alive THEN jobs' = Goes(jobs, i, SkipStart(jobs[i])) /\ UNCHANGED <<state, probe>>
     ELSE /\ Continue(i)
          /\ state' = "starting" /\ since' = TRUE
          /\ expired' = FALSE /\ assured' = FALSE /\ UNCHANGED probed
  /\ UNCHANGED <<session, files, daemon, guard, refused, slips, acts>>

\* startDaemon
Start(i) ==
  /\ At(i, "start")
  /\ IF Alive THEN jobs' = Goes(jobs, i, SkipStart(jobs[i])) /\ UNCHANGED <<state, probe>>
     ELSE /\ Continue(i)
          /\ state' = "starting" /\ since' = TRUE
          /\ probed' = FALSE /\ expired' = FALSE /\ assured' = FALSE
  /\ UNCHANGED <<session, files, daemon, guard, refused, slips, acts>>

\* `multica daemon start`: an error if a daemon is there; else a daemon that reads
\* the token, and exits if there is none.
Spawn(i) ==
  /\ At(i, "spawn")
  /\ IF Alive
     THEN /\ state' = "stopped" /\ UNCHANGED <<daemon, refused>>
          /\ jobs' = Goes(jobs, i, SkipStart(jobs[i]))
     ELSE /\ UNCHANGED state /\ Continue(i)
          /\ daemon' = IF token = None THEN NoDaemon ELSE [status |-> "starting", token |-> token]
          /\ refused' = (token = None)
  /\ UNCHANGED <<session, files, guard, probe, slips, acts>>

\* The command returns 0 when the daemon is ready, and when it has waited in vain.
Wait(i) ==
  /\ At(i, "wait")
  /\ Continue(i)
  /\ UNCHANGED <<session, files, daemon, app, refused, slips, acts>>

\* stopDaemon
Stop(i) ==
  /\ At(i, "stop")
  /\ state' = "stopping" /\ expired' = FALSE /\ since' = FALSE
  /\ Continue(i)
  /\ UNCHANGED <<session, files, daemon, guard, probed, assured, refused, slips, acts>>

\* `multica daemon stop`
Kill(i) ==
  /\ At(i, "kill")
  /\ daemon' = NoDaemon /\ refused' = FALSE
  /\ Continue(i)
  /\ UNCHANGED <<session, files, app, slips, acts>>

Stopped(i) ==
  /\ At(i, "stopped")
  /\ state' = "stopped"
  /\ Continue(i)
  /\ UNCHANGED <<session, files, daemon, guard, probe, refused, slips, acts>>

-----------------------------------------------------------------------------
(* The daemon *)

Boots ==
  /\ daemon.status = "starting" /\ daemon.token.ok
  /\ daemon' = [daemon EXCEPT !.status = "running"]
  /\ UNCHANGED <<session, files, app, jobs, refused, slips, acts>>

BootRefused ==
  /\ daemon.status = "starting" /\ ~daemon.token.ok
  /\ daemon' = NoDaemon /\ refused' = TRUE
  /\ UNCHANGED <<session, files, app, jobs, slips, acts>>

\* The user revokes the tokens of the desktop.
Revoked(t) == IF t = None THEN None ELSE [t EXCEPT !.ok = FALSE]

Revoke ==
  /\ acts < MaxActs /\ acts' = acts + 1
  /\ token' = Revoked(token)
  /\ daemon' = [daemon EXCEPT !.token = Revoked(@)]
  /\ jobs' = [i \in DOMAIN jobs |->
                IF jobs[i] = None THEN None ELSE [jobs[i] EXCEPT !.token = Revoked(@)]]
  /\ UNCHANGED <<session, owner, app, refused, slips>>

-----------------------------------------------------------------------------
(* pollOnce *)

\* What fetchHealth reports of a daemon that is not ready.
Reported(booting, isExpired) ==
  IF isExpired THEN "auth_expired"
  ELSE IF booting \/ state = "starting" THEN "starting" ELSE "stopped"

MayProbe == state = "starting" /\ ~expired /\ ~probed /\ since

Poll ==
  /\ IF daemon.status = "running"
     THEN state' = "running" /\ expired' = FALSE /\ since' = FALSE
     ELSE state' = Reported(Alive, expired) /\ UNCHANGED <<expired, since>>
  /\ UNCHANGED <<session, files, daemon, guard, probed, assured, jobs, refused, slips, acts>>

\* A poll after the grace period reads the token and asks the server.
Probe ==
  /\ daemon.status # "running" /\ MayProbe /\ Free # {}
  /\ probed' = TRUE
  /\ jobs' = Begins(jobs, [Job(<<"answer">>, None) EXCEPT !.token = token, !.booting = Alive])
  /\ UNCHANGED <<session, files, daemon, state, guard, expired, since, assured, refused, slips, acts>>

\* classifyAuthProbe, and the rest of the poll.
Answer(i) ==
  /\ At(i, "answer")
  /\ \E is \in {expired \/ ~Usable(jobs[i].token)} \cup (IF ProbesFail THEN {expired} ELSE {}) :
       expired' = is /\ state' = Reported(jobs[i].booting, is)
  /\ assured' = Usable(jobs[i].token)
  /\ Continue(i)
  /\ UNCHANGED <<session, files, daemon, guard, probed, since, refused, slips, acts>>

-----------------------------------------------------------------------------
(* Users *)

Acts(steps, u) ==
  /\ acts < MaxActs /\ acts' = acts + 1
  /\ Free # {}
  /\ jobs' = Begins(jobs, Job(steps, u))

\* From the login page, or over another session by a link.
LogIn(u) ==
  /\ session # u
  /\ Acts(Login, u)
  /\ session' = u
  /\ Slip(Synchronising \/ (session = None /\ Busy), "overlap")
  /\ UNCHANGED <<files, daemon, app, refused>>

LogOut ==
  /\ session # None
  /\ Acts(Logout, None)
  /\ session' = None
  /\ slips' = IF Synchronising \/ Operating THEN {"overlap"} ELSE {}
  /\ UNCHANGED <<files, daemon, app, refused>>

\* The buttons of the runtime card, by the state it shows, and, in any state, the
\* restart for the first workspace.
Press ==
  /\ session # None
  /\ \/ state = "stopped" /\ Acts(Guarded(StartDaemon), session)
     \/ state = "running" /\ Acts(Guarded(StopDaemon), session)
     \/ Acts(Guarded(RestartDaemon), session)
  /\ UNCHANGED <<session, files, daemon, app, refused, slips>>

Reauth ==
  /\ session # None /\ state = "auth_expired"
  /\ Acts(Reauthenticate, session)
  /\ Slip(Synchronising, "overlap")
  /\ UNCHANGED <<session, files, daemon, app, refused>>

\* The application ends at any point and is started again: it restores the session,
\* or, if there is none or it cannot be restored, runs a logout.
Relaunch ==
  /\ acts < MaxActs /\ acts' = acts + 1
  /\ state' = "stopped" /\ guard' = FALSE
  /\ probed' = FALSE /\ expired' = FALSE /\ since' = FALSE /\ assured' = FALSE
  /\ session' \in {session, None}
  /\ jobs' = [i \in DOMAIN jobs |->
                IF i = 1 THEN Job(IF session' = None THEN Logout ELSE Login, session') ELSE None]
  /\ IF session' = None THEN slips' = {} ELSE Slip(Switching, "cut")
  /\ UNCHANGED <<files, daemon, refused>>

-----------------------------------------------------------------------------
\* The first start of the application.
Init ==
  /\ session = None /\ token = None /\ owner = None
  /\ daemon = NoDaemon
  /\ state = "stopped" /\ guard = FALSE
  /\ probed = FALSE /\ expired = FALSE /\ since = FALSE /\ assured = FALSE
  /\ jobs = [i \in 1..Slots |-> None]
  /\ refused = FALSE /\ slips = {} /\ acts = 0

Step(i) ==
  \/ ReadConfig(i) \/ ReadOwner(i) \/ Mint(i)
  \/ WriteConfig(i) \/ WriteOwner(i) \/ Switch(i)
  \/ ReadToken(i) \/ ClearConfig(i) \/ ClearOwner(i)
  \/ Enter(i) \/ Release(i) \/ AutoStart(i)
  \/ Start(i) \/ Spawn(i) \/ Wait(i) \/ Stop(i) \/ Kill(i) \/ Stopped(i) \/ Answer(i)

Next ==
  \/ \E i \in 1..Slots : Step(i) \/ MintFails(i)
  \/ \E u \in Users : LogIn(u)
  \/ LogOut \/ Press \/ Reauth \/ Relaunch
  \/ Boots \/ BootRefused \/ Revoke
  \/ Poll \/ Probe

Spec == Init /\ [][Next]_vars

\* Every await of a job has a timeout, the daemon boots or exits, and the poll runs
\* every five seconds: one of them comes after the grace period.
FairSpec ==
  /\ Spec
  /\ \A i \in 1..Slots : WF_vars(Step(i))
  /\ WF_vars(Boots \/ BootRefused) /\ WF_vars(Poll) /\ WF_vars(Probe)
-----------------------------------------------------------------------------
(* Properties *)

States == {"stopped", "starting", "running", "stopping", "auth_expired"}

Entered(todo) == todo[Len(todo)] = "release" /\ \A k \in DOMAIN todo : todo[k] # "enter"

\* Every variable keeps its type; a job that is there has something to do, and only
\* an operation that entered holds the guard.
TypeOK ==
  /\ {session, owner} \subseteq Users \cup {None}
  /\ token \in Pat \cup {None}
  /\ daemon = NoDaemon \/ daemon \in [status : {"starting", "running"}, token : Pat]
  /\ state \in States
  /\ {guard, probed, expired, since, assured, refused} \subseteq BOOLEAN
  /\ slips \subseteq {"overlap", "mint", "cut"}
  /\ \A i \in 1..Slots : jobs[i] # None => jobs[i] \in Jobs /\ jobs[i].todo # <<>>
  /\ Cardinality({i \in 1..Slots : jobs[i] # None /\ Entered(jobs[i].todo)})
       = IF guard THEN 1 ELSE 0
  /\ acts \in 0..MaxActs

\* "Without it, a previous user's PAT would be used by a new session": at rest the daemon
\* runs with the token of the session's user, and none runs without a session - also when
\* a session begins beside starts, stops and restarts, when buttons are pressed beside a
\* synchronisation, and through revocations.  Not after a slip: a synchronisation that was
\* overlapped by another or by a logout, a logout beside an operation (LogoutStopsDaemon),
\* a failed mint (FailedMintIsSafe), an application that ended before the switch.
DaemonIsTheSessions ==
  ~Busy /\ slips = {} /\ Alive => session # None /\ daemon.token.user = session

\* The two files speak of one user when the jobs are done, so that no token is reused as
\* another user's - also when the application ended between the two writes.  Not after
\* synchronisations that overlapped (OverlapsFileRight), or after a failed mint, which
\* leaves what an interrupted one wrote.
FilesOfOneUser ==
  ~Busy /\ slips \subseteq {"cut"} =>
    (token # None /\ owner # None => token.user = owner)

\* The daemon's token was refused before it was ready, no stop called the attempt off,
\* and no probe found a token that is accepted: one that was revoked later, or a new one.
StuckStarting == state = "starting" /\ ~Alive /\ refused /\ since /\ ~assured

\* A daemon that cannot log in does not look as if it started for ever, if the one probe
\* of the attempt gets an answer.
AuthFailureSurfaces == StuckStarting ~> ~StuckStarting

\* "stop the daemon so that a subsequent login as a different user never inherits the
\* previous user's ... credentials" (App.tsx): after a logout no daemon runs.
LogoutStopsDaemon == ~Busy /\ session = None => ~Alive

-----------------------------------------------------------------------------
(* What syncToken says and the code does not do *)

\* "On user mismatch (or first run) [...] mint a fresh PAT, overwriting any stale cached
\* PAT.  This is the critical path: without it, a previous user's PAT would be used by a
\* new session": also when the mint fails.
FailedMintIsSafe ==
  ~Busy /\ slips \subseteq {"mint"} /\ Alive => session # None /\ daemon.token.user = session

\* "Restart it so the in-memory token in the Go process matches the new config": also
\* when the application ends in between.
InterruptedSwitchIsMadeUp ==
  ~Busy /\ slips \subseteq {"cut"} /\ Alive => session # None /\ daemon.token.user = session

\* "If the profile already has a cached PAT AND the sidecar user id matches the caller,
\* reuse it": the id names the user of the PAT.
OverlapsFileRight ==
  ~Busy => (token # None /\ owner # None => token.user = owner)
=============================================================================
