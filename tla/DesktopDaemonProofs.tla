-------------------------- MODULE DesktopDaemonProofs --------------------------
(***************************************************************************)
(* What DesktopDaemon promises of the token the daemon runs with, for      *)
(* every number of users, jobs, faults and crashes.  A job is seen as the  *)
(* set of the steps it still has to do: they come in one fixed order, so   *)
(* its first step is the lowest, and doing it removes it from the set.     *)
(***************************************************************************)
EXTENDS DesktopDaemon, FiniteSetTheorems, TLAPS

-----------------------------------------------------------------------------
(* The steps of a job *)

Rank(s) ==
  CASE s = "readToken" -> 1 [] s = "clearConfig" -> 2 [] s = "clearOwner" -> 3
    [] s = "readConfig" -> 4 [] s = "readOwner" -> 5 [] s = "mint" -> 6
    [] s = "writeConfig" -> 7 [] s = "writeOwner" -> 8 [] s = "switch" -> 9
    [] s = "auto" -> 10 [] s = "enter" -> 11 [] s = "stop" -> 12 [] s = "kill" -> 13
    [] s = "stopped" -> 14 [] s = "start" -> 15 [] s = "spawn" -> 16 [] s = "wait" -> 17
    [] s = "release" -> 18 [] s = "answer" -> 19

Todo(t) == {t[k] : k \in DOMAIN t}

Sorted(t) == \A k, l \in DOMAIN t : k < l => Rank(t[k]) < Rank(t[l])

\* The steps of syncToken.
SyncSteps == {"readConfig", "readOwner", "mint", "writeConfig", "writeOwner", "switch"}

\* The steps of the calls.
LoginSteps == {"readConfig", "readOwner", "mint", "writeConfig", "writeOwner", "switch", "auto"}
LogoutSteps == {"readToken", "clearConfig", "clearOwner", "enter", "stop", "kill", "stopped", "release"}
ReauthSteps == {"readToken", "clearConfig", "clearOwner", "readConfig", "readOwner",
                "mint", "writeConfig", "writeOwner", "switch",
                "stop", "kill", "stopped", "start", "spawn", "wait"}
PressSteps == {"enter", "stop", "kill", "stopped", "start", "spawn", "wait", "release"}

\* Which steps come together: closed under doing the lowest one.
Complete(S) ==
  /\ S \subseteq Steps
  /\ "readToken" \in S /\ "writeOwner" \in S => "readConfig" \in S
  /\ "readConfig" \in S => "readOwner" \in S
  /\ "readOwner" \in S => "mint" \in S
  /\ "mint" \in S => "writeConfig" \in S
  /\ "writeConfig" \in S => "writeOwner" \in S
  /\ "writeOwner" \in S => "switch" \in S
  /\ "enter" \in S => "release" \in S
  /\ "clearConfig" \in S => "kill" \in S
  /\ "release" \in S => "mint" \notin S
  /\ "auto" \in S => S \cap {"kill", "release"} = {}
  /\ "answer" \in S => S = {"answer"}

\* The steps the job at i still has to do.
Left(i) == IF jobs[i] = None THEN {} ELSE Todo(jobs[i].todo)

\* A job of a user or of the application, not a probe.
Works(i) == Left(i) \ {"answer"} # {}

-----------------------------------------------------------------------------
(* The inductive invariant *)

JobOK(i) ==
  /\ jobs[i] \in Jobs
  /\ jobs[i].todo # <<>> /\ Sorted(jobs[i].todo) /\ Complete(Left(i))
  /\ "mint" \in Left(i) => jobs[i].user # None

JobsOK ==
  /\ jobs \in [1..Slots -> Jobs \cup {None}]
  /\ \A i \in 1..Slots : jobs[i] # None => JobOK(i)

HoldsGuard(i) == "release" \in Left(i) /\ "enter" \notin Left(i)

\* TypeOK, in terms of what the jobs have left.
TypeInv ==
  /\ {session, owner} \subseteq Users \cup {None}
  /\ token \in Pat \cup {None}
  /\ daemon = NoDaemon \/ daemon \in [status : {"starting", "running"}, token : Pat]
  /\ state \in States
  /\ {guard, probed, expired, since, assured, refused} \subseteq BOOLEAN
  /\ slips \subseteq {"overlap", "mint", "cut"}
  /\ JobsOK
  /\ acts \in 0..MaxActs

GuardInv ==
  /\ guard <=> \E i \in 1..Slots : HoldsGuard(i)
  /\ \A i, k \in 1..Slots : HoldsGuard(i) /\ HoldsGuard(k) => i = k

\* A token and a user, either of which may not be there: the token is that user's.
Agree(t, u) == t # None /\ u # None => t.user = u

\* What the job that synchronises has read and written so far: a token that is reused is
\* the session's.
Stages(i) ==
  LET j == jobs[i]
      Done(s) == s \notin Left(i)
  IN  /\ "readOwner" \in Left(i) /\ Done("readConfig") /\ owner = session => Agree(j.token, session)
      /\ "mint" \in Left(i) /\ Done("readOwner") /\ j.owner = session => Agree(j.token, session)
      /\ "writeConfig" \in Left(i) /\ Done("mint") => j.token # None /\ j.token.user = session
      /\ "writeOwner" \in Left(i) /\ Done("writeConfig") => Agree(token, session)

\* One job at a time reads or writes the files, and it is the session's.
OneFiler ==
  /\ \A i \in 1..Slots : Left(i) \cap FileSteps # {} => jobs[i].user = session
  /\ \A i, k \in 1..Slots :
       Left(i) \cap FileSteps # {} /\ Left(k) \cap FileSteps # {} => i = k
  /\ \A i \in 1..Slots : Stages(i)

\* After a logout: the token that is there will be cleared.
Cleared ==
  /\ \A i \in 1..Slots : Left(i) \cap SyncSteps = {}
  /\ token # None => \E i \in 1..Slots :
       "clearConfig" \in Left(i) /\ ("readToken" \in Left(i) \/ jobs[i].token # None)

\* After a login: the owner is the session's user, or will be, and if it is, so is the
\* token; whatever an interrupted synchronisation left.
Synced ==
  /\ \A i \in 1..Slots : "clearOwner" \in Left(i) => "writeOwner" \in Left(i)
  /\ owner = session \/ \E i \in 1..Slots : "writeOwner" \in Left(i)
  /\ owner = session => Agree(token, session)

Filed == OneFiler /\ IF session = None THEN Cleared ELSE Synced

\* After a logout: its operation is the only one, and the daemon will be stopped.
Stopping ==
  /\ \A i, k \in 1..Slots : "release" \in Left(i) /\ "release" \in Left(k) => i = k
  /\ Alive => \E i \in 1..Slots : "kill" \in Left(i)

\* The job at i will find that the user changed.
WillSwitch(i) ==
  /\ "switch" \in Left(i) /\ "clearOwner" \notin Left(i)
  /\ IF "readOwner" \in Left(i) THEN owner # None /\ owner # session
     ELSE jobs[i].owner # None /\ jobs[i].owner # session

\* After a login: the token becomes the session's, and a daemon that runs with another
\* user's is stopped.
Switched ==
  /\ ~Agree(token, session) =>
       \E i \in 1..Slots : WillSwitch(i) /\ "writeConfig" \in Left(i)
  /\ Alive /\ daemon.token.user # session =>
       \E i \in 1..Slots : WillSwitch(i) \/ ("kill" \in Left(i) /\ "enter" \notin Left(i))

Right == IF session = None THEN Stopping ELSE Switched

SessionInv ==
  /\ slips \subseteq {"cut"} => Filed
  /\ slips = {} => Right

DaemonInv == TypeInv /\ GuardInv /\ SessionInv

-----------------------------------------------------------------------------
(* Sequences of steps *)

\* None is no job and no PAT, and there is a slot.
USE DaemonAssumption

\* The rank of a step is a number.
LEMMA RankType == \A s \in Steps : Rank(s) \in Int
BY DEF Rank, Steps

\* Doing the first step removes it from the steps left, and leaves the order.
LEMMA TailTodo ==
  ASSUME NEW t \in Seq(Steps), t # <<>>, Sorted(t)
  PROVE  /\ Tail(t) \in Seq(Steps) /\ Sorted(Tail(t))
         /\ Todo(Tail(t)) = Todo(t) \ {t[1]}
         /\ t[1] \in Todo(t) /\ Todo(t) \subseteq Steps
         /\ Tail(t) = <<>> <=> Todo(Tail(t)) = {}
         /\ \A s \in Todo(t) : s # t[1] => Rank(t[1]) < Rank(s)
<1> HIDE DEF Steps, Rank
<1>1. Len(t) \in Nat \ {0} /\ DOMAIN t = 1..Len(t) /\ \A k \in 1..Len(t) : t[k] \in Steps
      OBVIOUS
<1>2. /\ Tail(t) \in Seq(Steps) /\ Len(Tail(t)) = Len(t) - 1
      /\ DOMAIN Tail(t) = 1..(Len(t) - 1)
      /\ \A k \in 1..(Len(t) - 1) : Tail(t)[k] = t[k + 1]
      BY <1>1
<1>3. Sorted(Tail(t))
  <2> SUFFICES ASSUME NEW k \in 1..(Len(t) - 1), NEW l \in 1..(Len(t) - 1), k < l
               PROVE  Rank(Tail(t)[k]) < Rank(Tail(t)[l])
      BY <1>2 DEF Sorted
  <2>1. k + 1 \in 1..Len(t) /\ l + 1 \in 1..Len(t) /\ k + 1 < l + 1 BY <1>1
  <2>2. Rank(t[k + 1]) < Rank(t[l + 1]) BY <2>1, <1>1 DEF Sorted
  <2> QED BY <2>2, <1>2
<1>4. \A k \in 2..Len(t) : Rank(t[1]) < Rank(t[k])
  <2> TAKE k \in 2..Len(t)
  <2>1. 1 \in DOMAIN t /\ k \in DOMAIN t /\ 1 < k BY <1>1
  <2> QED BY <2>1 DEF Sorted
<1>5. \A k \in 2..Len(t) : t[k] # t[1]
  <2> SUFFICES ASSUME NEW k \in 2..Len(t), t[k] = t[1] PROVE FALSE
      OBVIOUS
  <2>1. Rank(t[1]) < Rank(t[k]) BY <1>4
  <2>2. Rank(t[1]) < Rank(t[1]) BY <2>1
  <2>3. Rank(t[1]) \in Int BY <1>1, RankType
  <2> QED BY <2>2, <2>3
<1>6. Todo(Tail(t)) = Todo(t) \ {t[1]}
  <2>1. ASSUME NEW s \in Todo(Tail(t)) PROVE s \in Todo(t) \ {t[1]}
    <3>1. PICK k \in 1..(Len(t) - 1) : Tail(t)[k] = s BY <2>1, <1>2 DEF Todo
    <3>2. k + 1 \in 2..Len(t) /\ k + 1 \in 1..Len(t) BY <1>1
    <3> QED BY <3>1, <3>2, <1>1, <1>2, <1>5 DEF Todo
  <2>2. ASSUME NEW s \in Todo(t), s # t[1] PROVE s \in Todo(Tail(t))
    <3>1. PICK k \in 1..Len(t) : t[k] = s BY <1>1, <2>2 DEF Todo
    <3>2. k - 1 \in 1..(Len(t) - 1) /\ (k - 1) + 1 = k BY <3>1, <2>2, <1>1
    <3>3. Tail(t)[k - 1] = s BY <3>1, <3>2, <1>2
    <3> QED BY <3>2, <3>3, <1>2 DEF Todo
  <2> QED BY <2>1, <2>2
<1>7. t[1] \in Todo(t) /\ Todo(t) \subseteq Steps BY <1>1 DEF Todo
<1>8. Tail(t) = <<>> <=> Todo(Tail(t)) = {}
  <2>1. CASE Len(t) = 1
    <3>1. Len(Tail(t)) = 0 BY <1>2, <2>1
    <3>2. Tail(t) = <<>> BY <3>1, <1>2
    <3>3. DOMAIN Tail(t) = {} BY <1>2, <2>1
    <3> QED BY <3>2, <3>3 DEF Todo
  <2>2. CASE Len(t) # 1
    <3>1. 1 \in 1..(Len(t) - 1) BY <1>1, <2>2
    <3>2. Tail(t)[1] \in Todo(Tail(t)) BY <3>1, <1>2 DEF Todo
    <3>3. Todo(<<>>) = {} BY DEF Todo
    <3> QED BY <3>2, <3>3
  <2> QED BY <2>1, <2>2
<1>9. \A s \in Todo(t) : s # t[1] => Rank(t[1]) < Rank(s)
  <2> SUFFICES ASSUME NEW k \in 1..Len(t), t[k] # t[1] PROVE Rank(t[1]) < Rank(t[k])
      BY <1>1 DEF Todo
  <2>1. k \in 2..Len(t) BY <1>1
  <2> QED BY <2>1, <1>4
<1> QED BY <1>2, <1>3, <1>6, <1>7, <1>8, <1>9

\* A sequence of steps, followed by later ones.
LEMMA Followed ==
  ASSUME NEW s \in Seq(Steps), NEW t \in Seq(Steps), Sorted(s), Sorted(t),
         \A a \in Todo(s), b \in Todo(t) : Rank(a) < Rank(b)
  PROVE  /\ s \o t \in Seq(Steps) /\ Sorted(s \o t)
         /\ Todo(s \o t) = Todo(s) \cup Todo(t)
<1> HIDE DEF Steps, Rank
<1>1. /\ Len(s) \in Nat /\ DOMAIN s = 1..Len(s) /\ Len(t) \in Nat /\ DOMAIN t = 1..Len(t)
      OBVIOUS
<1>2. /\ s \o t \in Seq(Steps) /\ DOMAIN (s \o t) = 1..(Len(s) + Len(t))
      /\ \A k \in 1..(Len(s) + Len(t)) : (s \o t)[k] = IF k <= Len(s) THEN s[k] ELSE t[k - Len(s)]
      BY <1>1
<1> DEFINE c == s \o t
<1>3. \A k \in 1..(Len(s) + Len(t)) : c[k] = IF k <= Len(s) THEN s[k] ELSE t[k - Len(s)]
      BY <1>2
<1>4. c \in Seq(Steps) /\ DOMAIN c = 1..(Len(s) + Len(t)) BY <1>2
<1> HIDE DEF c
<1>5. Sorted(c)
  <2> SUFFICES ASSUME NEW k \in 1..(Len(s) + Len(t)), NEW l \in 1..(Len(s) + Len(t)), k < l
               PROVE  Rank(c[k]) < Rank(c[l])
      BY <1>4 DEF Sorted
  <2>1. CASE l <= Len(s)
    <3>1. k \in DOMAIN s /\ l \in DOMAIN s /\ k <= Len(s) BY <2>1, <1>1
    <3> QED BY <3>1, <2>1, <1>3 DEF Sorted
  <2>2. CASE k > Len(s)
    <3>1. /\ k - Len(s) \in DOMAIN t /\ l - Len(s) \in DOMAIN t /\ k - Len(s) < l - Len(s)
          /\ ~(k <= Len(s)) /\ ~(l <= Len(s))
          BY <2>2, <1>1
    <3> QED BY <3>1, <1>3 DEF Sorted
  <2>3. CASE k <= Len(s) /\ ~(l <= Len(s))
    <3>1. k \in DOMAIN s /\ l - Len(s) \in DOMAIN t BY <2>3, <1>1
    <3>2. s[k] \in Todo(s) /\ t[l - Len(s)] \in Todo(t) BY <3>1 DEF Todo
    <3>3. Rank(s[k]) < Rank(t[l - Len(s)]) BY <3>2
    <3>4. c[k] = s[k] /\ c[l] = t[l - Len(s)] BY <2>3, <1>3
    <3> QED BY <3>3, <3>4
  <2> QED BY <2>1, <2>2, <2>3, <1>1
<1>6. Todo(c) = Todo(s) \cup Todo(t)
  <2>1. ASSUME NEW a \in Todo(c) PROVE a \in Todo(s) \cup Todo(t)
    <3>1. PICK k \in 1..(Len(s) + Len(t)) : c[k] = a BY <2>1, <1>4 DEF Todo
    <3>2. CASE k <= Len(s)
      <4>1. k \in DOMAIN s /\ a = s[k] BY <3>1, <3>2, <1>1, <1>3
      <4> QED BY <4>1 DEF Todo
    <3>3. CASE ~(k <= Len(s))
      <4>1. k - Len(s) \in DOMAIN t BY <3>3, <1>1
      <4>2. a = t[k - Len(s)] BY <3>1, <3>3, <1>3
      <4> QED BY <4>1, <4>2 DEF Todo
    <3> QED BY <3>2, <3>3
  <2>2. ASSUME NEW a \in Todo(s) PROVE a \in Todo(c)
    <3>1. PICK k \in 1..Len(s) : s[k] = a BY <2>2, <1>1 DEF Todo
    <3>2. k \in 1..(Len(s) + Len(t)) /\ k <= Len(s) BY <1>1
    <3>3. c[k] = a BY <3>1, <3>2, <1>3
    <3> QED BY <3>2, <3>3, <1>4 DEF Todo
  <2>3. ASSUME NEW a \in Todo(t) PROVE a \in Todo(c)
    <3>1. PICK k \in 1..Len(t) : t[k] = a BY <2>3, <1>1 DEF Todo
    <3>2. /\ k + Len(s) \in 1..(Len(s) + Len(t)) /\ ~(k + Len(s) <= Len(s))
          /\ (k + Len(s)) - Len(s) = k
          BY <1>1
    <3>3. c[k + Len(s)] = a BY <3>1, <3>2, <1>3
    <3> QED BY <3>2, <3>3, <1>4 DEF Todo
  <2> QED BY <2>1, <2>2, <2>3
<1> QED BY <1>4, <1>5, <1>6 DEF c

\* The steps of a program are the set S, in their order.
Program(t, S) == t \in Seq(Steps) /\ Sorted(t) /\ Todo(t) = S

\* The pieces the jobs are made of.
LEMMA Pieces ==
  /\ Program(ClearToken, {"readToken", "clearConfig", "clearOwner"})
  /\ Program(SyncToken, {"readConfig", "readOwner", "mint", "writeConfig", "writeOwner", "switch"})
  /\ Program(StartDaemon, {"start", "spawn", "wait"})
  /\ Program(StopDaemon, {"stop", "kill", "stopped"})
  /\ \A s \in Steps : Program(<<s>>, {s})
<1>1. Program(ClearToken, {"readToken", "clearConfig", "clearOwner"})
  <2> DEFINE t == ClearToken
  <2>1. /\ DOMAIN t = 1..3 /\ t[1] = "readToken" /\ t[2] = "clearConfig" /\ t[3] = "clearOwner"
        BY DEF ClearToken
  <2>2. t \in Seq(Steps) BY DEF ClearToken, Steps
  <2> HIDE DEF t
  <2>3. Sorted(t) BY <2>1 DEF Sorted, Rank
  <2>4. Todo(t) = {t[1], t[2], t[3]} BY <2>1 DEF Todo
  <2> QED BY <2>1, <2>2, <2>3, <2>4 DEF Program, t
<1>2. Program(SyncToken, {"readConfig", "readOwner", "mint", "writeConfig", "writeOwner", "switch"})
  <2> DEFINE t == SyncToken
  <2>1. /\ DOMAIN t = 1..6 /\ t[1] = "readConfig" /\ t[2] = "readOwner" /\ t[3] = "mint"
        /\ t[4] = "writeConfig" /\ t[5] = "writeOwner" /\ t[6] = "switch"
        BY DEF SyncToken
  <2>2. t \in Seq(Steps) BY DEF SyncToken, Steps
  <2> HIDE DEF t
  <2>3. Sorted(t)
    <3>1. /\ Rank(t[1]) = 4 /\ Rank(t[2]) = 5 /\ Rank(t[3]) = 6
          /\ Rank(t[4]) = 7 /\ Rank(t[5]) = 8 /\ Rank(t[6]) = 9
          BY <2>1 DEF Rank
    <3> HIDE DEF Rank
    <3>2. \A k \in 1..6 : k = 1 \/ k = 2 \/ k = 3 \/ k = 4 \/ k = 5 \/ k = 6 OBVIOUS
    <3>3. \A k \in 1..6 : Rank(t[k]) = k + 3 BY <3>1, <3>2
    <3> QED BY <2>1, <3>3 DEF Sorted
  <2>4. Todo(t) = {t[1], t[2], t[3], t[4], t[5], t[6]}
    <3>1. \A k \in 1..6 : k = 1 \/ k = 2 \/ k = 3 \/ k = 4 \/ k = 5 \/ k = 6 OBVIOUS
    <3> QED BY <2>1, <3>1 DEF Todo
  <2> QED BY <2>1, <2>2, <2>3, <2>4 DEF Program, t
<1>3. Program(StartDaemon, {"start", "spawn", "wait"})
  <2> DEFINE t == StartDaemon
  <2>1. /\ DOMAIN t = 1..3 /\ t[1] = "start" /\ t[2] = "spawn" /\ t[3] = "wait"
        BY DEF StartDaemon
  <2>2. t \in Seq(Steps) BY DEF StartDaemon, Steps
  <2> HIDE DEF t
  <2>3. Sorted(t) BY <2>1 DEF Sorted, Rank
  <2>4. Todo(t) = {t[1], t[2], t[3]} BY <2>1 DEF Todo
  <2> QED BY <2>1, <2>2, <2>3, <2>4 DEF Program, t
<1>4. Program(StopDaemon, {"stop", "kill", "stopped"})
  <2> DEFINE t == StopDaemon
  <2>1. /\ DOMAIN t = 1..3 /\ t[1] = "stop" /\ t[2] = "kill" /\ t[3] = "stopped"
        BY DEF StopDaemon
  <2>2. t \in Seq(Steps) BY DEF StopDaemon, Steps
  <2> HIDE DEF t
  <2>3. Sorted(t) BY <2>1 DEF Sorted, Rank
  <2>4. Todo(t) = {t[1], t[2], t[3]} BY <2>1 DEF Todo
  <2> QED BY <2>1, <2>2, <2>3, <2>4 DEF Program, t
<1>5. ASSUME NEW s \in Steps PROVE Program(<<s>>, {s})
  <2>1. <<s>> \in Seq(Steps) /\ DOMAIN <<s>> = {1} /\ <<s>>[1] = s OBVIOUS
  <2>2. Sorted(<<s>>) BY <2>1 DEF Sorted
  <2>3. Todo(<<s>>) = {s} BY <2>1 DEF Todo
  <2> QED BY <2>1, <2>2, <2>3 DEF Program
<1> QED BY <1>1, <1>2, <1>3, <1>4, <1>5

\* One program after another.
LEMMA ProgramFollowed ==
  ASSUME NEW s, NEW S, Program(s, S), NEW t, NEW T, Program(t, T),
         \A a \in S, b \in T : Rank(a) < Rank(b)
  PROVE  Program(s \o t, S \cup T)
BY Followed DEF Program

\* What the calls of the renderer and of the main process have to do.
LEMMA Programs ==
  /\ Program(RestartDaemon, {"stop", "kill", "stopped", "start", "spawn", "wait"})
  /\ Program(Login, {"readConfig", "readOwner", "mint", "writeConfig", "writeOwner", "switch", "auto"})
  /\ Program(Logout, {"readToken", "clearConfig", "clearOwner",
                      "enter", "stop", "kill", "stopped", "release"})
  /\ Program(Reauthenticate, {"readToken", "clearConfig", "clearOwner", "readConfig", "readOwner",
                              "mint", "writeConfig", "writeOwner", "switch",
                              "stop", "kill", "stopped", "start", "spawn", "wait"})
<1> DEFINE C == {"readToken", "clearConfig", "clearOwner"}
           Y == {"readConfig", "readOwner", "mint", "writeConfig", "writeOwner", "switch"}
           A == {"start", "spawn", "wait"}
           O == {"stop", "kill", "stopped"}
<1>1. Program(RestartDaemon, O \cup A)
  <2>1. \A a \in O, b \in A : Rank(a) < Rank(b) BY DEF Rank
  <2> QED BY <2>1, Pieces, ProgramFollowed DEF RestartDaemon
<1>2. Program(Login, Y \cup {"auto"})
  <2>1. \A a \in Y, b \in {"auto"} : Rank(a) < Rank(b) BY DEF Rank
  <2>2. Program(<<"auto">>, {"auto"}) BY Pieces DEF Steps
  <2> QED BY <2>1, <2>2, Pieces, ProgramFollowed DEF Login
<1>3. Program(Logout, ((C \cup {"enter"}) \cup O) \cup {"release"})
  <2>1. /\ \A a \in C, b \in {"enter"} : Rank(a) < Rank(b)
        /\ \A a \in C \cup {"enter"}, b \in O : Rank(a) < Rank(b)
        /\ \A a \in (C \cup {"enter"}) \cup O, b \in {"release"} : Rank(a) < Rank(b)
        BY DEF Rank
  <2>2. Program(<<"enter">>, {"enter"}) /\ Program(<<"release">>, {"release"}) BY Pieces DEF Steps
  <2>3. Program(ClearToken \o <<"enter">>, C \cup {"enter"}) BY <2>1, <2>2, Pieces, ProgramFollowed
  <2>4. Program((ClearToken \o <<"enter">>) \o StopDaemon, (C \cup {"enter"}) \cup O)
        BY <2>1, <2>3, Pieces, ProgramFollowed
  <2> QED BY <2>1, <2>2, <2>4, ProgramFollowed DEF Logout
<1>4. Program(Reauthenticate, (C \cup Y) \cup (O \cup A))
  <2>1. /\ \A a \in C, b \in Y : Rank(a) < Rank(b)
        /\ \A a \in C \cup Y, b \in O \cup A : Rank(a) < Rank(b)
        BY DEF Rank
  <2>2. Program(ClearToken \o SyncToken, C \cup Y) BY <2>1, Pieces, ProgramFollowed
  <2> QED BY <2>1, <2>2, <1>1, ProgramFollowed DEF Reauthenticate
<1> QED BY <1>1, <1>2, <1>3, <1>4

\* The guarded operations of the buttons.
LEMMA GuardedPrograms ==
  /\ Program(Guarded(StartDaemon), {"enter", "start", "spawn", "wait", "release"})
  /\ Program(Guarded(StopDaemon), {"enter", "stop", "kill", "stopped", "release"})
  /\ Program(Guarded(RestartDaemon),
             {"enter", "stop", "kill", "stopped", "start", "spawn", "wait", "release"})
<1>1. ASSUME NEW t, NEW T, Program(t, T), T \subseteq {"start", "spawn", "wait", "stop", "kill", "stopped"}
      PROVE  Program(Guarded(t), ({"enter"} \cup T) \cup {"release"})
  <2>1. /\ \A a \in {"enter"}, b \in T : Rank(a) < Rank(b)
        /\ \A a \in {"enter"} \cup T, b \in {"release"} : Rank(a) < Rank(b)
        BY <1>1 DEF Rank
  <2>2. Program(<<"enter">>, {"enter"}) /\ Program(<<"release">>, {"release"}) BY Pieces DEF Steps
  <2>3. Program(<<"enter">> \o t, {"enter"} \cup T) BY <1>1, <2>1, <2>2, ProgramFollowed
  <2> QED BY <2>1, <2>2, <2>3, ProgramFollowed DEF Guarded
<1>2. Program(Guarded(StartDaemon), ({"enter"} \cup {"start", "spawn", "wait"}) \cup {"release"})
      BY <1>1, Pieces
<1>3. Program(Guarded(StopDaemon), ({"enter"} \cup {"stop", "kill", "stopped"}) \cup {"release"})
      BY <1>1, Pieces
<1>4. Program(Guarded(RestartDaemon),
        ({"enter"} \cup {"stop", "kill", "stopped", "start", "spawn", "wait"}) \cup {"release"})
      BY <1>1, Programs
<1> QED BY <1>2, <1>3, <1>4

-----------------------------------------------------------------------------
(* What a step does to the jobs *)

Others(i) == \A k \in (1..Slots) \ {i} : jobs'[k] = jobs[k] /\ Left(k)' = Left(k)

\* The job at i does its lowest step and keeps its user.
Does(i, h) ==
  /\ h \in Left(i) /\ Left(i)' = Left(i) \ {h}
  /\ \A s \in Left(i) \ {h} : Rank(h) < Rank(s)
  /\ jobs'[i] # None => jobs'[i].user = jobs[i].user
  /\ Others(i)

\* A set of steps that come together stays one without its lowest step.
LEMMA CompleteTail ==
  ASSUME NEW S, Complete(S), NEW h \in S, \A s \in S \ {h} : Rank(h) < Rank(s)
  PROVE  Complete(S \ {h})
<1>1. ASSUME NEW s \in S \ {h}, NEW l \in S, Rank(s) < Rank(l) PROVE l \in S \ {h}
  <2>1. Rank(h) < Rank(s) OBVIOUS
  <2>2. Rank(h) \in Int /\ Rank(s) \in Int BY RankType DEF Complete
  <2> QED BY <2>1, <2>2, <1>1
<1>2. "readConfig" \in S \ {h} => "readOwner" \in S \ {h}
  <2>1. Rank("readConfig") < Rank("readOwner") BY DEF Rank
  <2> QED BY <2>1, <1>1 DEF Complete
<1>3. "readOwner" \in S \ {h} => "mint" \in S \ {h}
  <2>1. Rank("readOwner") < Rank("mint") BY DEF Rank
  <2> QED BY <2>1, <1>1 DEF Complete
<1>4. "mint" \in S \ {h} => "writeConfig" \in S \ {h}
  <2>1. Rank("mint") < Rank("writeConfig") BY DEF Rank
  <2> QED BY <2>1, <1>1 DEF Complete
<1>5. "writeConfig" \in S \ {h} => "writeOwner" \in S \ {h}
  <2>1. Rank("writeConfig") < Rank("writeOwner") BY DEF Rank
  <2> QED BY <2>1, <1>1 DEF Complete
<1>6. "writeOwner" \in S \ {h} => "switch" \in S \ {h}
  <2>1. Rank("writeOwner") < Rank("switch") BY DEF Rank
  <2> QED BY <2>1, <1>1 DEF Complete
<1>7. "enter" \in S \ {h} => "release" \in S \ {h}
  <2>1. Rank("enter") < Rank("release") BY DEF Rank
  <2> QED BY <2>1, <1>1 DEF Complete
<1>11. "clearConfig" \in S \ {h} => "kill" \in S \ {h}
  <2>1. Rank("clearConfig") < Rank("kill") BY DEF Rank
  <2> QED BY <2>1, <1>1 DEF Complete
<1>8. S \ {h} \subseteq Steps BY DEF Complete
<1>9. /\ "readToken" \in S \ {h} /\ "writeOwner" \in S \ {h} => "readConfig" \in S \ {h}
  <2>1. Rank("readToken") < Rank("readConfig") BY DEF Rank
  <2> QED BY <2>1, <1>1 DEF Complete
<1>10. /\ "release" \in S \ {h} => "mint" \notin S \ {h}
       /\ "auto" \in S \ {h} => (S \ {h}) \cap {"kill", "release"} = {}
       /\ "answer" \in S \ {h} => S \ {h} = {"answer"}
      BY DEF Complete
<1> QED BY <1>2, <1>3, <1>4, <1>5, <1>6, <1>7, <1>8, <1>9, <1>10, <1>11 DEF Complete

\* A job that goes on with the tail of its steps.
LEMMA GoesOn ==
  ASSUME JobsOK, NEW i \in 1..Slots, NEW h, At(i, h),
         NEW j \in Jobs, j.todo = Tail(jobs[i].todo), j.user = jobs[i].user,
         jobs' = Goes(jobs, i, j)
  PROVE  Does(i, h) /\ JobsOK' /\ (jobs'[i] # None => jobs'[i] = j)
<1> DEFINE t == jobs[i].todo
<1>1. jobs[i] # None /\ JobOK(i) BY DEF At, JobsOK
<1>2. t \in Seq(Steps) /\ t # <<>> /\ Sorted(t) /\ t[1] = h /\ Left(i) = Todo(t)
      BY <1>1 DEF At, JobOK, Jobs, Left
<1>3. /\ Tail(t) \in Seq(Steps) /\ Sorted(Tail(t)) /\ Todo(Tail(t)) = Todo(t) \ {h}
      /\ h \in Todo(t) /\ (Tail(t) = <<>> <=> Todo(Tail(t)) = {})
      /\ \A s \in Todo(t) : s # h => Rank(h) < Rank(s)
      BY <1>2, TailTodo
<1>4. jobs' = [jobs EXCEPT ![i] = IF Tail(t) = <<>> THEN None ELSE j] BY DEF Goes
<1> HIDE DEF t
<1>5. jobs' \in [1..Slots -> Jobs \cup {None}] /\ \A k \in (1..Slots) \ {i} : jobs'[k] = jobs[k]
      BY <1>4 DEF JobsOK
<1>6. jobs'[i] = IF Tail(t) = <<>> THEN None ELSE j BY <1>4 DEF JobsOK
<1>7. Others(i) BY <1>5 DEF Others, Left
<1>8. None \notin Jobs OBVIOUS
<1>9. Left(i)' = Left(i) \ {h}
  <2>1. CASE Tail(t) = <<>> BY <2>1, <1>2, <1>3, <1>6 DEF Left
  <2>2. CASE Tail(t) # <<>>
    <3>1. jobs'[i] = j /\ j # None /\ j.todo = Tail(t) BY <2>2, <1>6, <1>8 DEF t
    <3> QED BY <3>1, <1>2, <1>3 DEF Left
  <2> QED BY <2>1, <2>2
<1>10. Does(i, h) BY <1>2, <1>3, <1>6, <1>7, <1>9 DEF Does
<1>11. jobs'[i] # None => JobOK(i)'
  <2> SUFFICES ASSUME jobs'[i] # None PROVE JobOK(i)'
      OBVIOUS
  <2>1. jobs'[i] = j /\ j.todo = Tail(t) /\ Tail(t) # <<>> BY <1>6 DEF t
  <2>2. Complete(Left(i) \ {h}) BY <1>1, <1>2, <1>3, CompleteTail DEF JobOK
  <2>3. "mint" \in Left(i)' => j.user # None BY <1>1, <1>9 DEF JobOK
  <2> QED BY <2>1, <2>2, <2>3, <1>3, <1>9 DEF JobOK
<1>12. \A k \in (1..Slots) \ {i} : jobs'[k] # None => JobOK(k)'
      BY <1>5, <1>7 DEF JobsOK, JobOK, Others
<1> QED BY <1>5, <1>6, <1>10, <1>11, <1>12 DEF JobsOK

\* The usual case: nothing else of the job changes.
LEMMA Continues ==
  ASSUME JobsOK, NEW i \in 1..Slots, NEW h, At(i, h), Continue(i)
  PROVE  /\ Does(i, h) /\ JobsOK'
         /\ jobs'[i] # None => jobs'[i].token = jobs[i].token /\ jobs'[i].owner = jobs[i].owner
<1> DEFINE j == Next1(jobs[i])
<1>1. jobs[i] \in Jobs /\ jobs[i].todo # <<>> BY DEF At, JobsOK, JobOK
<1>2. Tail(jobs[i].todo) \in Seq(Steps) BY <1>1 DEF Jobs
<1>3. /\ j \in Jobs /\ j.todo = Tail(jobs[i].todo) /\ j.user = jobs[i].user
      /\ j.token = jobs[i].token /\ j.owner = jobs[i].owner
      BY <1>1, <1>2 DEF Next1, Jobs
<1>4. jobs' = Goes(jobs, i, j) BY DEF Continue
<1> HIDE DEF j
<1> QED BY <1>3, <1>4, GoesOn

\* A job that ends.
LEMMA Ends ==
  ASSUME JobsOK, NEW i \in 1..Slots, jobs' = [jobs EXCEPT ![i] = None]
  PROVE  JobsOK' /\ Others(i) /\ Left(i)' = {} /\ jobs'[i] = None
<1>1. /\ jobs' \in [1..Slots -> Jobs \cup {None}] /\ jobs'[i] = None
      /\ \A k \in (1..Slots) \ {i} : jobs'[k] = jobs[k]
      BY DEF JobsOK
<1>2. Others(i) /\ Left(i)' = {} BY <1>1 DEF Others, Left
<1> QED BY <1>1, <1>2 DEF JobsOK, JobOK, Others

\* A job that goes on with another program.
LEMMA GoesOnWith ==
  ASSUME JobsOK, NEW i \in 1..Slots, jobs[i] # None, NEW t, NEW S, Program(t, S),
         Complete(S), "mint" \notin S, jobs' = Goes(jobs, i, [jobs[i] EXCEPT !.todo = t])
  PROVE  /\ JobsOK' /\ Others(i) /\ Left(i)' = S
         /\ jobs'[i] # None => /\ jobs'[i].user = jobs[i].user
                               /\ jobs'[i].token = jobs[i].token /\ jobs'[i].owner = jobs[i].owner
<1> DEFINE j == [jobs[i] EXCEPT !.todo = t]
<1>1. jobs[i] \in Jobs BY DEF JobsOK, JobOK
<1>2. t \in Seq(Steps) /\ Sorted(t) /\ Todo(t) = S BY DEF Program
<1>3. /\ j \in Jobs /\ j.todo = t /\ j.user = jobs[i].user
      /\ j.token = jobs[i].token /\ j.owner = jobs[i].owner
      BY <1>1, <1>2 DEF Jobs
<1>4. jobs' = [jobs EXCEPT ![i] = IF t = <<>> THEN None ELSE j] BY <1>3 DEF Goes
<1> HIDE DEF j
<1>5. /\ jobs' \in [1..Slots -> Jobs \cup {None}] /\ \A k \in (1..Slots) \ {i} : jobs'[k] = jobs[k]
      /\ jobs'[i] = IF t = <<>> THEN None ELSE j
      BY <1>3, <1>4 DEF JobsOK
<1>6. Others(i) BY <1>5 DEF Others, Left
<1>7. None \notin Jobs OBVIOUS
<1>8. Left(i)' = S
  <2>1. CASE t = <<>>
    <3>1. Todo(t) = {} BY <2>1 DEF Todo
    <3> QED BY <3>1, <2>1, <1>2, <1>5 DEF Left
  <2>2. CASE t # <<>>
    <3>1. jobs'[i] = j /\ j # None BY <2>2, <1>3, <1>5, <1>7
    <3> QED BY <3>1, <1>2, <1>3 DEF Left
  <2> QED BY <2>1, <2>2
<1>9. jobs'[i] # None => JobOK(i)' BY <1>2, <1>3, <1>5, <1>8 DEF JobOK
<1>10. \A k \in (1..Slots) \ {i} : jobs'[k] # None => JobOK(k)'
      BY <1>5, <1>6 DEF JobsOK, JobOK, Others
<1> QED BY <1>3, <1>5, <1>6, <1>8, <1>9, <1>10 DEF JobsOK

\* A job with a program is one that can begin.
LEMMA NewJob ==
  ASSUME NEW t, NEW S, Program(t, S), NEW u \in Users \cup {None}
  PROVE  /\ Job(t, u) \in Jobs /\ Job(t, u).todo = t /\ Job(t, u).user = u
         /\ Job(t, u).token = None /\ Job(t, u).owner = None
BY DEF Job, Jobs, Program

\* A job that begins takes a free slot.
LEMMA BeginsAt ==
  ASSUME NEW js, NEW j \in Jobs, js \in [1..Slots -> Jobs \cup {None}],
         \E k \in DOMAIN js : js[k] = None, jobs' = Begins(js, j)
  PROVE  \E i \in 1..Slots :
           /\ js[i] = None /\ jobs'[i] = j /\ jobs' \in [1..Slots -> Jobs \cup {None}]
           /\ \A k \in (1..Slots) \ {i} : jobs'[k] = js[k]
<1> DEFINE i == CHOOSE k \in DOMAIN js : js[k] = None
<1>1. i \in 1..Slots /\ js[i] = None OBVIOUS
<1>2. jobs' = [js EXCEPT ![i] = j] BY DEF Begins
<1> HIDE DEF i
<1> QED BY <1>1, <1>2

\* The slot i gets a job with the steps S.
Gets(i, j, S) ==
  /\ jobs[i] = None /\ Left(i) = {}
  /\ jobs'[i] = j /\ j # None /\ Left(i)' = S
  /\ Others(i)

\* A call or a probe begins a job.
LEMMA Starts ==
  ASSUME JobsOK, NEW j \in Jobs, NEW S, Program(j.todo, S), S # {}, Complete(S),
         "mint" \in S => j.user # None, Free # {}, jobs' = Begins(jobs, j)
  PROVE  JobsOK' /\ \E i \in 1..Slots : Gets(i, j, S)
<1>1. PICK i \in 1..Slots :
           /\ jobs[i] = None /\ jobs'[i] = j /\ jobs' \in [1..Slots -> Jobs \cup {None}]
           /\ \A k \in (1..Slots) \ {i} : jobs'[k] = jobs[k]
      BY BeginsAt DEF JobsOK, Free
<1>2. None \notin Jobs OBVIOUS
<1>3. Sorted(j.todo) /\ Todo(j.todo) = S BY DEF Program
<1>4. j.todo # <<>> BY <1>3 DEF Todo
<1>5. Gets(i, j, S) BY <1>1, <1>2, <1>3 DEF Gets, Left, Others
<1>6. JobOK(i)' BY <1>1, <1>3, <1>4, <1>5 DEF JobOK, Gets
<1>7. \A k \in (1..Slots) \ {i} : jobs'[k] # None => JobOK(k)'
      BY <1>1, <1>5 DEF JobsOK, JobOK, Others, Gets
<1> QED BY <1>1, <1>5, <1>6, <1>7 DEF JobsOK

\* An operation gives the guard back in its last step.
LEMMA LastIsRelease ==
  ASSUME JobsOK, NEW i \in 1..Slots, jobs[i] # None
  PROVE  jobs[i].todo[Len(jobs[i].todo)] = "release" <=> "release" \in Left(i)
<1> DEFINE t == jobs[i].todo
<1>1. JobOK(i) BY DEF JobsOK
<1>2. t \in Seq(Steps) /\ t # <<>> /\ Sorted(t) /\ Left(i) = Todo(t) /\ Complete(Todo(t))
      BY <1>1 DEF JobOK, Jobs, Left
<1> HIDE DEF t
<1>3. Len(t) \in Nat \ {0} /\ DOMAIN t = 1..Len(t) /\ \A k \in 1..Len(t) : t[k] \in Steps
      BY <1>2
<1>4. Len(t) \in DOMAIN t BY <1>3
<1>5. t[Len(t)] \in Todo(t) BY <1>4 DEF Todo
<1>6. ASSUME "release" \in Todo(t) PROVE t[Len(t)] = "release"
  <2>1. PICK k \in 1..Len(t) : t[k] = "release" BY <1>3, <1>6 DEF Todo
  <2>2. k < Len(t) => Rank("release") < Rank(t[Len(t)]) BY <2>1, <1>2, <1>3, <1>4 DEF Sorted
  <2>3. t[Len(t)] # "answer" BY <1>2, <1>5, <1>6 DEF Complete
  <2>4. ~(Rank("release") < Rank(t[Len(t)])) BY <2>3, <1>3, <1>4 DEF Rank, Steps
  <2>5. ~(k < Len(t)) BY <2>2, <2>4
  <2>6. k \in Int /\ Len(t) \in Int /\ k <= Len(t) BY <1>3
  <2>7. k = Len(t) BY <2>5, <2>6
  <2> QED BY <2>1, <2>7
<1>7. t[Len(t)] = "release" <=> "release" \in Todo(t) BY <1>5, <1>6
<1> QED BY <1>2, <1>7 DEF t

\* startDaemon returns early.
LEMMA Skips ==
  ASSUME JobsOK, NEW i \in 1..Slots, jobs[i] # None,
         jobs' = Goes(jobs, i, SkipStart(jobs[i]))
  PROVE  /\ JobsOK' /\ Others(i) /\ Left(i)' = Left(i) \cap {"release"}
         /\ jobs'[i] # None => /\ jobs'[i].user = jobs[i].user
                               /\ jobs'[i].token = jobs[i].token /\ jobs'[i].owner = jobs[i].owner
<1> DEFINE S == Left(i) \cap {"release"}
           t == IF "release" \in Left(i) THEN <<"release">> ELSE <<>>
<1>1. SkipStart(jobs[i]) = [jobs[i] EXCEPT !.todo = t]
      BY LastIsRelease DEF SkipStart, JobsOK, JobOK, Jobs
<1>2. Program(t, S)
  <2>1. CASE "release" \in Left(i)
    <3>1. Program(<<"release">>, {"release"}) BY Pieces DEF Steps
    <3>2. t = <<"release">> /\ S = {"release"} BY <2>1
    <3> QED BY <3>1, <3>2
  <2>2. CASE "release" \notin Left(i)
    <3>1. t = <<>> /\ S = {} BY <2>2
    <3>2. <<>> \in Seq(Steps) /\ DOMAIN <<>> = {} OBVIOUS
    <3>3. Program(<<>>, {}) BY <3>2 DEF Program, Sorted, Todo
    <3> QED BY <3>1, <3>3
  <2> QED BY <2>1, <2>2
<1>3. S \subseteq {"release"} OBVIOUS
<1>4. Complete(S) /\ "mint" \notin S BY <1>3 DEF Complete, Steps
<1>5. jobs' = Goes(jobs, i, [jobs[i] EXCEPT !.todo = t]) BY <1>1
<1> HIDE DEF S, t
<1>6. Left(i)' = S BY <1>2, <1>4, <1>5, GoesOnWith
<1>7. /\ JobsOK' /\ Others(i)
      /\ jobs'[i] # None => /\ jobs'[i].user = jobs[i].user
                            /\ jobs'[i].token = jobs[i].token /\ jobs'[i].owner = jobs[i].owner
      BY <1>2, <1>4, <1>5, GoesOnWith
<1> QED BY <1>6, <1>7 DEF S

\* The step at hand is one of the steps left.
LEMMA AtLeft ==
  ASSUME JobsOK, NEW i \in 1..Slots, NEW h, At(i, h)
  PROVE  /\ h \in Left(i) /\ jobs[i] # None /\ jobs[i] \in Jobs
         /\ \A s \in Left(i) \ {h} : Rank(h) < Rank(s)
<1>1. jobs[i] # None /\ JobOK(i) BY DEF At, JobsOK
<1>2. jobs[i].todo \in Seq(Steps) /\ jobs[i].todo # <<>> /\ Sorted(jobs[i].todo)
      BY <1>1 DEF JobOK, Jobs
<1>3. jobs[i].todo[1] \in Todo(jobs[i].todo)
      /\ \A s \in Todo(jobs[i].todo) : s # jobs[i].todo[1] => Rank(jobs[i].todo[1]) < Rank(s)
      BY <1>2, TailTodo
<1> QED BY <1>1, <1>3 DEF At, Left, JobOK

\* The jobs that are at work are those Busy sees.
LEMMA BusyWorks ==
  ASSUME JobsOK, NEW i \in 1..Slots
  PROVE  (jobs[i] # None /\ jobs[i].todo[1] # "answer") <=> Works(i)
<1>1. CASE jobs[i] = None BY <1>1 DEF Works, Left
<1>2. CASE jobs[i] # None
  <2>1. At(i, jobs[i].todo[1]) BY <1>2 DEF At
  <2>2. jobs[i].todo[1] \in Left(i) BY <2>1, AtLeft
  <2>3. Complete(Left(i)) BY <1>2 DEF JobsOK, JobOK
  <2> QED BY <1>2, <2>2, <2>3 DEF Works, Complete
<1> QED BY <1>1, <1>2

-----------------------------------------------------------------------------
(* Types and the guard *)

\* What a PAT is after its user revoked it.
LEMMA RevokedPat ==
  ASSUME NEW t \in Pat \cup {None}
  PROVE  /\ Revoked(t) \in Pat \cup {None} /\ (Revoked(t) = None <=> t = None)
         /\ t # None => Revoked(t).user = t.user
<1>1. CASE t = None BY <1>1 DEF Revoked
<1>2. CASE t # None
  <2>1. Revoked(t) = [t EXCEPT !.ok = FALSE] /\ t \in Pat BY <1>2 DEF Revoked
  <2>2. Revoked(t) \in Pat /\ Revoked(t).user = t.user BY <2>1 DEF Pat
  <2>3. None \notin Pat OBVIOUS
  <2> QED BY <1>2, <2>2, <2>3
<1> QED BY <1>1, <1>2

\* The jobs keep what they have to do when the tokens are revoked.
RevokedJobs ==
  /\ \A i \in 1..Slots : Left(i)' = Left(i) /\ (jobs'[i] = None <=> jobs[i] = None)
  /\ \A i \in 1..Slots : jobs[i] # None =>
       /\ jobs'[i].user = jobs[i].user /\ jobs'[i].owner = jobs[i].owner
       /\ jobs[i].token \in Pat \cup {None} /\ jobs'[i].token = Revoked(jobs[i].token)

\* Revoking changes the token a job holds and nothing else of it.
LEMMA RevokeJobs ==
  ASSUME TypeInv, Revoke PROVE JobsOK' /\ RevokedJobs
<1>1. JobsOK BY DEF TypeInv
<1>2. jobs' = [i \in 1..Slots |->
                IF jobs[i] = None THEN None ELSE [jobs[i] EXCEPT !.token = Revoked(@)]]
      BY <1>1 DEF Revoke, JobsOK
<1>3. ASSUME NEW i \in 1..Slots, jobs[i] # None
      PROVE  /\ jobs'[i] \in Jobs /\ jobs'[i] # None
             /\ jobs'[i].todo = jobs[i].todo /\ jobs'[i].user = jobs[i].user
             /\ jobs'[i].owner = jobs[i].owner
             /\ jobs[i].token \in Pat \cup {None} /\ jobs'[i].token = Revoked(jobs[i].token)
  <2>1. jobs[i] \in Jobs BY <1>1, <1>3 DEF JobsOK
  <2>2. jobs[i].token \in Pat \cup {None} BY <2>1 DEF Jobs
  <2>3. Revoked(jobs[i].token) \in Pat \cup {None} BY <2>2, RevokedPat
  <2>4. jobs'[i] = [jobs[i] EXCEPT !.token = Revoked(@)] BY <1>2, <1>3
  <2>5. jobs'[i] \in Jobs BY <2>1, <2>3, <2>4 DEF Jobs
  <2>6. None \notin Jobs OBVIOUS
  <2> QED BY <2>1, <2>2, <2>4, <2>5, <2>6 DEF Jobs
<1>4. \A i \in 1..Slots : jobs[i] = None => jobs'[i] = None BY <1>2
<1>5. RevokedJobs BY <1>3, <1>4 DEF RevokedJobs, Left
<1>6. jobs' \in [1..Slots -> Jobs \cup {None}]
  <2>1. \A i \in 1..Slots : jobs'[i] \in Jobs \cup {None} BY <1>3, <1>4
  <2> QED BY <2>1, <1>2
<1>7. \A i \in 1..Slots : jobs'[i] # None => JobOK(i)'
  <2> SUFFICES ASSUME NEW i \in 1..Slots, jobs'[i] # None PROVE JobOK(i)'
      OBVIOUS
  <2>1. jobs[i] # None /\ JobOK(i) BY <1>1, <1>4 DEF JobsOK
  <2> QED BY <2>1, <1>3, <1>5 DEF JobOK, RevokedJobs
<1> QED BY <1>5, <1>6, <1>7 DEF JobsOK

\* A relaunch leaves one job: the login of the session it restores, or a logout.
LEMMA RelaunchJobs ==
  ASSUME TypeInv, Relaunch
  PROVE  /\ JobsOK' /\ 1 \in 1..Slots /\ \A k \in (1..Slots) \ {1} : Left(k)' = {}
         /\ jobs'[1] # None /\ jobs'[1].user = session'
         /\ jobs'[1].token = None /\ jobs'[1].owner = None
         /\ Left(1)' = IF session' = None THEN LogoutSteps ELSE LoginSteps
<1> DEFINE P == IF session' = None THEN Logout ELSE Login
           S == IF session' = None THEN LogoutSteps ELSE LoginSteps
<1>1. session' \in Users \cup {None} BY DEF Relaunch, TypeInv
<1>2. Program(P, S) /\ S # {} BY Programs DEF LogoutSteps, LoginSteps
<1>3. Complete(S) /\ ("mint" \in S => session' # None)
  <2>1. CASE session' = None BY <2>1 DEF Complete, Steps, LogoutSteps
  <2>2. CASE session' # None BY <2>2 DEF Complete, Steps, LoginSteps
  <2> QED BY <2>1, <2>2
<1>4. DOMAIN jobs = 1..Slots BY DEF TypeInv, JobsOK
<1>5. jobs' = [i \in 1..Slots |-> IF i = 1 THEN Job(P, session') ELSE None]
      BY <1>4 DEF Relaunch
<1> HIDE DEF P, S
<1>6. /\ Job(P, session') \in Jobs /\ Job(P, session').todo = P /\ Job(P, session').user = session'
      /\ Job(P, session').token = None /\ Job(P, session').owner = None
      BY <1>1, <1>2, NewJob
<1>7. 1 \in 1..Slots OBVIOUS
<1>8. None \notin Jobs OBVIOUS
<1>9. jobs'[1] = Job(P, session') /\ jobs'[1] # None BY <1>5, <1>6, <1>7, <1>8
<1>10. \A k \in (1..Slots) \ {1} : jobs'[k] = None BY <1>5
<1>11. Sorted(P) /\ Todo(P) = S /\ P # <<>>
  <2>1. Todo(<<>>) = {} BY DEF Todo
  <2> QED BY <2>1, <1>2 DEF Program
<1>12. Left(1)' = S BY <1>6, <1>9, <1>11 DEF Left
<1>13. JobOK(1)' BY <1>3, <1>6, <1>9, <1>11, <1>12 DEF JobOK
<1>14. jobs' \in [1..Slots -> Jobs \cup {None}] BY <1>5, <1>6
<1>15. JobsOK' BY <1>10, <1>13, <1>14 DEF JobsOK
<1>16. \A k \in (1..Slots) \ {1} : Left(k)' = {} BY <1>10 DEF Left
<1> QED BY <1>6, <1>7, <1>9, <1>12, <1>15, <1>16 DEF S

\* A read or a mint keeps the user of the job, and what else it holds.
LEMMA Reads ==
  ASSUME JobsOK, NEW i \in 1..Slots, NEW h, At(i, h), NEW t \in Pat \cup {None},
         NEW u \in Users \cup {None},
         jobs' = Goes(jobs, i, [Next1(jobs[i]) EXCEPT !.token = t, !.owner = u])
  PROVE  /\ Does(i, h) /\ JobsOK'
         /\ jobs'[i] # None => jobs'[i].token = t /\ jobs'[i].owner = u
<1> DEFINE j == [Next1(jobs[i]) EXCEPT !.token = t, !.owner = u]
<1>1. jobs[i] \in Jobs /\ jobs[i].todo # <<>> BY DEF At, JobsOK, JobOK
<1>2. Tail(jobs[i].todo) \in Seq(Steps) BY <1>1 DEF Jobs
<1>3. /\ j \in Jobs /\ j.todo = Tail(jobs[i].todo) /\ j.user = jobs[i].user
      /\ j.token = t /\ j.owner = u
      BY <1>1, <1>2 DEF Next1, Jobs
<1>4. jobs' = Goes(jobs, i, j) OBVIOUS
<1> HIDE DEF j
<1> QED BY <1>3, <1>4, GoesOn

\* The steps that only read: what the job holds afterwards.
LEMMA ReadsWhat ==
  ASSUME TypeInv, NEW i \in 1..Slots
  PROVE  /\ ReadConfig(i) => Does(i, "readConfig") /\ JobsOK'
              /\ (jobs'[i] # None => jobs'[i].token = token /\ jobs'[i].owner = jobs[i].owner)
         /\ ReadOwner(i) => Does(i, "readOwner") /\ JobsOK'
              /\ (jobs'[i] # None => jobs'[i].token = jobs[i].token /\ jobs'[i].owner = owner)
         /\ ReadToken(i) => Does(i, "readToken") /\ JobsOK'
              /\ (jobs'[i] # None => jobs'[i].token = token /\ jobs'[i].owner = jobs[i].owner)
         /\ Mint(i) => Does(i, "mint") /\ JobsOK'
              /\ (jobs'[i] # None =>
                    /\ jobs'[i].owner = jobs[i].owner
                    /\ jobs'[i].token = IF Reuses(jobs[i]) THEN jobs[i].token
                                        ELSE [user |-> jobs[i].user, ok |-> TRUE])
<1>1. JobsOK /\ token \in Pat \cup {None} /\ owner \in Users \cup {None} BY DEF TypeInv
<1>2. ASSUME jobs[i] # None
      PROVE  /\ jobs[i] \in Jobs /\ jobs[i].todo \in Seq(Steps)
             /\ jobs[i].token \in Pat \cup {None} /\ jobs[i].owner \in Users \cup {None}
  <2>1. jobs[i] \in Jobs BY <1>1, <1>2 DEF JobsOK
  <2> QED BY <2>1 DEF Jobs
<1>3. ASSUME NEW h, At(i, h), NEW t, jobs' = Goes(jobs, i, [Next1(jobs[i]) EXCEPT !.token = t])
      PROVE  jobs' = Goes(jobs, i, [Next1(jobs[i]) EXCEPT !.token = t, !.owner = jobs[i].owner])
  <2>1. jobs[i] \in Jobs BY <1>2, <1>3 DEF At
  <2>2. [Next1(jobs[i]) EXCEPT !.token = t]
          = [Next1(jobs[i]) EXCEPT !.token = t, !.owner = jobs[i].owner]
        BY <2>1 DEF Next1, Jobs
  <2> QED BY <2>2, <1>3
<1>4. ReadConfig(i) => Does(i, "readConfig") /\ JobsOK'
        /\ (jobs'[i] # None => jobs'[i].token = token /\ jobs'[i].owner = jobs[i].owner)
  <2> SUFFICES ASSUME ReadConfig(i)
               PROVE  Does(i, "readConfig") /\ JobsOK'
                      /\ (jobs'[i] # None => jobs'[i].token = token /\ jobs'[i].owner = jobs[i].owner)
      OBVIOUS
  <2>1. /\ At(i, "readConfig") /\ jobs[i] # None
        /\ jobs' = Goes(jobs, i, [Next1(jobs[i]) EXCEPT !.token = token])
        BY DEF ReadConfig, At
  <2>2. jobs' = Goes(jobs, i, [Next1(jobs[i]) EXCEPT !.token = token, !.owner = jobs[i].owner])
        BY <2>1, <1>3
  <2> QED BY <2>1, <2>2, <1>1, <1>2, Reads
<1>5. ReadToken(i) => Does(i, "readToken") /\ JobsOK'
        /\ (jobs'[i] # None => jobs'[i].token = token /\ jobs'[i].owner = jobs[i].owner)
  <2> SUFFICES ASSUME ReadToken(i)
               PROVE  Does(i, "readToken") /\ JobsOK'
                      /\ (jobs'[i] # None => jobs'[i].token = token /\ jobs'[i].owner = jobs[i].owner)
      OBVIOUS
  <2>1. /\ At(i, "readToken") /\ jobs[i] # None
        /\ jobs' = Goes(jobs, i, [Next1(jobs[i]) EXCEPT !.token = token])
        BY DEF ReadToken, At
  <2>2. jobs' = Goes(jobs, i, [Next1(jobs[i]) EXCEPT !.token = token, !.owner = jobs[i].owner])
        BY <2>1, <1>3
  <2> QED BY <2>1, <2>2, <1>1, <1>2, Reads
<1>6. ReadOwner(i) => Does(i, "readOwner") /\ JobsOK'
              /\ (jobs'[i] # None => jobs'[i].token = jobs[i].token /\ jobs'[i].owner = owner)
  <2> SUFFICES ASSUME ReadOwner(i)
               PROVE  Does(i, "readOwner") /\ JobsOK'
                      /\ (jobs'[i] # None => jobs'[i].token = jobs[i].token /\ jobs'[i].owner = owner)
      OBVIOUS
  <2>1. /\ At(i, "readOwner") /\ jobs[i] # None
        /\ jobs' = Goes(jobs, i, [Next1(jobs[i]) EXCEPT !.owner = owner])
        BY DEF ReadOwner, At
  <2>2. [Next1(jobs[i]) EXCEPT !.owner = owner]
          = [Next1(jobs[i]) EXCEPT !.token = jobs[i].token, !.owner = owner]
        BY <2>1, <1>2 DEF Next1, Jobs
  <2>3. jobs' = Goes(jobs, i, [Next1(jobs[i]) EXCEPT !.token = jobs[i].token, !.owner = owner])
        BY <2>1, <2>2
  <2> QED BY <2>1, <2>3, <1>1, <1>2, Reads
<1>7. Mint(i) => Does(i, "mint") /\ JobsOK'
              /\ (jobs'[i] # None =>
                    /\ jobs'[i].owner = jobs[i].owner
                    /\ jobs'[i].token = IF Reuses(jobs[i]) THEN jobs[i].token
                                        ELSE [user |-> jobs[i].user, ok |-> TRUE])
  <2> DEFINE t == IF Reuses(jobs[i]) THEN jobs[i].token ELSE [user |-> jobs[i].user, ok |-> TRUE]
  <2> SUFFICES ASSUME Mint(i)
               PROVE  Does(i, "mint") /\ JobsOK'
                      /\ (jobs'[i] # None => jobs'[i].owner = jobs[i].owner /\ jobs'[i].token = t)
      OBVIOUS
  <2>1. At(i, "mint") /\ jobs[i] # None BY DEF Mint, At
  <2>2. jobs[i].user \in Users
    <3>1. "mint" \in Left(i) /\ JobOK(i) BY <2>1, <1>1, AtLeft DEF JobsOK
    <3> QED BY <3>1, <1>2, <2>1 DEF JobOK, Jobs
  <2>3. t \in Pat \cup {None} BY <1>2, <2>1, <2>2 DEF Pat
  <2>4. jobs' = Goes(jobs, i, [Next1(jobs[i]) EXCEPT !.token = t, !.owner = jobs[i].owner])
    <3>1. CASE Reuses(jobs[i])
      <4>1. Next1(jobs[i]) = [Next1(jobs[i]) EXCEPT !.token = jobs[i].token, !.owner = jobs[i].owner]
            BY <1>2, <2>1 DEF Next1, Jobs
      <4>2. jobs' = Goes(jobs, i, Next1(jobs[i])) BY <3>1 DEF Mint
      <4> QED BY <4>1, <4>2, <3>1
    <3>2. CASE ~Reuses(jobs[i])
      <4>1. jobs' = Goes(jobs, i, [Next1(jobs[i]) EXCEPT !.token = [user |-> jobs[i].user, ok |-> TRUE]])
            BY <3>2 DEF Mint
      <4> QED BY <4>1, <3>2, <2>1, <1>3
    <3> QED BY <3>1, <3>2
  <2> HIDE DEF t
  <2> QED BY <2>1, <2>3, <2>4, <1>1, <1>2, Reads
<1> QED BY <1>4, <1>5, <1>6, <1>7

\* Going on with the steps, by action.
LEMMA Advances ==
  ASSUME JobsOK, NEW i \in 1..Slots
  PROVE  \A h : At(i, h) /\ Continue(i) =>
           /\ Does(i, h) /\ JobsOK'
           /\ jobs'[i] # None => jobs'[i].token = jobs[i].token /\ jobs'[i].owner = jobs[i].owner
BY Continues

\* What switch does: its job goes on, and a restart may begin in another slot.
LEMMA Switches ==
  ASSUME JobsOK, NEW i \in 1..Slots, Switch(i)
  PROVE  /\ JobsOK'
         /\ \/ /\ ~(UserChanged(jobs[i]) /\ Alive)
               /\ Does(i, "switch")
               /\ jobs'[i] # None => jobs'[i].token = jobs[i].token /\ jobs'[i].owner = jobs[i].owner
            \/ /\ UserChanged(jobs[i]) /\ Alive
               /\ \E k \in 1..Slots :
                    /\ k = i => Left(i) = {"switch"}
                    /\ k # i => Left(k) = {}
                    /\ jobs'[k] # None /\ jobs'[k].user = jobs[i].user
                    /\ Left(k)' = {"stop", "kill", "stopped", "start", "spawn", "wait"}
                    /\ k # i => /\ Left(i)' = Left(i) \ {"switch"}
                                /\ jobs'[i] # None => jobs'[i].user = jobs[i].user
                    /\ \A l \in (1..Slots) \ {i, k} : jobs'[l] = jobs[l] /\ Left(l)' = Left(l)
<1> DEFINE j == Next1(jobs[i])
           n == Goes(jobs, i, j)
           R == Job(RestartDaemon, jobs[i].user)
           S == {"stop", "kill", "stopped", "start", "spawn", "wait"}
<1>1. At(i, "switch") BY DEF Switch
<1>2. jobs[i] # None /\ jobs[i] \in Jobs /\ "switch" \in Left(i) BY <1>1, AtLeft
<1>3. CASE ~(UserChanged(jobs[i]) /\ Alive)
  <2>1. Continue(i) BY <1>3 DEF Switch, Continue
  <2> QED BY <1>1, <1>3, <2>1, Continues
<1>4. CASE UserChanged(jobs[i]) /\ Alive
  <2>1. (\E k \in DOMAIN n : n[k] = None) /\ jobs' = Begins(n, R) BY <1>4 DEF Switch
  <2>2. jobs[i].todo \in Seq(Steps) /\ jobs[i].todo # <<>> /\ Sorted(jobs[i].todo)
        /\ jobs[i].todo[1] = "switch" /\ Left(i) = Todo(jobs[i].todo)
        BY <1>1, <1>2 DEF At, JobsOK, JobOK, Jobs, Left
  <2>3. /\ Tail(jobs[i].todo) \in Seq(Steps) /\ Sorted(Tail(jobs[i].todo))
        /\ Todo(Tail(jobs[i].todo)) = Left(i) \ {"switch"}
        /\ (Tail(jobs[i].todo) = <<>> <=> Todo(Tail(jobs[i].todo)) = {})
        /\ \A s \in Left(i) \ {"switch"} : Rank("switch") < Rank(s)
        BY <2>2, TailTodo
  <2>4. j \in Jobs /\ j.todo = Tail(jobs[i].todo) /\ j.user = jobs[i].user
        BY <1>2, <2>3 DEF Next1, Jobs
  <2>5. n = [jobs EXCEPT ![i] = IF Tail(jobs[i].todo) = <<>> THEN None ELSE j] BY <2>4 DEF Goes
  <2>6. /\ R \in Jobs /\ R.todo = RestartDaemon /\ R.user = jobs[i].user
    <3>1. jobs[i].user \in Users \cup {None} BY <1>2 DEF Jobs
    <3> QED BY <3>1, Programs, NewJob
  <2> HIDE DEF j, n, R
  <2>7. /\ n \in [1..Slots -> Jobs \cup {None}] /\ \A l \in (1..Slots) \ {i} : n[l] = jobs[l]
        /\ n[i] = IF Tail(jobs[i].todo) = <<>> THEN None ELSE j
        BY <2>4, <2>5 DEF JobsOK
  <2>8. PICK k \in 1..Slots :
           /\ n[k] = None /\ jobs'[k] = R /\ jobs' \in [1..Slots -> Jobs \cup {None}]
           /\ \A l \in (1..Slots) \ {k} : jobs'[l] = n[l]
        BY <2>1, <2>6, <2>7, BeginsAt
  <2>9. None \notin Jobs OBVIOUS
  <2>10. Sorted(RestartDaemon) /\ Todo(RestartDaemon) = S /\ RestartDaemon # <<>>
    <3>1. Todo(<<>>) = {} BY DEF Todo
    <3> QED BY <3>1, Programs DEF Program
  <2>11. Left(k)' = S /\ jobs'[k] # None BY <2>6, <2>8, <2>9, <2>10 DEF Left
  <2>12. k = i => Left(i) = {"switch"} BY <1>2, <2>3, <2>4, <2>7, <2>8, <2>9
  <2>13. k # i => Left(k) = {} BY <2>7, <2>8 DEF Left
  <2>14. \A l \in (1..Slots) \ {i, k} : jobs'[l] = jobs[l] /\ Left(l)' = Left(l)
         BY <2>7, <2>8 DEF Left
  <2>15. k # i => /\ Left(i)' = Left(i) \ {"switch"}
                  /\ jobs'[i] # None => jobs'[i] = j
    <3> SUFFICES ASSUME k # i PROVE /\ Left(i)' = Left(i) \ {"switch"}
                                    /\ jobs'[i] # None => jobs'[i] = j
        OBVIOUS
    <3>1. jobs'[i] = IF Tail(jobs[i].todo) = <<>> THEN None ELSE j BY <2>7, <2>8
    <3>2. CASE Tail(jobs[i].todo) = <<>> BY <3>1, <3>2, <2>3 DEF Left
    <3>3. CASE Tail(jobs[i].todo) # <<>>
      <4>1. jobs'[i] = j /\ j # None BY <3>1, <3>3, <2>4, <2>9
      <4> QED BY <4>1, <2>3, <2>4 DEF Left
    <3> QED BY <3>2, <3>3
  <2>16. JobOK(k)'
    <3>1. Complete(S) /\ "mint" \notin S BY DEF Complete, Steps
    <3> QED BY <3>1, <2>6, <2>8, <2>10, <2>11 DEF JobOK
  <2>17. k # i /\ jobs'[i] # None => JobOK(i)'
    <3> SUFFICES ASSUME k # i, jobs'[i] # None PROVE JobOK(i)'
        OBVIOUS
    <3>1. jobs'[i] = j /\ Left(i)' = Left(i) \ {"switch"} BY <2>15
    <3>2. Tail(jobs[i].todo) # <<>> BY <2>7, <2>8
    <3>3. JobOK(i) BY <1>2 DEF JobsOK
    <3>4. Complete(Left(i) \ {"switch"}) BY <3>3, <1>2, <2>3, CompleteTail DEF JobOK
    <3>5. "mint" \in Left(i)' => j.user # None BY <3>1, <3>3, <2>4 DEF JobOK
    <3> QED BY <3>1, <3>2, <3>4, <3>5, <2>3, <2>4 DEF JobOK
  <2>18. \A l \in (1..Slots) \ {i, k} : jobs'[l] # None => JobOK(l)'
         BY <2>14 DEF JobsOK, JobOK
  <2>19. JobsOK' BY <2>8, <2>16, <2>17, <2>18 DEF JobsOK
  <2>20. jobs'[k].user = jobs[i].user BY <2>6, <2>8
  <2>21. k # i => (jobs'[i] # None => jobs'[i].user = jobs[i].user) BY <2>15, <2>4
  <2>22. \E q \in 1..Slots :
                    /\ q = i => Left(i) = {"switch"}
                    /\ q # i => Left(q) = {}
                    /\ jobs'[q] # None /\ jobs'[q].user = jobs[i].user
                    /\ Left(q)' = S
                    /\ q # i => /\ Left(i)' = Left(i) \ {"switch"}
                                /\ jobs'[i] # None => jobs'[i].user = jobs[i].user
                    /\ \A l \in (1..Slots) \ {i, q} : jobs'[l] = jobs[l] /\ Left(l)' = Left(l)
    <3> HIDE DEF S
    <3> QED BY <2>11, <2>12, <2>13, <2>14, <2>15, <2>20, <2>21
  <2> QED BY <1>4, <2>19, <2>22
<1> QED BY <1>3, <1>4

\* What the calls of the renderer begin.
Called(steps, u, S) ==
  /\ JobsOK' /\ \E i \in 1..Slots : Gets(i, Job(steps, u), S)
  /\ Job(steps, u).user = u /\ Job(steps, u).token = None /\ Job(steps, u).owner = None

\* A call whose steps come together.
LEMMA Calls ==
  ASSUME JobsOK, NEW t, NEW u \in Users \cup {None}, NEW S, Program(t, S), S # {}, Complete(S),
         "mint" \in S => u # None, Acts(t, u)
  PROVE  Called(t, u, S)
<1>1. /\ Job(t, u) \in Jobs /\ Job(t, u).todo = t /\ Job(t, u).user = u
      /\ Job(t, u).token = None /\ Job(t, u).owner = None
      BY NewJob
<1>2. Free # {} /\ jobs' = Begins(jobs, Job(t, u)) BY DEF Acts
<1> QED BY <1>1, <1>2, Starts DEF Called

\* The calls of the renderer, one by one.
LEMMA CallsWhat ==
  ASSUME TypeInv
  PROVE  /\ \A u \in Users : LogIn(u) => Called(Login, u, LoginSteps)
         /\ LogOut => Called(Logout, None, LogoutSteps)
         /\ Reauth => Called(Reauthenticate, session, ReauthSteps)
         /\ Press => \E t : \E S \in SUBSET PressSteps :
                       "enter" \in S /\ Called(t, session, S)
<1>1. JobsOK /\ session \in Users \cup {None} /\ None \notin Users BY DEF TypeInv
<1>2. ASSUME NEW u \in Users, LogIn(u) PROVE Called(Login, u, LoginSteps)
  <2>1. Acts(Login, u) BY <1>2 DEF LogIn
  <2>2. Complete(LoginSteps) /\ LoginSteps # {} BY DEF Complete, Steps, LoginSteps
  <2>3. Program(Login, LoginSteps) BY Programs DEF LoginSteps
  <2> QED BY <1>1, <2>1, <2>2, <2>3, Calls
<1>3. ASSUME LogOut PROVE Called(Logout, None, LogoutSteps)
  <2>1. Acts(Logout, None) BY <1>3 DEF LogOut
  <2>2. Complete(LogoutSteps) /\ LogoutSteps # {} /\ "mint" \notin LogoutSteps
        BY DEF Complete, Steps, LogoutSteps
  <2>3. Program(Logout, LogoutSteps) BY Programs DEF LogoutSteps
  <2> QED BY <1>1, <2>1, <2>2, <2>3, Calls
<1>4. ASSUME Reauth PROVE Called(Reauthenticate, session, ReauthSteps)
  <2>1. Acts(Reauthenticate, session) /\ session # None BY <1>4 DEF Reauth
  <2>2. Complete(ReauthSteps) /\ ReauthSteps # {} BY DEF Complete, Steps, ReauthSteps
  <2>3. Program(Reauthenticate, ReauthSteps) BY Programs DEF ReauthSteps
  <2> QED BY <1>1, <2>1, <2>2, <2>3, Calls
<1>5. ASSUME Press PROVE \E t : \E S \in SUBSET PressSteps : "enter" \in S /\ Called(t, session, S)
  <2>1. ASSUME NEW t, NEW S \in SUBSET PressSteps, Program(t, S), Acts(t, session),
               "enter" \in S, "release" \in S
        PROVE  Called(t, session, S)
    <3>1. Complete(S) /\ S # {} /\ "mint" \notin S BY <2>1 DEF Complete, Steps, PressSteps
    <3> QED BY <1>1, <2>1, <3>1, Calls
  <2>2. CASE Acts(Guarded(StartDaemon), session)
        BY <2>1, <2>2, GuardedPrograms DEF PressSteps
  <2>3. CASE Acts(Guarded(StopDaemon), session)
        BY <2>1, <2>3, GuardedPrograms DEF PressSteps
  <2>4. CASE Acts(Guarded(RestartDaemon), session)
        BY <2>1, <2>4, GuardedPrograms DEF PressSteps
  <2> QED BY <1>5, <2>2, <2>3, <2>4 DEF Press
<1> QED BY <1>2, <1>3, <1>4, <1>5

\* The job of a probe.
LEMMA ProbeBegins ==
  ASSUME TypeInv, Probe
  PROVE  JobsOK' /\ \E i \in 1..Slots, j \in Jobs : Gets(i, j, {"answer"})
<1> DEFINE j == [Job(<<"answer">>, None) EXCEPT !.token = token, !.booting = Alive]
<1>1. j \in Jobs /\ j.todo = <<"answer">>
  <2>1. Alive \in BOOLEAN BY DEF Alive
  <2>2. <<"answer">> \in Seq(Steps) BY DEF Steps
  <2> QED BY <2>1, <2>2 DEF Job, Jobs, TypeInv
<1>2. Free # {} /\ jobs' = Begins(jobs, j) BY DEF Probe
<1> HIDE DEF j
<1>3. Program(j.todo, {"answer"}) BY <1>1, Pieces DEF Steps
<1>4. Complete({"answer"}) BY DEF Complete, Steps
<1>5. JobsOK BY DEF TypeInv
<1> QED BY <1>1, <1>2, <1>3, <1>4, <1>5, Starts

\* What a job's other steps leave of it: the session's steps, the user and what was read.
Kept(i) ==
  /\ Others(i)
  /\ \A s \in FileSteps : s \in Left(i)' <=> s \in Left(i)
  /\ "enter" \notin Left(i) => "enter" \notin Left(i)'
  /\ Works(i)' => Works(i)
  /\ jobs'[i] # None => /\ jobs'[i].user = jobs[i].user
                        /\ jobs'[i].token = jobs[i].token /\ jobs'[i].owner = jobs[i].owner
  /\ "release" \in Left(i)' => "release" \in Left(i)

\* A step of no session, and no kill, is one of these.
OtherSteps == {"auto", "enter", "stop", "stopped", "start", "spawn", "wait", "release", "answer"}

\* Doing one of the other steps keeps the rest of the job.
LEMMA DoesKeeps ==
  ASSUME NEW i \in 1..Slots, NEW h \in OtherSteps, Does(i, h),
         jobs'[i] # None => jobs'[i].token = jobs[i].token /\ jobs'[i].owner = jobs[i].owner
  PROVE  Kept(i) /\ ("kill" \in Left(i) => "kill" \in Left(i)')
BY DEF Does, Kept, OtherSteps, FileSteps, Works

\* What the other steps do, by action.
LEMMA OtherActions ==
  ASSUME TypeInv, NEW i \in 1..Slots,
         \/ Release(i) \/ AutoStart(i) \/ Start(i) \/ Spawn(i) \/ Wait(i)
         \/ Stop(i) \/ Stopped(i) \/ Answer(i)
  PROVE  JobsOK' /\ Kept(i) /\ ("kill" \in Left(i) => "kill" \in Left(i)')
<1>1. JobsOK BY DEF TypeInv
<1>2. ASSUME NEW h \in OtherSteps, At(i, h), Continue(i)
      PROVE  JobsOK' /\ Kept(i) /\ ("kill" \in Left(i) => "kill" \in Left(i)')
      BY <1>1, <1>2, Continues, DoesKeeps
<1>3. ASSUME NEW h \in {"start", "spawn"}, At(i, h), jobs' = Goes(jobs, i, SkipStart(jobs[i]))
      PROVE  JobsOK' /\ Kept(i) /\ ("kill" \in Left(i) => "kill" \in Left(i)')
  <2>1. h \in Left(i) /\ jobs[i] # None /\ \A s \in Left(i) \ {h} : Rank(h) < Rank(s)
        BY <1>1, <1>3, AtLeft
  <2>2. /\ JobsOK' /\ Others(i) /\ Left(i)' = Left(i) \cap {"release"}
        /\ jobs'[i] # None => /\ jobs'[i].user = jobs[i].user
                              /\ jobs'[i].token = jobs[i].token /\ jobs'[i].owner = jobs[i].owner
        BY <1>1, <1>3, <2>1, Skips
  <2>3. ASSUME NEW s \in FileSteps \cup {"kill"} PROVE s \notin Left(i)
    <3>1. s # h /\ ~(Rank(h) < Rank(s)) BY <1>3, <2>3 DEF FileSteps, Rank
    <3> QED BY <2>1, <3>1
  <2>4. \A s \in FileSteps : s \in Left(i)' <=> s \in Left(i)
        BY <2>2, <2>3 DEF FileSteps
  <2>5. "kill" \notin Left(i) BY <2>3
  <2>6. Works(i)' => Works(i) BY <2>2 DEF Works
  <2> QED BY <2>2, <2>4, <2>5, <2>6 DEF Kept
<1>4. CASE AutoStart(i)
  <2>1. At(i, "auto") /\ jobs[i] # None BY <1>4 DEF AutoStart, At
  <2>2. "auto" \in Left(i) /\ JobOK(i) /\ \A s \in Left(i) \ {"auto"} : Rank("auto") < Rank(s)
        BY <1>1, <2>1, AtLeft DEF JobsOK
  <2>3. CASE jobs' = Goes(jobs, i, Next1(jobs[i]))
        BY <2>1, <2>3, <1>2 DEF Continue, OtherSteps
  <2>4. CASE jobs' = Goes(jobs, i, [jobs[i] EXCEPT !.todo = StartDaemon])
    <3>1. Program(StartDaemon, {"start", "spawn", "wait"}) BY Pieces
    <3>2. Complete({"start", "spawn", "wait"}) BY DEF Complete, Steps
    <3>3. /\ JobsOK' /\ Others(i) /\ Left(i)' = {"start", "spawn", "wait"}
          /\ jobs'[i] # None => /\ jobs'[i].user = jobs[i].user
                                /\ jobs'[i].token = jobs[i].token /\ jobs'[i].owner = jobs[i].owner
          BY <1>1, <2>1, <2>4, <3>1, <3>2, GoesOnWith
    <3>4. ASSUME NEW s \in FileSteps PROVE s \notin Left(i)
      <4>1. s # "auto" /\ ~(Rank("auto") < Rank(s)) BY <3>4 DEF FileSteps, Rank
      <4> QED BY <2>2, <4>1
    <3>5. \A s \in FileSteps : s \in Left(i)' <=> s \in Left(i)
          BY <3>3, <3>4 DEF FileSteps
    <3>6. "kill" \notin Left(i) BY <2>2 DEF JobOK, Complete
    <3>7. Works(i) BY <2>2 DEF Works
    <3> QED BY <2>2, <3>3, <3>5, <3>6, <3>7 DEF Kept
  <2> QED BY <1>4, <2>3, <2>4 DEF AutoStart
<1>5. CASE Start(i) BY <1>2, <1>3, <1>5 DEF Start, OtherSteps
<1>6. CASE Spawn(i) BY <1>2, <1>3, <1>6 DEF Spawn, OtherSteps
<1>7. CASE Release(i) BY <1>2, <1>7 DEF Release, OtherSteps
<1>8. CASE Wait(i) BY <1>2, <1>8 DEF Wait, OtherSteps
<1>9. CASE Stop(i) BY <1>2, <1>9 DEF Stop, OtherSteps
<1>10. CASE Stopped(i) BY <1>2, <1>10 DEF Stopped, OtherSteps
<1>11. CASE Answer(i) BY <1>2, <1>11 DEF Answer, OtherSteps
<1> QED BY <1>4, <1>5, <1>6, <1>7, <1>8, <1>9, <1>10, <1>11

\* An operation is let in, or refused while another is under way.
LEMMA EnterWhat ==
  ASSUME TypeInv, NEW i \in 1..Slots, Enter(i)
  PROVE  /\ JobsOK' /\ Kept(i) /\ "enter" \in Left(i)
         /\ \/ ~guard /\ guard' /\ Does(i, "enter") /\ ("kill" \in Left(i) => "kill" \in Left(i)')
            \/ guard /\ guard' = guard /\ Left(i)' = {}
<1>1. JobsOK /\ guard \in BOOLEAN BY DEF TypeInv
<1>2. At(i, "enter") BY DEF Enter
<1>3. "enter" \in Left(i) /\ \A s \in Left(i) \ {"enter"} : Rank("enter") < Rank(s)
      BY <1>1, <1>2, AtLeft
<1>4. CASE guard
  <2>1. jobs' = [jobs EXCEPT ![i] = None] /\ guard' = guard BY <1>4 DEF Enter
  <2>2. JobsOK' /\ Others(i) /\ Left(i)' = {} /\ jobs'[i] = None BY <1>1, <2>1, Ends
  <2>3. ASSUME NEW s \in FileSteps PROVE s \notin Left(i)
    <3>1. s # "enter" /\ ~(Rank("enter") < Rank(s)) BY <2>3 DEF FileSteps, Rank
    <3> QED BY <1>3, <3>1
  <2>4. \A s \in FileSteps : s \in Left(i)' <=> s \in Left(i) BY <2>2, <2>3
  <2>5. ~Works(i)' BY <2>2 DEF Works
  <2> QED BY <1>3, <1>4, <2>1, <2>2, <2>4, <2>5 DEF Kept
<1>5. CASE ~guard
  <2>1. Continue(i) /\ guard' BY <1>5 DEF Enter
  <2>2. /\ Does(i, "enter") /\ JobsOK'
        /\ jobs'[i] # None => jobs'[i].token = jobs[i].token /\ jobs'[i].owner = jobs[i].owner
        BY <1>1, <1>2, <2>1, Continues
  <2>3. Kept(i) /\ ("kill" \in Left(i) => "kill" \in Left(i)') BY <2>2, DoesKeeps DEF OtherSteps
  <2> QED BY <1>3, <1>5, <2>1, <2>2, <2>3
<1> QED BY <1>4, <1>5

\* The jobs keep their form, whatever happens.
LEMMA JobsStep == TypeInv /\ [Next]_vars => JobsOK'
<1> SUFFICES ASSUME TypeInv, [Next]_vars PROVE JobsOK'
    OBVIOUS
<1>1. JobsOK BY DEF TypeInv
<1>2. ASSUME jobs' = jobs PROVE JobsOK' BY <1>1, <1>2 DEF JobsOK, JobOK, Left
<1>3. ASSUME NEW i \in 1..Slots, Step(i) \/ MintFails(i) PROVE JobsOK'
  <2>1. CASE ReadConfig(i) \/ ReadOwner(i) \/ ReadToken(i) \/ Mint(i) BY <2>1, ReadsWhat
  <2>2. CASE WriteConfig(i) BY <2>2, <1>1, Advances DEF WriteConfig
  <2>3. CASE WriteOwner(i) BY <2>3, <1>1, Advances DEF WriteOwner
  <2>4. CASE ClearConfig(i) BY <2>4, <1>1, Advances DEF ClearConfig
  <2>5. CASE ClearOwner(i) BY <2>5, <1>1, Advances DEF ClearOwner
  <2>6. CASE Kill(i) BY <2>6, <1>1, Advances DEF Kill
  <2>7. CASE Switch(i) BY <2>7, <1>1, Switches
  <2>8. CASE Enter(i) BY <2>8, EnterWhat
  <2>9. CASE \/ Release(i) \/ AutoStart(i) \/ Start(i) \/ Spawn(i) \/ Wait(i)
             \/ Stop(i) \/ Stopped(i) \/ Answer(i)
        BY <2>9, OtherActions
  <2>10. CASE MintFails(i) BY <2>10, <1>1, Ends DEF MintFails
  <2> QED BY <1>3, <2>1, <2>2, <2>3, <2>4, <2>5, <2>6, <2>7, <2>8, <2>9, <2>10 DEF Step
<1>4. ASSUME (\E u \in Users : LogIn(u)) \/ LogOut \/ Reauth \/ Press PROVE JobsOK'
      BY <1>4, CallsWhat DEF Called
<1>5. CASE Relaunch BY <1>5, RelaunchJobs
<1>6. CASE Revoke BY <1>6, RevokeJobs
<1>7. CASE Probe BY <1>7, ProbeBegins
<1>8. CASE Boots \/ BootRefused \/ Poll BY <1>8, <1>2 DEF Boots, BootRefused, Poll
<1>9. CASE UNCHANGED vars BY <1>9, <1>2 DEF vars
<1> QED BY <1>3, <1>4, <1>5, <1>6, <1>7, <1>8, <1>9 DEF Next

\* The other variables.
Scalars ==
  /\ {session, owner} \subseteq Users \cup {None}
  /\ token \in Pat \cup {None}
  /\ daemon = NoDaemon \/ daemon \in [status : {"starting", "running"}, token : Pat]
  /\ state \in States
  /\ {guard, probed, expired, since, assured, refused} \subseteq BOOLEAN
  /\ slips \subseteq {"overlap", "mint", "cut"}
  /\ acts \in 0..MaxActs

\* Every action keeps the types of the other variables.
LEMMA ScalarsStep == TypeInv /\ [Next]_vars => Scalars'
<1> SUFFICES ASSUME TypeInv, [Next]_vars PROVE Scalars'
    OBVIOUS
<1>1. Scalars /\ JobsOK BY DEF TypeInv, Scalars
<1>2. \A i \in 1..Slots : jobs[i] # None =>
        /\ jobs[i].token \in Pat \cup {None} /\ jobs[i].user \in Users \cup {None}
        /\ jobs[i].booting \in BOOLEAN
      BY <1>1 DEF JobsOK, Jobs
<1>3. acts < MaxActs => acts + 1 \in 0..MaxActs BY <1>1 DEF Scalars
<1>4. ASSUME NEW bad, NEW what \in {"overlap", "mint", "cut"}, Slip(bad, what)
      PROVE  slips' \subseteq {"overlap", "mint", "cut"}
      BY <1>1, <1>4 DEF Slip, Scalars
<1>5. ASSUME NEW b, NEW x \in BOOLEAN PROVE Reported(b, x) \in States BY DEF Reported, States
<1> USE DEF Scalars, files, app, probe
<1>6. ASSUME NEW i \in 1..Slots, Step(i) \/ MintFails(i) PROVE Scalars'
  <2>1. CASE ReadConfig(i) BY <2>1, <1>1 DEF ReadConfig
  <2>2. CASE ReadOwner(i) BY <2>2, <1>1 DEF ReadOwner
  <2>3. CASE Mint(i) BY <2>3, <1>1 DEF Mint
  <2>4. CASE WriteConfig(i) BY <2>4, <1>1, <1>2 DEF WriteConfig, At
  <2>5. CASE WriteOwner(i) BY <2>5, <1>1, <1>2 DEF WriteOwner, At
  <2>6. CASE Switch(i) BY <2>6, <1>1 DEF Switch
  <2>7. CASE ReadToken(i) BY <2>7, <1>1 DEF ReadToken
  <2>8. CASE ClearConfig(i) BY <2>8, <1>1 DEF ClearConfig
  <2>9. CASE ClearOwner(i) BY <2>9, <1>1 DEF ClearOwner
  <2>10. CASE Enter(i) BY <2>10, <1>1 DEF Enter
  <2>11. CASE Release(i) BY <2>11, <1>1 DEF Release
  <2>12. CASE AutoStart(i) BY <2>12, <1>1 DEF AutoStart
  <2>13. CASE Start(i) BY <2>13, <1>1 DEF Start, States
  <2>14. CASE Spawn(i)
    <3>1. daemon' = daemon \/ daemon' = NoDaemon
          \/ daemon' \in [status : {"starting", "running"}, token : Pat]
      <4>1. CASE token = None BY <2>14, <4>1 DEF Spawn
      <4>2. CASE token # None
        <5>1. token \in Pat BY <1>1, <4>2
        <5> QED BY <2>14, <4>2, <5>1 DEF Spawn
      <4> QED BY <4>1, <4>2
    <3>2. refused' \in BOOLEAN BY <2>14, <1>1 DEF Spawn
    <3> QED BY <2>14, <1>1, <3>1, <3>2 DEF Spawn, States
  <2>15. CASE Wait(i) BY <2>15, <1>1 DEF Wait
  <2>16. CASE Stop(i) BY <2>16, <1>1 DEF Stop, States
  <2>17. CASE Kill(i) BY <2>17, <1>1 DEF Kill
  <2>18. CASE Stopped(i) BY <2>18, <1>1 DEF Stopped, States
  <2>19. CASE Answer(i)
    <3>1. jobs[i] # None BY <2>19 DEF Answer, At
    <3>2. expired' \in BOOLEAN /\ state' \in States
      <4>1. PICK is \in {expired \/ ~Usable(jobs[i].token)} \cup (IF ProbesFail THEN {expired} ELSE {}) :
               expired' = is /\ state' = Reported(jobs[i].booting, is)
            BY <2>19 DEF Answer
      <4>2. is \in BOOLEAN BY <4>1, <1>1
      <4> QED BY <4>1, <4>2, <1>5
    <3>3. assured' \in BOOLEAN
      <4>1. jobs[i].token # None => jobs[i].token.ok \in BOOLEAN BY <3>1, <1>2 DEF Pat
      <4> QED BY <2>19, <4>1 DEF Answer, Usable
    <3> QED BY <2>19, <1>1, <3>2, <3>3 DEF Answer
  <2>20. CASE MintFails(i) BY <2>20, <1>1, <1>3, <1>4 DEF MintFails
  <2> QED BY <1>6, <2>1, <2>2, <2>3, <2>4, <2>5, <2>6, <2>7, <2>8, <2>9, <2>10, <2>11, <2>12,
             <2>13, <2>14, <2>15, <2>16, <2>17, <2>18, <2>19, <2>20 DEF Step
<1>7. ASSUME NEW u \in Users, LogIn(u) PROVE Scalars'
  <2>1. slips' \subseteq {"overlap", "mint", "cut"} BY <1>4, <1>7 DEF LogIn
  <2> QED BY <2>1, <1>7, <1>1, <1>3 DEF LogIn, Acts
<1>8. CASE LogOut
  <2>1. slips' \subseteq {"overlap", "mint", "cut"} BY <1>8 DEF LogOut
  <2> QED BY <2>1, <1>8, <1>1, <1>3 DEF LogOut, Acts
<1>9. CASE Press BY <1>9, <1>1, <1>3 DEF Press, Acts
<1>10. CASE Reauth
  <2>1. slips' \subseteq {"overlap", "mint", "cut"} BY <1>4, <1>10 DEF Reauth
  <2> QED BY <2>1, <1>10, <1>1, <1>3 DEF Reauth, Acts
<1>11. CASE Relaunch
  <2>1. slips' \subseteq {"overlap", "mint", "cut"} BY <1>4, <1>11 DEF Relaunch
  <2> QED BY <2>1, <1>11, <1>1, <1>3 DEF Relaunch, States
<1>12. CASE Boots
  <2>1. daemon \in [status : {"starting", "running"}, token : Pat] BY <1>12, <1>1 DEF Boots, NoDaemon
  <2>2. daemon' \in [status : {"starting", "running"}, token : Pat] BY <1>12, <2>1 DEF Boots
  <2> QED BY <1>12, <1>1, <2>2 DEF Boots
<1>13. CASE BootRefused BY <1>13, <1>1 DEF BootRefused
<1>14. CASE Revoke
  <2>1. token' \in Pat \cup {None} BY <1>14, <1>1, RevokedPat DEF Revoke
  <2>2. daemon' = NoDaemon \/ daemon' \in [status : {"starting", "running"}, token : Pat]
    <3>1. CASE daemon = NoDaemon BY <3>1, <1>14 DEF Revoke, NoDaemon, Revoked
    <3>2. CASE daemon \in [status : {"starting", "running"}, token : Pat]
      <4>1. daemon.token \in Pat /\ daemon.token # None BY <3>2
      <4>2. Revoked(daemon.token) \in Pat BY <4>1, RevokedPat
      <4> QED BY <3>2, <4>2, <1>14 DEF Revoke
    <3> QED BY <3>1, <3>2, <1>1
  <2> QED BY <1>14, <1>1, <1>3, <2>1, <2>2 DEF Revoke
<1>15. CASE Poll
  <2>1. state' \in States /\ expired' \in BOOLEAN /\ since' \in BOOLEAN
    <3>1. expired \in BOOLEAN BY <1>1
    <3>2. Reported(Alive, expired) \in States BY <3>1, <1>5
    <3> QED BY <1>15, <1>1, <3>2 DEF Poll, States
  <2> QED BY <1>15, <1>1, <2>1 DEF Poll
<1>16. CASE Probe BY <1>16, <1>1 DEF Probe
<1>17. CASE UNCHANGED vars BY <1>17, <1>1 DEF vars
<1> QED BY <1>6, <1>7, <1>8, <1>9, <1>10, <1>11, <1>12, <1>13, <1>14, <1>15, <1>16, <1>17 DEF Next

\* A step that neither takes the guard nor gives it back.
LEMMA GuardKept ==
  ASSUME GuardInv, NEW i \in 1..Slots, Others(i), guard' = guard,
         HoldsGuard(i)' <=> HoldsGuard(i)
  PROVE  GuardInv'
<1>1. \A k \in 1..Slots : HoldsGuard(k)' <=> HoldsGuard(k) BY DEF Others, HoldsGuard
<1> QED BY <1>1 DEF GuardInv

\* A job that begins holds no guard.
LEMMA GetsNoGuard ==
  ASSUME GuardInv, NEW i \in 1..Slots, NEW j, NEW S, Gets(i, j, S), guard' = guard,
         "enter" \in S \/ "release" \notin S
  PROVE  GuardInv'
BY GuardKept DEF Gets, HoldsGuard

\* The guard is held by the one operation that entered.
LEMMA GuardStep == TypeInv /\ GuardInv /\ [Next]_vars => GuardInv'
<1> SUFFICES ASSUME TypeInv, GuardInv, [Next]_vars PROVE GuardInv'
    OBVIOUS
<1>1. JobsOK /\ guard \in BOOLEAN BY DEF TypeInv
<1>2. ASSUME jobs' = jobs, guard' = guard PROVE GuardInv'
      BY <1>2 DEF GuardInv, HoldsGuard, Left
<1>3. ASSUME NEW i \in 1..Slots, NEW h, Does(i, h), h \notin {"enter", "release"}, guard' = guard
      PROVE  GuardInv'
  <2>1. HoldsGuard(i)' <=> HoldsGuard(i) BY <1>3 DEF Does, HoldsGuard
  <2> QED BY <1>3, <2>1, GuardKept DEF Does
<1>4. ASSUME NEW i \in 1..Slots, Step(i) \/ MintFails(i) PROVE GuardInv'
  <2> USE DEF app
  <2>1. CASE ReadConfig(i) BY <2>1, <1>3, ReadsWhat DEF ReadConfig
  <2>2. CASE ReadOwner(i) BY <2>2, <1>3, ReadsWhat DEF ReadOwner
  <2>3. CASE Mint(i) BY <2>3, <1>3, ReadsWhat DEF Mint
  <2>4. CASE WriteConfig(i) BY <2>4, <1>1, <1>3, Advances DEF WriteConfig
  <2>5. CASE WriteOwner(i) BY <2>5, <1>1, <1>3, Advances DEF WriteOwner
  <2>6. CASE Switch(i)
    <3>1. guard' = guard BY <2>6 DEF Switch
    <3>2. CASE Does(i, "switch") BY <3>1, <3>2, <1>3
    <3>3. CASE ~Does(i, "switch")
      <4>1. PICK k \in 1..Slots :
              /\ k = i => Left(i) = {"switch"}
              /\ k # i => Left(k) = {}
              /\ Left(k)' = {"stop", "kill", "stopped", "start", "spawn", "wait"}
              /\ k # i => Left(i)' = Left(i) \ {"switch"}
              /\ \A l \in (1..Slots) \ {i, k} : Left(l)' = Left(l)
            BY <2>6, <3>3, <1>1, Switches
      <4>2. \A l \in 1..Slots : HoldsGuard(l)' <=> HoldsGuard(l)
        <5>1. HoldsGuard(k)' <=> HoldsGuard(k) BY <4>1 DEF HoldsGuard
        <5>2. k # i => (HoldsGuard(i)' <=> HoldsGuard(i)) BY <4>1 DEF HoldsGuard
        <5>3. \A l \in (1..Slots) \ {i, k} : HoldsGuard(l)' <=> HoldsGuard(l) BY <4>1 DEF HoldsGuard
        <5> QED BY <5>1, <5>2, <5>3
      <4> QED BY <4>2, <3>1 DEF GuardInv
    <3> QED BY <3>2, <3>3
  <2>7. CASE ReadToken(i) BY <2>7, <1>3, ReadsWhat DEF ReadToken
  <2>8. CASE ClearConfig(i) BY <2>8, <1>1, <1>3, Advances DEF ClearConfig
  <2>9. CASE ClearOwner(i) BY <2>9, <1>1, <1>3, Advances DEF ClearOwner
  <2>10. CASE Enter(i)
    <3>1. "enter" \in Left(i) /\ Others(i) BY <2>10, EnterWhat DEF Kept
    <3>2. ~HoldsGuard(i) BY <3>1 DEF HoldsGuard
    <3>3. CASE guard
      <4>1. guard' = guard /\ Left(i)' = {} BY <2>10, <3>3, EnterWhat
      <4>2. ~HoldsGuard(i)' BY <4>1 DEF HoldsGuard
      <4> QED BY <3>1, <3>2, <4>1, <4>2, GuardKept
    <3>4. CASE ~guard
      <4>1. guard' /\ Does(i, "enter") BY <2>10, <3>4, EnterWhat
      <4>2. guard' = TRUE BY <2>10, <3>4 DEF Enter
      <4>3. HoldsGuard(i)'
        <5>1. "release" \in Left(i)
          <6>1. jobs[i] # None BY <3>1 DEF Left
          <6> QED BY <6>1, <3>1, <1>1 DEF JobsOK, JobOK, Complete
        <5> QED BY <5>1, <4>1 DEF Does, HoldsGuard
      <4>4. \A k \in 1..Slots : ~HoldsGuard(k) BY <3>4 DEF GuardInv
      <4>5. \A k \in (1..Slots) \ {i} : ~HoldsGuard(k)' BY <3>1, <4>4 DEF Others, HoldsGuard
      <4> QED BY <4>2, <4>3, <4>5 DEF GuardInv
    <3> QED BY <3>3, <3>4, <1>1
  <2>11. CASE Release(i)
    <3>1. At(i, "release") /\ Continue(i) /\ guard' = FALSE BY <2>11 DEF Release
    <3>2. Does(i, "release") BY <3>1, <1>1, Continues
    <3>3. HoldsGuard(i)
      <4>1. ~(Rank("release") < Rank("enter")) BY DEF Rank
      <4> QED BY <3>2, <4>1 DEF Does, HoldsGuard
    <3>4. \A k \in (1..Slots) \ {i} : ~HoldsGuard(k) BY <3>3 DEF GuardInv
    <3>5. \A k \in (1..Slots) \ {i} : ~HoldsGuard(k)' BY <3>2, <3>4 DEF Does, Others, HoldsGuard
    <3>6. ~HoldsGuard(i)' BY <3>2 DEF Does, HoldsGuard
    <3> QED BY <3>1, <3>5, <3>6 DEF GuardInv
  <2>12. CASE AutoStart(i)
    <3>1. Kept(i) /\ guard' = guard /\ At(i, "auto") BY <2>12, OtherActions DEF AutoStart
    <3>2. JobsOK' BY <2>12, OtherActions
    <3>3. "auto" \in Left(i) /\ JobOK(i) BY <3>1, <1>1, AtLeft DEF JobsOK
    <3>4. "release" \notin Left(i) BY <3>3 DEF JobOK, Complete
    <3>5. "release" \notin Left(i)'
      <4>1. CASE jobs' = Goes(jobs, i, Next1(jobs[i]))
        <5>1. Does(i, "auto") BY <4>1, <3>1, <1>1, Continues DEF Continue
        <5> QED BY <5>1, <3>4 DEF Does
      <4>2. CASE jobs' = Goes(jobs, i, [jobs[i] EXCEPT !.todo = StartDaemon])
        <5>1. Complete({"start", "spawn", "wait"}) BY DEF Complete, Steps
        <5>2. Left(i)' = {"start", "spawn", "wait"}
              BY <3>1, <4>2, <5>1, <1>1, Pieces, GoesOnWith DEF At
        <5> QED BY <5>2
      <4> QED BY <4>1, <4>2, <2>12 DEF AutoStart
    <3> QED BY <3>1, <3>4, <3>5, GuardKept DEF Kept, HoldsGuard
  <2>13. ASSUME NEW h \in {"start", "spawn"}, At(i, h), jobs' = Goes(jobs, i, SkipStart(jobs[i])),
                guard' = guard
         PROVE  GuardInv'
    <3>1. h \in Left(i) /\ jobs[i] # None /\ \A s \in Left(i) \ {h} : Rank(h) < Rank(s)
          BY <1>1, <2>13, AtLeft
    <3>2. Others(i) /\ Left(i)' = Left(i) \cap {"release"} BY <1>1, <2>13, <3>1, Skips
    <3>3. "enter" \notin Left(i)
      <4>1. "enter" # h /\ ~(Rank(h) < Rank("enter")) BY <2>13 DEF Rank
      <4> QED BY <3>1, <4>1
    <3>4. HoldsGuard(i)' <=> HoldsGuard(i) BY <3>2, <3>3 DEF HoldsGuard
    <3> QED BY <2>13, <3>2, <3>4, GuardKept
  <2>14. CASE Start(i) BY <2>14, <2>13, <1>1, <1>3, Advances DEF Start
  <2>15. CASE Spawn(i) BY <2>15, <2>13, <1>1, <1>3, Advances DEF Spawn
  <2>16. CASE Wait(i) BY <2>16, <1>1, <1>3, Advances DEF Wait
  <2>17. CASE Stop(i) BY <2>17, <1>1, <1>3, Advances DEF Stop
  <2>18. CASE Kill(i) BY <2>18, <1>1, <1>3, Advances DEF Kill
  <2>19. CASE Stopped(i) BY <2>19, <1>1, <1>3, Advances DEF Stopped
  <2>20. CASE Answer(i) BY <2>20, <1>1, <1>3, Advances DEF Answer
  <2>21. CASE MintFails(i)
    <3>1. At(i, "mint") /\ jobs' = [jobs EXCEPT ![i] = None] /\ guard' = guard
          BY <2>21 DEF MintFails
    <3>2. Others(i) /\ Left(i)' = {} BY <3>1, <1>1, Ends
    <3>3. "mint" \in Left(i) /\ JobOK(i) BY <3>1, <1>1, AtLeft DEF JobsOK
    <3>4. "release" \notin Left(i) BY <3>3 DEF JobOK, Complete
    <3> QED BY <3>1, <3>2, <3>4, GuardKept DEF HoldsGuard
  <2> QED BY <1>4, <2>1, <2>2, <2>3, <2>4, <2>5, <2>6, <2>7, <2>8, <2>9, <2>10, <2>11, <2>12,
             <2>14, <2>15, <2>16, <2>17, <2>18, <2>19, <2>20, <2>21 DEF Step
<1>5. ASSUME NEW u \in Users, LogIn(u) PROVE GuardInv'
  <2>1. PICK i \in 1..Slots : Gets(i, Job(Login, u), LoginSteps) BY <1>5, CallsWhat DEF Called
  <2>2. guard' = guard /\ "release" \notin LoginSteps BY <1>5 DEF LogIn, app, LoginSteps
  <2> QED BY <2>1, <2>2, GetsNoGuard
<1>6. CASE LogOut
  <2>1. PICK i \in 1..Slots : Gets(i, Job(Logout, None), LogoutSteps) BY <1>6, CallsWhat DEF Called
  <2>2. guard' = guard /\ "enter" \in LogoutSteps BY <1>6 DEF LogOut, app, LogoutSteps
  <2> QED BY <2>1, <2>2, GetsNoGuard
<1>7. CASE Reauth
  <2>1. PICK i \in 1..Slots : Gets(i, Job(Reauthenticate, session), ReauthSteps)
        BY <1>7, CallsWhat DEF Called
  <2>2. guard' = guard /\ "release" \notin ReauthSteps BY <1>7 DEF Reauth, app, ReauthSteps
  <2> QED BY <2>1, <2>2, GetsNoGuard
<1>8. CASE Press
  <2>0. PICK t : \E S \in SUBSET PressSteps : "enter" \in S /\ Called(t, session, S)
        BY <1>8, CallsWhat
  <2>1. PICK S \in SUBSET PressSteps : "enter" \in S /\ Called(t, session, S) BY <2>0
  <2>2. PICK i \in 1..Slots : Gets(i, Job(t, session), S) BY <2>1 DEF Called
  <2>3. guard' = guard BY <1>8 DEF Press, app
  <2> QED BY <2>1, <2>2, <2>3, GetsNoGuard
<1>9. CASE Relaunch
  <2>1. guard' = FALSE BY <1>9 DEF Relaunch
  <2>2. \A k \in 1..Slots : ~HoldsGuard(k)'
        BY <1>9, RelaunchJobs DEF HoldsGuard, LogoutSteps, LoginSteps
  <2> QED BY <2>1, <2>2 DEF GuardInv
<1>10. CASE Revoke
  <2>1. RevokedJobs /\ guard' = guard BY <1>10, RevokeJobs DEF Revoke, app
  <2>2. \A k \in 1..Slots : HoldsGuard(k)' <=> HoldsGuard(k) BY <2>1 DEF RevokedJobs, HoldsGuard
  <2> QED BY <2>1, <2>2 DEF GuardInv
<1>11. CASE Probe
  <2>1. PICK i \in 1..Slots, j \in Jobs : Gets(i, j, {"answer"}) BY <1>11, ProbeBegins
  <2>2. guard' = guard BY <1>11 DEF Probe
  <2> QED BY <2>1, <2>2, GetsNoGuard
<1>12. CASE Boots \/ BootRefused \/ Poll BY <1>12, <1>2 DEF Boots, BootRefused, Poll, app
<1>13. CASE UNCHANGED vars BY <1>13, <1>2 DEF vars, app
<1> QED BY <1>4, <1>5, <1>6, <1>7, <1>8, <1>9, <1>10, <1>11, <1>12, <1>13 DEF Next

\* The inductive invariant implies the type invariant that TLC checks.
LEMMA TypeInvImplies == TypeInv /\ GuardInv => TypeOK
<1> SUFFICES ASSUME TypeInv, GuardInv PROVE TypeOK
    OBVIOUS
<1>1. JobsOK /\ guard \in BOOLEAN BY DEF TypeInv
<1> DEFINE E == {i \in 1..Slots : jobs[i] # None /\ Entered(jobs[i].todo)}
<1>2. \A i \in 1..Slots : i \in E <=> HoldsGuard(i)
  <2> SUFFICES ASSUME NEW i \in 1..Slots, jobs[i] # None
               PROVE  Entered(jobs[i].todo) <=> HoldsGuard(i)
      BY DEF HoldsGuard, Left
  <2>1. jobs[i].todo[Len(jobs[i].todo)] = "release" <=> "release" \in Left(i)
        BY <1>1, LastIsRelease
  <2> QED BY <2>1 DEF Entered, HoldsGuard, Left, Todo
<1>3. Cardinality(E) = IF guard THEN 1 ELSE 0
  <2>1. CASE guard
    <3>1. PICK i \in 1..Slots : HoldsGuard(i) BY <2>1 DEF GuardInv
    <3>2. E = {i} BY <3>1, <1>2 DEF GuardInv
    <3> QED BY <3>2, <2>1, FS_Singleton
  <2>2. CASE ~guard
    <3>1. E = {} BY <2>2, <1>2 DEF GuardInv
    <3> QED BY <3>1, <2>2, FS_EmptySet
  <2> QED BY <2>1, <2>2
<1>4. \A i \in 1..Slots : jobs[i] # None => jobs[i] \in Jobs /\ jobs[i].todo # <<>>
      BY <1>1 DEF JobsOK, JobOK
<1> QED BY <1>3, <1>4 DEF TypeOK, TypeInv

-----------------------------------------------------------------------------
(* Sessions, files and the daemon *)

\* What a job still has to do, as the model asks for it.
LEMMA HasLeft ==
  ASSUME JobsOK, NEW i \in 1..Slots, NEW S
  PROVE  Has(i, S) <=> Left(i) \cap S # {}
BY DEF Has, Left, Todo

\* Nothing synchronises: no job has a step on the files left.
LEMMA NoFiler ==
  ASSUME JobsOK
  PROVE  /\ ~Synchronising => \A k \in 1..Slots, s \in FileSteps : s \notin Left(k)
         /\ ~Operating => \A k \in 1..Slots : "release" \notin Left(k)
         /\ ~Switching => \A k \in 1..Slots, s \in {"switch", "kill"} : s \notin Left(k)
<1>1. DOMAIN jobs = 1..Slots BY DEF JobsOK
<1>2. ASSUME NEW S, \A k \in 1..Slots : ~Has(k, S)
      PROVE  \A k \in 1..Slots, s \in S : s \notin Left(k)
      BY <1>2, HasLeft
<1>3. ~Synchronising => \A k \in 1..Slots, s \in FileSteps : s \notin Left(k)
      BY <1>1, <1>2 DEF Synchronising
<1>4. ~Operating => \A k \in 1..Slots : "release" \notin Left(k)
      BY <1>1, <1>2 DEF Operating
<1>5. ~Switching => \A k \in 1..Slots, s \in {"switch", "kill"} : s \notin Left(k)
      BY <1>1, <1>2 DEF Switching
<1> QED BY <1>3, <1>4, <1>5

\* No job works if Busy sees none.
LEMMA NotBusy ==
  ASSUME JobsOK, ~Busy PROVE \A k \in 1..Slots : ~Works(k)
BY BusyWorks DEF Busy, JobsOK

\* A step on the files is done by the one job that has any.
LEMMA FilerMoves ==
  ASSUME OneFiler, NEW i \in 1..Slots, NEW h \in FileSteps, Does(i, h), session' = session
  PROVE  /\ \A k \in (1..Slots) \ {i} : Left(k) \cap FileSteps = {} /\ Left(k)' = Left(k)
         /\ Stages(i)' => OneFiler'
<1>1. \A k \in (1..Slots) \ {i} : Left(k) \cap FileSteps = {} /\ Left(k)' = Left(k)
      BY DEF OneFiler, Does, Others
<1>2. \A k \in (1..Slots) \ {i}, s \in FileSteps : s \notin Left(k)' BY <1>1
<1>3. \A k \in (1..Slots) \ {i} : Stages(k)' BY <1>2 DEF Stages, FileSteps
<1>4. Left(i)' \cap FileSteps # {} => jobs'[i].user = session'
  <2>1. Left(i)' \cap FileSteps # {} => jobs'[i] # None BY DEF Left
  <2>2. jobs[i].user = session BY DEF OneFiler, Does
  <2> QED BY <2>1, <2>2 DEF Does
<1> QED BY <1>1, <1>2, <1>3, <1>4 DEF OneFiler

\* The steps before the one at hand are done.
LEMMA InOrder ==
  ASSUME NEW i \in 1..Slots, NEW h, Does(i, h)
  PROVE  /\ h \in {"clearConfig", "clearOwner"} => "readToken" \notin Left(i)
         /\ h = "clearOwner" => "clearConfig" \notin Left(i)
         /\ h \in SyncSteps => {"readToken", "clearConfig", "clearOwner"} \cap Left(i) = {}
         /\ h \in SyncSteps \ {"readConfig"} => "readConfig" \notin Left(i)
         /\ h \in {"mint", "writeConfig", "writeOwner", "switch"} => "readOwner" \notin Left(i)
         /\ h \in {"writeConfig", "writeOwner", "switch"} => "mint" \notin Left(i)
         /\ h \in {"writeOwner", "switch"} => "writeConfig" \notin Left(i)
         /\ h = "switch" => "writeOwner" \notin Left(i)
<1>1. \A s : s \in Left(i) => s = h \/ Rank(h) < Rank(s) BY DEF Does
<1>2. h \in {"clearConfig", "clearOwner"} => "readToken" \notin Left(i) BY <1>1 DEF Rank
<1>3. h = "clearOwner" => "clearConfig" \notin Left(i) BY <1>1 DEF Rank
<1>4. h \in SyncSteps =>
        "readToken" \notin Left(i) /\ "clearConfig" \notin Left(i) /\ "clearOwner" \notin Left(i)
      BY <1>1 DEF Rank, SyncSteps
<1>5. h \in SyncSteps \ {"readConfig"} => "readConfig" \notin Left(i) BY <1>1 DEF Rank, SyncSteps
<1>6. h \in {"mint", "writeConfig", "writeOwner", "switch"} => "readOwner" \notin Left(i)
      BY <1>1 DEF Rank
<1>7. h \in {"writeConfig", "writeOwner", "switch"} => "mint" \notin Left(i) BY <1>1 DEF Rank
<1>8. h \in {"writeOwner", "switch"} => "writeConfig" \notin Left(i) BY <1>1 DEF Rank
<1>9. h = "switch" => "writeOwner" \notin Left(i) BY <1>1 DEF Rank
<1> QED BY <1>2, <1>3, <1>4, <1>5, <1>6, <1>7, <1>8, <1>9

\* What the job at i has left of the steps of syncToken comes in one piece.
LEMMA Chain ==
  ASSUME NEW S, Complete(S)
  PROVE  /\ "readToken" \in S /\ "writeOwner" \in S => "readConfig" \in S
         /\ "readConfig" \in S => "readOwner" \in S
         /\ "readOwner" \in S => "mint" \in S
         /\ "mint" \in S => "writeConfig" \in S
         /\ "writeConfig" \in S => "writeOwner" \in S
         /\ "writeOwner" \in S => "switch" \in S
BY DEF Complete

\* What the job that does a step on the files knows.
LEMMA TheFiler ==
  ASSUME JobsOK, Filed, NEW i \in 1..Slots, NEW h \in FileSteps, h \in Left(i)
  PROVE  /\ jobs[i] # None /\ jobs[i].user = session /\ Complete(Left(i)) /\ Stages(i)
         /\ \A k \in (1..Slots) \ {i} : \A s \in FileSteps : s \notin Left(k)
         /\ h \in SyncSteps => session # None
         /\ session = None =>
              (token # None => "clearConfig" \in Left(i) /\ ("readToken" \in Left(i) \/ jobs[i].token # None))
         /\ session # None =>
              /\ owner = session \/ "writeOwner" \in Left(i)
              /\ owner = session => Agree(token, session)
              /\ "clearOwner" \in Left(i) => "writeOwner" \in Left(i)
         /\ session # None /\ Switched =>
              (~Agree(token, session) => WillSwitch(i) /\ "writeConfig" \in Left(i))
<1>1. OneFiler BY DEF Filed
<1>2. jobs[i] # None /\ JobOK(i) BY DEF Left, JobsOK
<1>3. \A k \in (1..Slots) \ {i} : \A s \in FileSteps : s \notin Left(k) BY <1>1 DEF OneFiler
<1>4. jobs[i].user = session /\ Stages(i) BY <1>1 DEF OneFiler
<1>5. h \in SyncSteps => session # None BY DEF Filed, Cleared
<1>6. ASSUME session = None, token # None
      PROVE  "clearConfig" \in Left(i) /\ ("readToken" \in Left(i) \/ jobs[i].token # None)
      BY <1>3, <1>6 DEF Filed, Cleared, FileSteps
<1>7. ASSUME session # None
      PROVE  /\ owner = session \/ "writeOwner" \in Left(i)
             /\ owner = session => Agree(token, session)
             /\ "clearOwner" \in Left(i) => "writeOwner" \in Left(i)
      BY <1>3, <1>7 DEF Filed, Synced, FileSteps
<1>8. ASSUME Switched, ~Agree(token, session) PROVE WillSwitch(i) /\ "writeConfig" \in Left(i)
      BY <1>3, <1>8 DEF Switched, FileSteps
<1> QED BY <1>2, <1>3, <1>4, <1>5, <1>6, <1>7, <1>8 DEF JobOK

\* A step on the files touches no daemon; what its job will do about a stale one.
LEMMA RightMoves ==
  ASSUME Filed, Right, NEW i \in 1..Slots, NEW h \in FileSteps, Does(i, h),
         UNCHANGED <<session, daemon>>,
         session # None => /\ ~Agree(token', session) => WillSwitch(i)' /\ "writeConfig" \in Left(i)'
                           /\ WillSwitch(i) /\ Alive /\ daemon.token.user # session => WillSwitch(i)'
  PROVE  Right'
<1>1. \A k \in 1..Slots : \A s \in {"kill", "enter", "release"} : s \in Left(k)' <=> s \in Left(k)
      BY DEF Does, Others, FileSteps
<1>2. CASE session = None
  <2>1. Stopping BY <1>2 DEF Right
  <2>2. Stopping' BY <1>1, <2>1 DEF Stopping, Alive
  <2> QED BY <1>2, <2>2 DEF Right
<1>3. CASE session # None
  <2>1. Switched BY <1>3 DEF Right
  <2>2. \A k \in (1..Slots) \ {i} : ~WillSwitch(k)
        BY FilerMoves DEF Filed, WillSwitch, FileSteps
  <2>3. Alive' /\ daemon'.token.user # session' =>
          \E k \in 1..Slots : WillSwitch(k)' \/ ("kill" \in Left(k)' /\ "enter" \notin Left(k)')
        BY <1>1, <1>3, <2>1, <2>2 DEF Switched, Alive
  <2>4. ~Agree(token', session') => \E k \in 1..Slots : WillSwitch(k)' /\ "writeConfig" \in Left(k)'
        BY <1>3
  <2>5. Switched' BY <2>3, <2>4 DEF Switched, Agree
  <2> QED BY <1>3, <2>5 DEF Right
<1> QED BY <1>2, <1>3

\* What is left to prove of a step on the files under a session: of its own job.
LEMMA SyncMoves ==
  ASSUME Filed, session # None, NEW i \in 1..Slots, NEW h \in FileSteps, Does(i, h),
         session' = session, Stages(i)',
         "clearOwner" \in Left(i)' => "writeOwner" \in Left(i)',
         owner' = session \/ "writeOwner" \in Left(i)',
         owner' = session => Agree(token', session)
  PROVE  Filed'
<1>1. OneFiler' BY FilerMoves DEF Filed
<1>2. \A k \in (1..Slots) \ {i}, s \in FileSteps : s \notin Left(k)' BY FilerMoves DEF Filed
<1>3. Synced' BY <1>2 DEF Synced, Agree, FileSteps
<1> QED BY <1>1, <1>3 DEF Filed

\* And after a logout.
LEMMA ClearMoves ==
  ASSUME Filed, session = None, NEW i \in 1..Slots, NEW h \in FileSteps, Does(i, h),
         session' = session,
         token' # None => "clearConfig" \in Left(i)' /\ ("readToken" \in Left(i)' \/ jobs'[i].token # None)
  PROVE  Filed'
<1>1. \A k \in 1..Slots : Left(k)' \cap SyncSteps = {} BY DEF Filed, Cleared, Does, Others
<1>2. Stages(i)' BY <1>1 DEF Stages, SyncSteps
<1>3. OneFiler' BY <1>2, FilerMoves DEF Filed
<1>4. Cleared' BY <1>1 DEF Cleared
<1> QED BY <1>3, <1>4 DEF Filed

\* The steps of syncToken that read, and the mint: a token that is reused is the
\* session's, and one that is minted is.
LEMMA ReadsKeep ==
  ASSUME TypeInv, Filed, NEW i \in 1..Slots, ReadConfig(i) \/ ReadOwner(i) \/ Mint(i)
  PROVE  Filed' /\ (Right => Right')
<1>1. JobsOK BY DEF TypeInv
<1>2. UNCHANGED <<session, token, owner, daemon>> BY DEF ReadConfig, ReadOwner, Mint, files
<1>3. \A s : s \in Left(i)' => jobs'[i] # None BY DEF Left
<1>4. ASSUME NEW h \in {"readConfig", "readOwner", "mint"}, Does(i, h)
      PROVE  /\ h \in FileSteps /\ h \in SyncSteps /\ h \in Left(i) /\ session # None
             /\ Complete(Left(i)) /\ Stages(i) /\ jobs[i] # None /\ jobs[i].user = session
             /\ "clearOwner" \notin Left(i)
             /\ owner = session \/ "writeOwner" \in Left(i)
             /\ owner = session => Agree(token, session)
             /\ Switched => (~Agree(token, session) => WillSwitch(i) /\ "writeConfig" \in Left(i))
  <2>1. h \in FileSteps /\ h \in SyncSteps /\ h \in Left(i) BY <1>4 DEF FileSteps, SyncSteps, Does
  <2>2. session # None BY <2>1, <1>1, TheFiler
  <2>3. "clearOwner" \notin Left(i) BY <2>1, <1>4, InOrder
  <2>4. Complete(Left(i)) /\ Stages(i) /\ jobs[i] # None /\ jobs[i].user = session
        BY <2>1, <1>1, TheFiler
  <2>5. /\ owner = session \/ "writeOwner" \in Left(i)
        /\ owner = session => Agree(token, session)
        /\ Switched => (~Agree(token, session) => WillSwitch(i) /\ "writeConfig" \in Left(i))
        BY <2>1, <2>2, <1>1, TheFiler
  <2> QED BY <2>1, <2>2, <2>3, <2>4, <2>5
<1>5. ASSUME NEW h \in {"readConfig", "readOwner", "mint"}, Does(i, h), Stages(i)',
             WillSwitch(i) => WillSwitch(i)'
      PROVE  Filed' /\ (Right => Right')
  <2>1. /\ h \in FileSteps /\ session # None /\ "clearOwner" \notin Left(i)
        /\ owner = session \/ "writeOwner" \in Left(i)
        /\ owner = session => Agree(token, session)
        /\ Switched => (~Agree(token, session) => WillSwitch(i) /\ "writeConfig" \in Left(i))
        BY <1>4, <1>5
  <2>2. \A s \in {"clearOwner", "writeOwner", "writeConfig"} : s \in Left(i)' <=> s \in Left(i)
        BY <1>5 DEF Does
  <2>3. Filed' BY <1>2, <1>5, <2>1, <2>2, SyncMoves DEF Agree
  <2>4. ASSUME Right PROVE Right'
    <3>1. Switched BY <2>1, <2>4 DEF Right
    <3>2. ~Agree(token', session) => WillSwitch(i)' /\ "writeConfig" \in Left(i)'
          BY <1>2, <1>5, <2>1, <2>2, <3>1 DEF Agree
    <3> QED BY <1>2, <1>5, <2>1, <2>4, <3>2, RightMoves
  <2> QED BY <2>3, <2>4
<1>6. CASE ReadConfig(i)
  <2>1. /\ Does(i, "readConfig")
        /\ jobs'[i] # None => jobs'[i].token = token /\ jobs'[i].owner = jobs[i].owner
        BY <1>6, ReadsWhat
  <2>2. "readConfig" \in Left(i) /\ Complete(Left(i)) /\ (owner = session => Agree(token, session))
        BY <2>1, <1>4
  <2>3. {"readOwner", "mint", "writeConfig", "switch"} \subseteq Left(i) BY <2>2, Chain
  <2>4. {"readOwner", "mint", "writeConfig", "switch"} \subseteq Left(i)'
        BY <2>1, <2>3 DEF Does
  <2>5. Stages(i)' BY <1>2, <1>3, <2>1, <2>2, <2>4 DEF Stages, Agree
  <2>6. WillSwitch(i) => WillSwitch(i)' BY <1>2, <2>1, <2>3, <2>4 DEF WillSwitch, Does
  <2> QED BY <1>5, <2>1, <2>5, <2>6
<1>7. CASE ReadOwner(i)
  <2>1. /\ Does(i, "readOwner")
        /\ jobs'[i] # None => jobs'[i].token = jobs[i].token /\ jobs'[i].owner = owner
        BY <1>7, ReadsWhat
  <2>2. "readOwner" \in Left(i) /\ Complete(Left(i)) /\ Stages(i) BY <2>1, <1>4
  <2>3. "readConfig" \notin Left(i) BY <2>1, InOrder DEF SyncSteps
  <2>4. {"mint", "writeConfig", "switch"} \subseteq Left(i) BY <2>2, Chain
  <2>5. {"mint", "writeConfig", "switch"} \subseteq Left(i)' /\ "readOwner" \notin Left(i)'
        BY <2>1, <2>4 DEF Does
  <2>6. owner = session => Agree(jobs[i].token, session) BY <2>2, <2>3 DEF Stages
  <2>7. Stages(i)' BY <1>2, <1>3, <2>1, <2>5, <2>6 DEF Stages, Agree
  <2>8. WillSwitch(i) => WillSwitch(i)' BY <1>2, <1>3, <2>1, <2>2, <2>5 DEF WillSwitch, Does
  <2> QED BY <1>5, <2>1, <2>7, <2>8
<1>8. CASE Mint(i)
  <2>1. /\ Does(i, "mint")
        /\ jobs'[i] # None =>
             /\ jobs'[i].owner = jobs[i].owner
             /\ jobs'[i].token = IF Reuses(jobs[i]) THEN jobs[i].token
                                 ELSE [user |-> jobs[i].user, ok |-> TRUE]
        BY <1>8, ReadsWhat
  <2>2. /\ "mint" \in Left(i) /\ Complete(Left(i)) /\ Stages(i) /\ jobs[i] # None
        /\ jobs[i].user = session /\ session # None
        BY <2>1, <1>4
  <2>3. "readOwner" \notin Left(i) BY <2>1, InOrder
  <2>4. {"writeConfig", "switch"} \subseteq Left(i) BY <2>2, Chain
  <2>5. /\ {"writeConfig", "switch"} \subseteq Left(i)'
        /\ "readOwner" \notin Left(i)' /\ "mint" \notin Left(i)'
        BY <2>1, <2>3, <2>4 DEF Does
  <2>6. jobs[i].owner = session => Agree(jobs[i].token, session) BY <2>2, <2>3 DEF Stages
  <2>7. [user |-> session, ok |-> TRUE] \in Pat BY <2>2 DEF Pat, TypeInv
  <2>8. jobs'[i] # None BY <1>3, <2>5
  <2>9. jobs'[i].token # None /\ jobs'[i].token.user = session
    <3>1. CASE Reuses(jobs[i]) BY <2>1, <2>2, <2>6, <2>8, <3>1 DEF Reuses, Agree
    <3>2. CASE ~Reuses(jobs[i]) BY <2>1, <2>2, <2>7, <2>8, <3>2
    <3> QED BY <3>1, <3>2
  <2>10. Stages(i)' BY <1>2, <2>5, <2>9 DEF Stages
  <2>11. WillSwitch(i) => WillSwitch(i)' BY <1>2, <2>1, <2>3, <2>5, <2>8 DEF WillSwitch, Does
  <2> QED BY <1>5, <2>1, <2>10, <2>11
<1> QED BY <1>6, <1>7, <1>8

\* The writes of syncToken: first the token, then the owner becomes the session's.
LEMMA WritesKeep ==
  ASSUME TypeInv, Filed, NEW i \in 1..Slots, WriteConfig(i) \/ WriteOwner(i)
  PROVE  Filed' /\ (Right => Right')
<1>1. JobsOK BY DEF TypeInv
<1>2. ASSUME NEW h \in {"writeConfig", "writeOwner"}, Does(i, h)
      PROVE  /\ h \in FileSteps /\ h \in Left(i) /\ session # None
             /\ Complete(Left(i)) /\ Stages(i) /\ jobs[i].user = session
             /\ "clearOwner" \notin Left(i) /\ "readOwner" \notin Left(i) /\ "mint" \notin Left(i)
             /\ owner = session \/ "writeOwner" \in Left(i)
  <2>1. h \in FileSteps /\ h \in SyncSteps /\ h \in Left(i) BY <1>2 DEF FileSteps, SyncSteps, Does
  <2>2. session # None BY <2>1, <1>1, TheFiler
  <2>3. "clearOwner" \notin Left(i) /\ "readOwner" \notin Left(i) /\ "mint" \notin Left(i)
        BY <2>1, <1>2, InOrder
  <2>4. Complete(Left(i)) /\ Stages(i) /\ jobs[i].user = session BY <2>1, <1>1, TheFiler
  <2>5. owner = session \/ "writeOwner" \in Left(i) BY <2>1, <2>2, <1>1, TheFiler
  <2> QED BY <2>1, <2>2, <2>3, <2>4, <2>5
<1>3. CASE WriteConfig(i)
  <2>1. /\ Does(i, "writeConfig") /\ token' = jobs[i].token
        /\ UNCHANGED <<session, owner, daemon>>
        /\ jobs'[i] # None => jobs'[i].token = jobs[i].token /\ jobs'[i].owner = jobs[i].owner
        BY <1>1, <1>3, Advances DEF WriteConfig
  <2>2. /\ "writeConfig" \in FileSteps /\ "writeConfig" \in Left(i) /\ session # None
        /\ Complete(Left(i)) /\ Stages(i)
        /\ "clearOwner" \notin Left(i) /\ "readOwner" \notin Left(i) /\ "mint" \notin Left(i)
        BY <2>1, <1>2
  <2>3. {"writeOwner", "switch"} \subseteq Left(i) BY <2>2, Chain
  <2>4. /\ {"writeOwner", "switch"} \subseteq Left(i)' /\ "writeConfig" \notin Left(i)'
        /\ "readOwner" \notin Left(i)' /\ "mint" \notin Left(i)' /\ "clearOwner" \notin Left(i)'
        BY <2>1, <2>2, <2>3 DEF Does
  <2>5. jobs'[i] # None BY <2>4 DEF Left
  <2>6. Agree(token', session) BY <2>1, <2>2 DEF Stages, Agree
  <2>7. Stages(i)' BY <2>1, <2>4, <2>6 DEF Stages, Agree
  <2>8. Filed' BY <2>1, <2>2, <2>4, <2>6, <2>7, SyncMoves
  <2>9. WillSwitch(i) => WillSwitch(i)' BY <2>1, <2>2, <2>4, <2>5 DEF WillSwitch
  <2>10. Right => Right' BY <2>1, <2>2, <2>6, <2>9, RightMoves
  <2> QED BY <2>8, <2>10
<1>4. CASE WriteOwner(i)
  <2>1. /\ Does(i, "writeOwner") /\ owner' = jobs[i].user
        /\ UNCHANGED <<session, token, daemon>>
        /\ jobs'[i] # None => jobs'[i].token = jobs[i].token /\ jobs'[i].owner = jobs[i].owner
        BY <1>1, <1>4, Advances DEF WriteOwner
  <2>2. /\ "writeOwner" \in FileSteps /\ "writeOwner" \in Left(i) /\ session # None
        /\ Complete(Left(i)) /\ Stages(i) /\ jobs[i].user = session
        /\ "clearOwner" \notin Left(i) /\ "readOwner" \notin Left(i) /\ "mint" \notin Left(i)
        BY <2>1, <1>2
  <2>3. "writeConfig" \notin Left(i) BY <2>1, InOrder
  <2>4. "switch" \in Left(i) BY <2>2, Chain
  <2>5. /\ "switch" \in Left(i)' /\ "writeOwner" \notin Left(i)' /\ "writeConfig" \notin Left(i)'
        /\ "readOwner" \notin Left(i)' /\ "mint" \notin Left(i)' /\ "clearOwner" \notin Left(i)'
        BY <2>1, <2>2, <2>3, <2>4 DEF Does
  <2>6. jobs'[i] # None BY <2>5 DEF Left
  <2>7. Agree(token', session) BY <2>1, <2>2, <2>3 DEF Stages, Agree
  <2>8. Stages(i)' BY <2>5 DEF Stages
  <2>9. owner' = session BY <2>1, <2>2
  <2>10. Filed' BY <2>1, <2>2, <2>5, <2>7, <2>8, <2>9, SyncMoves
  <2>11. WillSwitch(i) => WillSwitch(i)' BY <2>1, <2>2, <2>5, <2>6 DEF WillSwitch
  <2>12. Right => Right' BY <2>1, <2>2, <2>7, <2>11, RightMoves
  <2> QED BY <2>10, <2>12
<1> QED BY <1>3, <1>4

\* clearToken: after a logout it still clears the token it read, and before a new
\* login it leaves no file that names another user.
LEMMA ClearsKeep ==
  ASSUME TypeInv, Filed, NEW i \in 1..Slots, ReadToken(i) \/ ClearConfig(i) \/ ClearOwner(i)
  PROVE  Filed' /\ (Right => Right')
<1>1. JobsOK BY DEF TypeInv
<1>2. \A s : s \in Left(i)' => jobs'[i] # None BY DEF Left
<1>3. ASSUME NEW h \in {"readToken", "clearConfig", "clearOwner"}, Does(i, h)
      PROVE  /\ h \in FileSteps /\ h \in Left(i) /\ jobs[i] # None /\ Complete(Left(i)) /\ Stages(i)
             /\ session = None =>
                  (token # None => "clearConfig" \in Left(i) /\
                                   ("readToken" \in Left(i) \/ jobs[i].token # None))
             /\ session # None =>
                  /\ owner = session \/ "writeOwner" \in Left(i)
                  /\ owner = session => Agree(token, session)
                  /\ "clearOwner" \in Left(i) => "writeOwner" \in Left(i)
             /\ session # None /\ Switched =>
                  (~Agree(token, session) => WillSwitch(i) /\ "writeConfig" \in Left(i))
  <2>1. h \in FileSteps /\ h \in Left(i) BY <1>3 DEF FileSteps, Does
  <2> QED BY <1>1, <2>1, TheFiler
<1>4. ASSUME NEW h \in {"readToken", "clearConfig"}, Does(i, h), session # None,
             UNCHANGED <<session, owner, daemon>>, token' = None \/ token' = token, Stages(i)',
             jobs'[i] # None => jobs'[i].owner = jobs[i].owner
      PROVE  Filed' /\ (Right => Right')
  <2>1. /\ h \in FileSteps
        /\ owner = session \/ "writeOwner" \in Left(i)
        /\ owner = session => Agree(token, session)
        /\ "clearOwner" \in Left(i) => "writeOwner" \in Left(i)
        /\ Switched => (~Agree(token, session) => WillSwitch(i) /\ "writeConfig" \in Left(i))
        BY <1>3, <1>4
  <2>2. \A s : s # h => (s \in Left(i)' <=> s \in Left(i)) BY <1>4 DEF Does
  <2>3. "clearOwner" \in Left(i)' => "writeOwner" \in Left(i)' BY <1>4, <2>1, <2>2
  <2>4. owner' = session \/ "writeOwner" \in Left(i)' BY <1>4, <2>1, <2>2
  <2>5. Agree(token, session) => Agree(token', session) BY <1>4 DEF Agree
  <2>6. Filed' BY <1>4, <2>1, <2>3, <2>4, <2>5, SyncMoves
  <2>7. WillSwitch(i) => WillSwitch(i)' BY <1>2, <1>4, <2>2 DEF WillSwitch
  <2>8. ASSUME Right PROVE Right'
    <3>1. Switched BY <1>4, <2>8 DEF Right
    <3>2. ~Agree(token', session) => WillSwitch(i)' /\ "writeConfig" \in Left(i)'
          BY <1>4, <2>1, <2>2, <2>5, <2>7, <3>1
    <3> QED BY <1>4, <2>1, <2>7, <2>8, <3>2, RightMoves
  <2> QED BY <2>6, <2>8
<1>5. CASE ReadToken(i)
  <2>1. /\ Does(i, "readToken")
        /\ jobs'[i] # None => jobs'[i].token = token /\ jobs'[i].owner = jobs[i].owner
        BY <1>5, ReadsWhat
  <2>2. UNCHANGED <<session, token, owner, daemon>> BY <1>5 DEF ReadToken, files
  <2>3. /\ "readToken" \in FileSteps /\ "readToken" \in Left(i) /\ Complete(Left(i)) /\ Stages(i)
        /\ session = None => (token # None => "clearConfig" \in Left(i))
        BY <2>1, <1>3
  <2>4. \A s : s # "readToken" => (s \in Left(i)' <=> s \in Left(i)) BY <2>1 DEF Does
  <2>5. CASE session # None
    <3>1. Stages(i)' BY <2>2, <2>3, <2>4, Chain DEF Stages
    <3> QED BY <2>1, <2>2, <2>5, <3>1, <1>4
  <2>6. CASE session = None
    <3>1. token' # None => "clearConfig" \in Left(i)' /\ jobs'[i].token # None
          BY <2>1, <2>2, <2>3, <2>4, <2>6, <1>2
    <3>2. Filed' BY <2>1, <2>2, <2>3, <2>6, <3>1, ClearMoves
    <3>3. Right => Right' BY <2>1, <2>2, <2>3, <2>6, RightMoves
    <3> QED BY <3>2, <3>3
  <2> QED BY <2>5, <2>6
<1>6. CASE ClearConfig(i)
  <2>1. /\ Does(i, "clearConfig") /\ UNCHANGED <<session, owner, daemon>>
        /\ token' = IF jobs[i].token = None THEN token ELSE None
        /\ jobs'[i] # None => jobs'[i].token = jobs[i].token /\ jobs'[i].owner = jobs[i].owner
        BY <1>1, <1>6, Advances DEF ClearConfig
  <2>2. "readToken" \notin Left(i) BY <2>1, InOrder
  <2>3. /\ "clearConfig" \in FileSteps /\ Stages(i)
        /\ session = None => (token # None => jobs[i].token # None)
        BY <2>1, <2>2, <1>3
  <2>4. \A s : s # "clearConfig" => (s \in Left(i)' <=> s \in Left(i)) BY <2>1 DEF Does
  <2>5. token' = None \/ token' = token BY <2>1
  <2>6. CASE session # None
    <3>1. \A s : s \in Left(i)' => /\ jobs'[i].token = jobs[i].token
                                   /\ jobs'[i].owner = jobs[i].owner
          BY <1>2, <2>1
    <3>2. Stages(i)' BY <2>1, <2>3, <2>4, <2>5, <3>1 DEF Stages, Agree
    <3> QED BY <2>1, <2>5, <2>6, <3>2, <1>4
  <2>7. CASE session = None
    <3>1. token' = None BY <2>1, <2>3, <2>7
    <3>2. Filed' BY <2>1, <2>3, <2>7, <3>1, ClearMoves
    <3>3. Right => Right' BY <2>1, <2>3, <2>7, RightMoves
    <3> QED BY <3>2, <3>3
  <2> QED BY <2>6, <2>7
<1>7. CASE ClearOwner(i)
  <2>1. /\ Does(i, "clearOwner") /\ owner' = None /\ UNCHANGED <<session, token, daemon>>
        /\ jobs'[i] # None => jobs'[i].token = jobs[i].token /\ jobs'[i].owner = jobs[i].owner
        BY <1>1, <1>7, Advances DEF ClearOwner
  <2>2. "readToken" \notin Left(i) /\ "clearConfig" \notin Left(i) BY <2>1, InOrder
  <2>3. /\ "clearOwner" \in FileSteps /\ "clearOwner" \in Left(i) /\ Stages(i)
        /\ session = None => token = None
        /\ session # None => "writeOwner" \in Left(i)
        /\ session # None /\ Switched => (~Agree(token, session) => WillSwitch(i))
        BY <2>1, <2>2, <1>3
  <2>4. \A s : s # "clearOwner" => (s \in Left(i)' <=> s \in Left(i)) BY <2>1 DEF Does
  <2>5. CASE session # None
    <3>1. \A s : s \in Left(i)' => /\ jobs'[i].token = jobs[i].token
                                   /\ jobs'[i].owner = jobs[i].owner
          BY <1>2, <2>1
    <3>2. Stages(i)' BY <2>1, <2>3, <2>4, <2>5, <3>1 DEF Stages, Agree
    <3>3. "writeOwner" \in Left(i)' /\ owner' # session BY <2>1, <2>3, <2>4, <2>5
    <3>4. Filed' BY <2>1, <2>3, <2>5, <3>2, <3>3, SyncMoves
    <3>5. ~WillSwitch(i) BY <2>3 DEF WillSwitch
    <3>6. ASSUME Right PROVE Right'
      <4>1. Agree(token', session) BY <2>1, <2>3, <2>5, <3>5, <3>6 DEF Right, Agree
      <4> QED BY <2>1, <2>3, <3>5, <3>6, <4>1, RightMoves
    <3> QED BY <3>4, <3>6
  <2>6. CASE session = None
    <3>1. Filed' BY <2>1, <2>3, <2>6, ClearMoves
    <3>2. Right => Right' BY <2>1, <2>3, <2>6, RightMoves
    <3> QED BY <3>1, <3>2
  <2> QED BY <2>5, <2>6
<1> QED BY <1>5, <1>6, <1>7

\* switch: the user changed for a daemon that runs for another, which is restarted.
LEMMA SwitchKeeps ==
  ASSUME TypeInv, Filed, NEW i \in 1..Slots, Switch(i)
  PROVE  Filed' /\ (Right => Right')
<1>1. JobsOK BY DEF TypeInv
<1>2. UNCHANGED <<session, token, owner, daemon>> BY DEF Switch, files
<1>3. At(i, "switch") BY DEF Switch
<1>4. /\ "switch" \in Left(i) /\ "switch" \in FileSteps /\ "switch" \in SyncSteps
      /\ \A s \in Left(i) \ {"switch"} : Rank("switch") < Rank(s)
      BY <1>1, <1>3, AtLeft DEF FileSteps, SyncSteps
<1>5. \A s \in FileSteps : s \in Left(i) => s = "switch"
  <2> SUFFICES ASSUME NEW s \in FileSteps, s # "switch" PROVE s \notin Left(i)
      OBVIOUS
  <2>1. ~(Rank("switch") < Rank(s)) BY DEF FileSteps, Rank
  <2> QED BY <2>1, <1>4
<1>6. /\ session # None /\ jobs[i].user = session
      /\ \A k \in (1..Slots) \ {i} : \A s \in FileSteps : s \notin Left(k)
      BY <1>1, <1>4, TheFiler
<1>7. "writeOwner" \notin Left(i) /\ "clearOwner" \notin Left(i) /\ "readOwner" \notin Left(i)
      BY <1>5 DEF FileSteps
<1>8. owner = session /\ Agree(token, session) BY <1>1, <1>4, <1>6, <1>7, TheFiler
<1>9. \A k \in (1..Slots) \ {i} : ~WillSwitch(k) BY <1>6 DEF WillSwitch, FileSteps
<1>10. ASSUME \A l \in 1..Slots : \A s \in FileSteps : s \notin Left(l)' PROVE Filed'
  <2>1. \A l \in 1..Slots : Stages(l)' BY <1>10 DEF Stages, FileSteps
  <2>2. OneFiler' BY <1>10, <2>1 DEF OneFiler
  <2>3. Synced' BY <1>2, <1>8, <1>10 DEF Synced, Agree, FileSteps
  <2> QED BY <1>2, <1>6, <2>2, <2>3 DEF Filed
<1>11. ASSUME Alive' /\ daemon'.token.user # session' =>
                \E k \in 1..Slots : "kill" \in Left(k)' /\ "enter" \notin Left(k)'
       PROVE  Right'
  <2>1. Switched' BY <1>2, <1>8, <1>11 DEF Switched, Agree
  <2> QED BY <1>2, <1>6, <2>1 DEF Right
<1>12. CASE ~(UserChanged(jobs[i]) /\ Alive) /\ Does(i, "switch")
  <2>1. \A l \in 1..Slots : \A s \in FileSteps : s \notin Left(l)'
        BY <1>5, <1>6, <1>12 DEF Does, Others
  <2>2. ~(WillSwitch(i) /\ Alive) BY <1>6, <1>7, <1>12 DEF WillSwitch, UserChanged
  <2>3. ASSUME Right, Alive', daemon'.token.user # session'
        PROVE  \E k \in 1..Slots : "kill" \in Left(k)' /\ "enter" \notin Left(k)'
    <3>1. PICK k \in 1..Slots : "kill" \in Left(k) /\ "enter" \notin Left(k)
          BY <1>2, <1>6, <1>9, <2>2, <2>3 DEF Right, Switched, Alive
    <3>2. "kill" \in Left(k)' /\ "enter" \notin Left(k)' BY <3>1, <1>12 DEF Does, Others
    <3> QED BY <3>2
  <2> QED BY <2>1, <2>3, <1>10, <1>11
<1>13. CASE \E k \in 1..Slots :
              /\ Left(k)' = {"stop", "kill", "stopped", "start", "spawn", "wait"}
              /\ k # i => Left(i)' = Left(i) \ {"switch"}
              /\ \A l \in (1..Slots) \ {i, k} : Left(l)' = Left(l)
  <2>1. PICK k \in 1..Slots :
              /\ Left(k)' = {"stop", "kill", "stopped", "start", "spawn", "wait"}
              /\ k # i => Left(i)' = Left(i) \ {"switch"}
              /\ \A l \in (1..Slots) \ {i, k} : Left(l)' = Left(l)
        BY <1>13
  <2>2. \A l \in 1..Slots : \A s \in FileSteps : s \notin Left(l)'
    <3>1. \A s \in FileSteps : s \notin Left(k)' BY <2>1 DEF FileSteps
    <3>2. k # i => \A s \in FileSteps : s \notin Left(i)' BY <2>1, <1>5
    <3>3. \A l \in (1..Slots) \ {i, k} : \A s \in FileSteps : s \notin Left(l)' BY <2>1, <1>6
    <3> QED BY <3>1, <3>2, <3>3
  <2>3. "kill" \in Left(k)' /\ "enter" \notin Left(k)' BY <2>1
  <2> QED BY <2>2, <2>3, <1>10, <1>11
<1> QED BY <1>1, <1>12, <1>13, Switches

\* A step that is none of the files' keeps what holds of them.
LEMMA KeptKeepsFiles ==
  ASSUME Filed, NEW i \in 1..Slots, Kept(i), UNCHANGED <<session, token, owner>>
  PROVE  Filed'
<1>1. \A k \in 1..Slots : \A s \in FileSteps : s \in Left(k)' <=> s \in Left(k)
      BY DEF Kept, Others
<1>2. \A k \in 1..Slots : jobs'[k] # None =>
        /\ jobs'[k].user = jobs[k].user /\ jobs'[k].token = jobs[k].token
        /\ jobs'[k].owner = jobs[k].owner
      BY DEF Kept, Others
<1>3. \A k \in 1..Slots : \A s : s \in Left(k)' => jobs'[k] # None BY DEF Left
<1>4. OneFiler'
  <2>1. \A k \in 1..Slots : Left(k)' \cap FileSteps # {} => jobs'[k].user = session'
        BY <1>1, <1>2, <1>3 DEF Filed, OneFiler
  <2>2. \A k, l \in 1..Slots :
          Left(k)' \cap FileSteps # {} /\ Left(l)' \cap FileSteps # {} => k = l
        BY <1>1 DEF Filed, OneFiler
  <2>3. ASSUME NEW k \in 1..Slots PROVE Stages(k)'
    <3>1. Stages(k) BY DEF Filed, OneFiler
    <3>2. \A s \in FileSteps : s \in Left(k)' =>
            s \in Left(k) /\ jobs'[k].token = jobs[k].token /\ jobs'[k].owner = jobs[k].owner
          BY <1>1, <1>2, <1>3
    <3>3. \A s \in FileSteps : s \notin Left(k)' => s \notin Left(k) BY <1>1
    <3> QED BY <3>1, <3>2, <3>3 DEF Stages, Agree, FileSteps
  <2> QED BY <2>1, <2>2, <2>3 DEF OneFiler
<1>5. CASE session = None
  <2>1. Cleared BY <1>5 DEF Filed
  <2>2. \A k \in 1..Slots : Left(k)' \cap SyncSteps = {} BY <1>1, <2>1 DEF Cleared, SyncSteps, FileSteps
  <2>3. ASSUME token # None
        PROVE  \E k \in 1..Slots :
                 "clearConfig" \in Left(k)' /\ ("readToken" \in Left(k)' \/ jobs'[k].token # None)
    <3>1. PICK k \in 1..Slots :
             "clearConfig" \in Left(k) /\ ("readToken" \in Left(k) \/ jobs[k].token # None)
          BY <2>1, <2>3 DEF Cleared
    <3>2. "clearConfig" \in Left(k)' /\ jobs'[k] # None BY <3>1, <1>1, <1>3 DEF FileSteps
    <3> QED BY <3>1, <3>2, <1>1, <1>2 DEF FileSteps
  <2>4. Cleared' BY <2>2, <2>3 DEF Cleared
  <2> QED BY <1>4, <1>5, <2>4 DEF Filed
<1>6. CASE session # None
  <2>1. Synced BY <1>6 DEF Filed
  <2>2. Synced' BY <1>1, <2>1 DEF Synced, Agree, FileSteps
  <2> QED BY <1>4, <1>6, <2>2 DEF Filed
<1> QED BY <1>5, <1>6

\* It keeps what a logout or a login has yet to do about the daemon, unless it starts one.
LEMMA KeptKeepsRight ==
  ASSUME Right, NEW i \in 1..Slots, Kept(i), UNCHANGED <<session, token, owner>>,
         session = None /\ Alive' => \E k \in 1..Slots : "kill" \in Left(k)',
         session # None /\ Alive' /\ daemon'.token.user # session =>
           /\ (Alive /\ daemon.token.user # session) \/ ~Agree(token, session)
           /\ "kill" \in Left(i) /\ "enter" \notin Left(i) => "kill" \in Left(i)'
  PROVE  Right'
<1>1. \A k \in 1..Slots : \A s \in FileSteps : s \in Left(k)' <=> s \in Left(k)
      BY DEF Kept, Others
<1>2. CASE session = None
  <2>1. Stopping BY <1>2 DEF Right
  <2>2. \A k \in 1..Slots : "release" \in Left(k)' => "release" \in Left(k) BY DEF Kept, Others
  <2>3. Stopping' BY <1>2, <2>1, <2>2 DEF Stopping
  <2> QED BY <1>2, <2>3 DEF Right
<1>3. CASE session # None
  <2>1. Switched BY <1>3 DEF Right
  <2>2. ASSUME NEW k \in 1..Slots, WillSwitch(k) PROVE WillSwitch(k)'
    <3>1. "switch" \in Left(k)' /\ jobs'[k] # None
          BY <2>2, <1>1 DEF WillSwitch, FileSteps, Left
    <3>2. jobs'[k].owner = jobs[k].owner BY <3>1 DEF Kept, Others
    <3> QED BY <2>2, <3>1, <3>2, <1>1 DEF WillSwitch, FileSteps
  <2>3. ~Agree(token', session') => \E k \in 1..Slots : WillSwitch(k)' /\ "writeConfig" \in Left(k)'
        BY <1>1, <2>1, <2>2 DEF Switched, FileSteps
  <2>4. ASSUME Alive', daemon'.token.user # session'
        PROVE  \E k \in 1..Slots : WillSwitch(k)' \/ ("kill" \in Left(k)' /\ "enter" \notin Left(k)')
    <3>1. CASE ~Agree(token, session) BY <3>1, <2>1, <2>2 DEF Switched
    <3>2. CASE Alive /\ daemon.token.user # session
      <4>1. PICK k \in 1..Slots : WillSwitch(k) \/ ("kill" \in Left(k) /\ "enter" \notin Left(k))
            BY <3>2, <2>1 DEF Switched
      <4>2. "kill" \in Left(k) /\ "enter" \notin Left(k) =>
              "kill" \in Left(k)' /\ "enter" \notin Left(k)'
            BY <1>3, <2>4 DEF Kept, Others
      <4> QED BY <4>1, <4>2, <2>2
    <3> QED BY <3>1, <3>2, <1>3, <2>4
  <2>5. Switched' BY <2>3, <2>4 DEF Switched, Agree
  <2> QED BY <1>3, <2>5 DEF Right
<1> QED BY <1>2, <1>3

\* The usual case: the daemon stays, and so does the kill.
LEMMA KeptKeeps ==
  ASSUME Filed, NEW i \in 1..Slots, Kept(i), UNCHANGED <<session, token, owner>>,
         "kill" \in Left(i) => "kill" \in Left(i)' \/ ~Alive',
         Alive' => Alive /\ daemon'.token.user = daemon.token.user
  PROVE  Filed' /\ (Right => Right')
<1>1. Filed' BY KeptKeepsFiles
<1>2. ASSUME Right PROVE Right'
  <2>1. ASSUME session = None, Alive' PROVE \E k \in 1..Slots : "kill" \in Left(k)'
    <3>1. PICK k \in 1..Slots : "kill" \in Left(k) BY <1>2, <2>1 DEF Right, Stopping
    <3>2. "kill" \in Left(k)' BY <2>1, <3>1 DEF Kept, Others
    <3> QED BY <3>2
  <2> QED BY <1>2, <2>1, KeptKeepsRight
<1> QED BY <1>1, <1>2

\* The start of a daemon: after a logout its token is there only as long as the clearing
\* of it, and with it the stop.
LEMMA SpawnKeeps ==
  ASSUME TypeInv, Filed, NEW i \in 1..Slots, Spawn(i)
  PROVE  Filed' /\ (Right => Right')
<1>1. JobsOK /\ token \in Pat \cup {None} BY DEF TypeInv
<1>2. Kept(i) /\ ("kill" \in Left(i) => "kill" \in Left(i)') BY OtherActions
<1>3. UNCHANGED <<session, token, owner>> BY DEF Spawn, files
<1>4. daemon' = daemon
      \/ daemon' = IF token = None THEN NoDaemon ELSE [status |-> "starting", token |-> token]
      BY DEF Spawn
<1>5. CASE daemon' = daemon BY <1>2, <1>3, <1>5, KeptKeeps DEF Alive
<1>6. CASE token = None /\ daemon' = NoDaemon
  <2>1. ~Alive' BY <1>6 DEF Alive, NoDaemon
  <2> QED BY <1>2, <1>3, <2>1, KeptKeeps
<1>7. CASE token # None /\ daemon' = [status |-> "starting", token |-> token]
  <2>1. Filed' BY <1>2, <1>3, KeptKeepsFiles
  <2>2. ASSUME Right PROVE Right'
    <3>1. ASSUME session = None PROVE \E k \in 1..Slots : "kill" \in Left(k)'
      <4>1. PICK k \in 1..Slots : "clearConfig" \in Left(k) BY <1>7, <3>1 DEF Filed, Cleared
      <4>2. jobs[k] # None BY <4>1 DEF Left
      <4>3. "kill" \in Left(k) BY <1>1, <4>1, <4>2 DEF JobsOK, JobOK, Complete
      <4>4. "kill" \in Left(k)' BY <1>2, <4>3 DEF Kept, Others
      <4> QED BY <4>4
    <3>2. session # None /\ daemon'.token.user # session => ~Agree(token, session)
          BY <1>7 DEF Agree
    <3> QED BY <1>2, <1>3, <2>2, <3>1, <3>2, KeptKeepsRight
  <2> QED BY <2>1, <2>2
<1> QED BY <1>4, <1>5, <1>6, <1>7

\* Starting, stopping and the guard.
LEMMA OthersKeep ==
  ASSUME TypeInv, GuardInv, Filed, NEW i \in 1..Slots,
         \/ Enter(i) \/ Kill(i)
         \/ Release(i) \/ AutoStart(i) \/ Start(i) \/ Spawn(i) \/ Wait(i)
         \/ Stop(i) \/ Stopped(i) \/ Answer(i)
  PROVE  Filed' /\ (Right => Right')
<1>1. JobsOK BY DEF TypeInv
<1>2. CASE Enter(i)
  <2>1. Kept(i) /\ "enter" \in Left(i) BY <1>2, EnterWhat
  <2>2. UNCHANGED <<session, token, owner, daemon>> BY <1>2 DEF Enter, files
  <2>3. CASE "kill" \in Left(i) => "kill" \in Left(i)'
        BY <2>1, <2>2, <2>3, KeptKeeps DEF Alive
  <2>4. CASE guard
    <3>1. PICK k \in 1..Slots : HoldsGuard(k) BY <2>4 DEF GuardInv
    <3>2. "release" \in Left(i)
      <4>1. jobs[i] # None BY <2>1 DEF Left
      <4> QED BY <2>1, <4>1, <1>1 DEF JobsOK, JobOK, Complete
    <3>3. k # i /\ "release" \in Left(k) BY <3>1, <2>1 DEF HoldsGuard
    <3>4. Filed' BY <2>1, <2>2, KeptKeepsFiles
    <3>5. ASSUME Right PROVE Right'
      <4>1. session # None BY <3>2, <3>3, <3>5 DEF Right, Stopping
      <4> QED BY <2>1, <2>2, <3>5, <4>1, KeptKeepsRight DEF Alive
    <3> QED BY <3>4, <3>5
  <2> QED BY <1>2, <2>3, <2>4, EnterWhat
<1>3. CASE Kill(i)
  <2>1. /\ Does(i, "kill") /\ daemon' = NoDaemon /\ UNCHANGED <<session, token, owner>>
        /\ jobs'[i] # None => jobs'[i].token = jobs[i].token /\ jobs'[i].owner = jobs[i].owner
        BY <1>1, <1>3, Advances DEF Kill, files
  <2>2. Kept(i) BY <2>1 DEF Kept, Does, FileSteps, Works
  <2>3. ~Alive' BY <2>1 DEF Alive, NoDaemon
  <2> QED BY <2>1, <2>2, <2>3, KeptKeeps
<1>4. CASE Spawn(i) BY <1>4, SpawnKeeps
<1>5. CASE Release(i) \/ AutoStart(i) \/ Start(i) \/ Wait(i) \/ Stop(i) \/ Stopped(i) \/ Answer(i)
  <2>1. Kept(i) /\ ("kill" \in Left(i) => "kill" \in Left(i)') BY <1>5, OtherActions
  <2>2. UNCHANGED <<session, token, owner, daemon>>
        BY <1>5 DEF Release, AutoStart, Start, Wait, Stop, Stopped, Answer, files
  <2> QED BY <2>1, <2>2, KeptKeeps DEF Alive
<1> QED BY <1>2, <1>3, <1>4, <1>5

\* Revoking changes no user.
LEMMA RevokeKeeps ==
  ASSUME TypeInv, Filed, Revoke PROVE Filed' /\ (Right => Right')
<1>1. RevokedJobs /\ token \in Pat \cup {None} BY RevokeJobs DEF TypeInv
<1>2. UNCHANGED <<session, owner>> /\ token' = Revoked(token) BY DEF Revoke
<1>3. /\ token' = None <=> token = None
      /\ token # None => token'.user = token.user
      BY <1>1, <1>2, RevokedPat
<1>4. \A u : Agree(token', u) <=> Agree(token, u) BY <1>3 DEF Agree
<1>5. \A i \in 1..Slots : jobs[i] # None =>
        /\ jobs'[i] # None /\ jobs'[i].user = jobs[i].user /\ jobs'[i].owner = jobs[i].owner
        /\ jobs'[i].token = None <=> jobs[i].token = None
        /\ jobs[i].token # None => jobs'[i].token.user = jobs[i].token.user
      BY <1>1, RevokedPat DEF RevokedJobs
<1>6. \A i \in 1..Slots : Left(i)' = Left(i) BY <1>1 DEF RevokedJobs
<1>7. \A i \in 1..Slots : \A s : s \in Left(i) => jobs[i] # None BY DEF Left
<1>8. daemon' = [daemon EXCEPT !.token = Revoked(@)] BY DEF Revoke
<1>9. (Alive' <=> Alive) /\ (Alive => daemon'.token.user = daemon.token.user)
  <2>1. CASE daemon = NoDaemon BY <2>1, <1>8 DEF Alive, NoDaemon
  <2>2. CASE daemon \in [status : {"starting", "running"}, token : Pat]
    <3>1. daemon.token \in Pat /\ daemon.token # None BY <2>2
    <3>2. Revoked(daemon.token).user = daemon.token.user BY <3>1, RevokedPat
    <3> QED BY <2>2, <3>2, <1>8 DEF Alive
  <2> QED BY <2>1, <2>2 DEF TypeInv
<1>10. OneFiler'
  <2>1. \A i \in 1..Slots : Left(i)' \cap FileSteps # {} => jobs'[i].user = session'
        BY <1>2, <1>5, <1>6, <1>7 DEF Filed, OneFiler
  <2>2. \A i, k \in 1..Slots :
          Left(i)' \cap FileSteps # {} /\ Left(k)' \cap FileSteps # {} => i = k
        BY <1>6 DEF Filed, OneFiler
  <2>3. ASSUME NEW i \in 1..Slots PROVE Stages(i)'
    <3>1. Stages(i) BY DEF Filed, OneFiler
    <3>2. CASE jobs[i] = None BY <3>2, <1>6, <1>7 DEF Stages
    <3>3. CASE jobs[i] # None
      <4>1. \A u : Agree(jobs[i].token, u) => Agree(jobs'[i].token, u) BY <3>3, <1>5 DEF Agree
      <4>2. jobs[i].token # None => jobs'[i].token # None /\ jobs'[i].token.user = jobs[i].token.user
            BY <3>3, <1>5
      <4> QED BY <3>1, <3>3, <4>1, <4>2, <1>2, <1>4, <1>5, <1>6 DEF Stages
    <3> QED BY <3>2, <3>3
  <2> QED BY <2>1, <2>2, <2>3 DEF OneFiler
<1>11. CASE session = None
  <2>1. Cleared BY <1>11 DEF Filed
  <2>2. token' # None => \E i \in 1..Slots :
          "clearConfig" \in Left(i)' /\ ("readToken" \in Left(i)' \/ jobs'[i].token # None)
        BY <2>1, <1>3, <1>5, <1>6, <1>7 DEF Cleared
  <2>3. Cleared' BY <2>1, <2>2, <1>6 DEF Cleared
  <2>4. Stopping => Stopping' BY <1>6, <1>9 DEF Stopping
  <2> QED BY <1>2, <1>10, <1>11, <2>3, <2>4 DEF Filed, Right
<1>12. CASE session # None
  <2>1. Synced BY <1>12 DEF Filed
  <2>2. Synced' BY <2>1, <1>2, <1>4, <1>6 DEF Synced
  <2>3. \A i \in 1..Slots : WillSwitch(i) => WillSwitch(i)'
        BY <1>2, <1>5, <1>6, <1>7 DEF WillSwitch
  <2>4. ASSUME Switched PROVE Switched'
    <3>1. ~Agree(token', session') =>
            \E i \in 1..Slots : WillSwitch(i)' /\ "writeConfig" \in Left(i)'
          BY <2>3, <2>4, <1>2, <1>4, <1>6 DEF Switched
    <3>2. Alive' /\ daemon'.token.user # session' =>
            \E i \in 1..Slots : WillSwitch(i)' \/ ("kill" \in Left(i)' /\ "enter" \notin Left(i)')
          BY <2>3, <2>4, <1>2, <1>6, <1>9 DEF Switched
    <3> QED BY <3>1, <3>2 DEF Switched
  <2> QED BY <1>2, <1>10, <1>12, <2>2, <2>4 DEF Filed, Right
<1> QED BY <1>11, <1>12

\* The boot of the daemon, the polls and the steps that change nothing.
LEMMA DaemonKeeps ==
  ASSUME TypeInv, Filed, Boots \/ BootRefused \/ Poll \/ UNCHANGED vars
  PROVE  Filed' /\ (Right => Right')
<1>1. 1 \in 1..Slots BY DaemonAssumption
<1>2. UNCHANGED <<session, token, owner, jobs>>
      BY DEF Boots, BootRefused, Poll, vars, files
<1>3. Kept(1) /\ ("kill" \in Left(1) => "kill" \in Left(1)')
      BY <1>2 DEF Kept, Others, Left, Works
<1>4. Alive' => Alive /\ daemon'.token.user = daemon.token.user
  <2>1. CASE Boots BY <2>1 DEF Boots, Alive
  <2>2. CASE BootRefused BY <2>2 DEF BootRefused, Alive, NoDaemon
  <2>3. CASE Poll \/ UNCHANGED vars BY <2>3 DEF Poll, vars, Alive
  <2> QED BY <2>1, <2>2, <2>3
<1> QED BY <1>1, <1>2, <1>3, <1>4, KeptKeeps

-----------------------------------------------------------------------------
(* The calls of the renderer *)

\* A job that begins when no other has a step on the files left.
LEMMA OnlyFiler ==
  ASSUME NEW i \in 1..Slots, \A k \in (1..Slots) \ {i}, s \in FileSteps : s \notin Left(k)',
         jobs'[i].user = session', Left(i)' \in {LoginSteps, LogoutSteps, ReauthSteps}
  PROVE  OneFiler'
<1>1. \A k \in (1..Slots) \ {i} : Stages(k)' BY DEF Stages, FileSteps
<1>2. Stages(i)'
  <2>1. CASE Left(i)' = LoginSteps BY <2>1 DEF Stages, LoginSteps
  <2>2. CASE Left(i)' = LogoutSteps BY <2>2 DEF Stages, LogoutSteps
  <2>3. CASE Left(i)' = ReauthSteps BY <2>3 DEF Stages, ReauthSteps
  <2> QED BY <2>1, <2>2, <2>3
<1> QED BY <1>1, <1>2 DEF OneFiler

\* A logout takes up whatever there is.
LEMMA LogoutBegins ==
  ASSUME NEW i \in 1..Slots, Left(i)' = LogoutSteps, jobs'[i].user = session', session' = None,
         \A k \in (1..Slots) \ {i}, s \in FileSteps \cup {"release"} : s \notin Left(k)'
  PROVE  Filed' /\ Right'
<1>1. OneFiler' BY OnlyFiler
<1>2. \A k \in 1..Slots : Left(k)' \cap SyncSteps = {}
  <2>1. Left(i)' \cap SyncSteps = {} BY DEF LogoutSteps, SyncSteps
  <2> QED BY <2>1 DEF SyncSteps, FileSteps
<1>3. {"clearConfig", "readToken", "kill"} \subseteq Left(i)' BY DEF LogoutSteps
<1>4. Cleared' BY <1>2, <1>3 DEF Cleared
<1>5. Stopping' BY <1>3 DEF Stopping
<1> QED BY <1>1, <1>4, <1>5 DEF Filed, Right

\* A login that begins when nothing synchronises: over a session, from none, or of the
\* session that is restored.
LEMMA LoginBegins ==
  ASSUME NEW i \in 1..Slots, Left(i)' = LoginSteps, jobs'[i].user = session', session' # None,
         \A k \in (1..Slots) \ {i}, s \in FileSteps : s \notin Left(k)',
         UNCHANGED <<token, owner, daemon>>,
         owner = session' => Agree(token, session')
  PROVE  /\ Filed'
         /\ /\ Agree(token, session') \/ (owner # None /\ owner # session')
            /\ Alive /\ daemon.token.user # session' =>
                 \/ owner # None /\ owner # session'
                 \/ \E k \in 1..Slots : "kill" \in Left(k)' /\ "enter" \notin Left(k)'
            => Right'
<1>1. OneFiler' BY OnlyFiler
<1>2. "writeOwner" \in Left(i)' /\ "writeConfig" \in Left(i)' BY DEF LoginSteps
<1>3. Synced'
  <2>1. \A k \in 1..Slots : "clearOwner" \in Left(k)' => "writeOwner" \in Left(k)'
        BY <1>2 DEF FileSteps
  <2> QED BY <1>2, <2>1 DEF Synced, Agree
<1>4. owner # None /\ owner # session' => WillSwitch(i)' BY DEF WillSwitch, LoginSteps
<1>5. ASSUME Agree(token, session') \/ (owner # None /\ owner # session'),
             Alive /\ daemon.token.user # session' =>
               \/ owner # None /\ owner # session'
               \/ \E k \in 1..Slots : "kill" \in Left(k)' /\ "enter" \notin Left(k)'
      PROVE  Switched'
  <2>1. ~Agree(token', session') => WillSwitch(i)' /\ "writeConfig" \in Left(i)'
        BY <1>2, <1>4, <1>5 DEF Agree
  <2>2. Alive' /\ daemon'.token.user # session' =>
          \E k \in 1..Slots : WillSwitch(k)' \/ ("kill" \in Left(k)' /\ "enter" \notin Left(k)')
        BY <1>4, <1>5 DEF Alive
  <2> QED BY <2>1, <2>2 DEF Switched
<1> QED BY <1>1, <1>3, <1>5 DEF Filed, Right

\* A new job that reads and writes no file keeps all of it.
LEMMA GetsKeeps ==
  ASSUME Filed, NEW i \in 1..Slots, NEW j, NEW S, Gets(i, j, S), S \cap FileSteps = {},
         session = None => "release" \notin S,
         UNCHANGED <<session, token, owner, daemon>>
  PROVE  Filed' /\ (Right => Right')
<1>1. /\ Left(i) = {} /\ Left(i)' = S
      /\ \A k \in (1..Slots) \ {i} : jobs'[k] = jobs[k] /\ Left(k)' = Left(k)
      BY DEF Gets, Others
<1>2. \A k \in 1..Slots : \A s \in FileSteps : s \in Left(k)' <=> s \in Left(k)
      BY <1>1
<1>3. \A k \in 1..Slots : Left(k) # {} => k # i BY <1>1
<1>4. OneFiler'
  <2>1. \A k \in 1..Slots : Left(k)' \cap FileSteps # {} => jobs'[k].user = session'
        BY <1>1 DEF Filed, OneFiler
  <2>2. \A k, l \in 1..Slots :
          Left(k)' \cap FileSteps # {} /\ Left(l)' \cap FileSteps # {} => k = l
        BY <1>2 DEF Filed, OneFiler
  <2>3. Stages(i)' BY <1>1 DEF Stages, FileSteps
  <2>4. ASSUME NEW k \in (1..Slots) \ {i} PROVE Stages(k)'
    <3>1. Stages(k) /\ jobs'[k] = jobs[k] /\ Left(k)' = Left(k) BY <1>1 DEF Filed, OneFiler
    <3> QED BY <3>1 DEF Stages, Agree
  <2> QED BY <2>1, <2>2, <2>3, <2>4 DEF OneFiler
<1>5. CASE session = None
  <2>1. Cleared BY <1>5 DEF Filed
  <2>2. \A k \in 1..Slots : Left(k)' \cap SyncSteps = {}
        BY <1>2, <2>1 DEF Cleared, SyncSteps, FileSteps
  <2>3. ASSUME token # None
        PROVE  \E k \in 1..Slots :
                 "clearConfig" \in Left(k)' /\ ("readToken" \in Left(k)' \/ jobs'[k].token # None)
    <3>1. PICK k \in 1..Slots :
             "clearConfig" \in Left(k) /\ ("readToken" \in Left(k) \/ jobs[k].token # None)
          BY <2>1, <2>3 DEF Cleared
    <3>2. k # i BY <3>1, <1>3
    <3> QED BY <3>1, <3>2, <1>1
  <2>4. Cleared' BY <2>2, <2>3 DEF Cleared
  <2>5. ASSUME Stopping PROVE Stopping'
    <3>1. \A k \in 1..Slots : "release" \in Left(k)' => "release" \in Left(k) BY <1>1, <1>5
    <3>2. \A k \in 1..Slots : "kill" \in Left(k) => "kill" \in Left(k)' BY <1>1, <1>3
    <3> QED BY <2>5, <3>1, <3>2 DEF Stopping, Alive
  <2> QED BY <1>4, <1>5, <2>4, <2>5 DEF Filed, Right
<1>6. CASE session # None
  <2>1. Synced BY <1>6 DEF Filed
  <2>2. Synced' BY <2>1, <1>2 DEF Synced, Agree, FileSteps
  <2>3. ASSUME NEW k \in 1..Slots, WillSwitch(k) PROVE WillSwitch(k)'
    <3>1. k # i BY <2>3, <1>1 DEF WillSwitch
    <3> QED BY <3>1, <2>3, <1>1 DEF WillSwitch
  <2>4. ASSUME Switched PROVE Switched'
    <3>1. ~Agree(token', session') => \E k \in 1..Slots : WillSwitch(k)' /\ "writeConfig" \in Left(k)'
          BY <2>3, <2>4, <1>2 DEF Switched, Agree, FileSteps
    <3>2. \A k \in 1..Slots : "kill" \in Left(k) /\ "enter" \notin Left(k) =>
            "kill" \in Left(k)' /\ "enter" \notin Left(k)'
          BY <1>1, <1>3
    <3>3. Alive' /\ daemon'.token.user # session' =>
            \E k \in 1..Slots : WillSwitch(k)' \/ ("kill" \in Left(k)' /\ "enter" \notin Left(k)')
          BY <2>3, <2>4, <3>2 DEF Switched, Alive
    <3> QED BY <3>1, <3>3 DEF Switched
  <2> QED BY <1>4, <1>6, <2>2, <2>4 DEF Filed, Right
<1> QED BY <1>5, <1>6

\* Nothing synchronises: the files are the session's.
LEMMA FilesAtRest ==
  ASSUME Filed, \A k \in 1..Slots, s \in FileSteps : s \notin Left(k)
  PROVE  /\ session = None => token = None
         /\ session # None => owner = session /\ Agree(token, session)
BY DEF Filed, Cleared, Synced, FileSteps

\* Neither a switch nor a stop is left: the daemon is the session's.
LEMMA DaemonAtRest ==
  ASSUME Right, \A k \in 1..Slots, s \in {"switch", "kill"} : s \notin Left(k)
  PROVE  /\ session = None => ~Alive
         /\ session # None => Agree(token, session) /\ (Alive => daemon.token.user = session)
BY DEF Right, Stopping, Switched, WillSwitch

\* A login keeps the invariant, or it is a slip.
LEMMA LogInKeeps ==
  ASSUME TypeInv, SessionInv, NEW u \in Users, LogIn(u) PROVE SessionInv'
<1>1. JobsOK /\ session \in Users \cup {None} /\ None \notin Users BY DEF TypeInv
<1>2. PICK i \in 1..Slots : Gets(i, Job(Login, u), LoginSteps) BY CallsWhat DEF Called
<1>3. Job(Login, u).user = u BY CallsWhat DEF Called
<1>4. /\ Left(i)' = LoginSteps /\ jobs'[i].user = u /\ Left(i) = {}
      /\ \A k \in (1..Slots) \ {i} : Left(k)' = Left(k)
      BY <1>2, <1>3 DEF Gets, Others
<1>5. session' = u /\ u # None /\ u # session /\ UNCHANGED <<token, owner, daemon>>
      BY <1>1 DEF LogIn, files
<1>6. slips' = slips \cup IF Synchronising \/ (session = None /\ Busy) THEN {"overlap"} ELSE {}
      BY DEF LogIn, Slip
<1>7. ASSUME slips' \subseteq {"cut"}
      PROVE  Filed' /\ (slips' = {} => Right')
  <2>1. ~Synchronising /\ ~(session = None /\ Busy) /\ slips \subseteq {"cut"} BY <1>6, <1>7
  <2>2. \A k \in 1..Slots, s \in FileSteps : s \notin Left(k) BY <1>1, <2>1, NoFiler
  <2>3. \A k \in (1..Slots) \ {i}, s \in FileSteps : s \notin Left(k)' BY <1>4, <2>2
  <2>4. /\ session = None => token = None
        /\ session # None => owner = session /\ Agree(token, session)
        BY <2>1, <2>2, FilesAtRest DEF SessionInv
  <2>5. owner = session' => Agree(token, session') BY <1>5, <2>4 DEF Agree
  <2>6. Filed' BY <1>4, <1>5, <2>3, <2>5, LoginBegins
  <2>7. ASSUME slips' = {} PROVE Right'
    <3>1. Right BY <1>6, <2>7 DEF SessionInv
    <3>2. CASE session # None
      <4>1. owner # None /\ owner # session' BY <3>2, <2>4, <1>5
      <4> QED BY <4>1, <1>4, <1>5, <2>3, <2>5, LoginBegins
    <3>3. CASE session = None
      <4>1. \A k \in 1..Slots : ~Works(k) BY <3>3, <2>1, <1>1, NotBusy
      <4>2. \A k \in 1..Slots, s \in {"switch", "kill"} : s \notin Left(k) BY <4>1 DEF Works
      <4>3. ~Alive BY <3>1, <3>3, <4>2, DaemonAtRest
      <4>4. Agree(token, session') BY <3>3, <2>4 DEF Agree
      <4> QED BY <4>3, <4>4, <1>4, <1>5, <2>3, <2>5, LoginBegins
    <3> QED BY <3>2, <3>3
  <2> QED BY <2>6, <2>7
<1> QED BY <1>7 DEF SessionInv

\* A logout beside no synchronisation and no operation.
LEMMA LogOutKeeps ==
  ASSUME TypeInv, SessionInv, LogOut PROVE SessionInv'
<1>1. JobsOK BY DEF TypeInv
<1>2. PICK i \in 1..Slots : Gets(i, Job(Logout, None), LogoutSteps) BY CallsWhat DEF Called
<1>3. Job(Logout, None).user = None BY CallsWhat DEF Called
<1>4. /\ Left(i)' = LogoutSteps /\ jobs'[i].user = None
      /\ \A k \in (1..Slots) \ {i} : Left(k)' = Left(k)
      BY <1>2, <1>3 DEF Gets, Others
<1>5. session' = None BY DEF LogOut
<1>6. ASSUME slips' \subseteq {"cut"} PROVE Filed' /\ Right'
  <2>1. ~Synchronising /\ ~Operating BY <1>6 DEF LogOut
  <2>2. \A k \in 1..Slots, s \in FileSteps \cup {"release"} : s \notin Left(k)
        BY <1>1, <2>1, NoFiler
  <2>3. \A k \in (1..Slots) \ {i}, s \in FileSteps \cup {"release"} : s \notin Left(k)'
        BY <1>4, <2>2
  <2> QED BY <1>4, <1>5, <2>3, LogoutBegins
<1> QED BY <1>6 DEF SessionInv

\* A reauthentication beside no synchronisation.
LEMMA ReauthKeeps ==
  ASSUME TypeInv, SessionInv, Reauth PROVE SessionInv'
<1>1. JobsOK BY DEF TypeInv
<1>2. PICK i \in 1..Slots : Gets(i, Job(Reauthenticate, session), ReauthSteps)
      BY CallsWhat DEF Called
<1>3. Job(Reauthenticate, session).user = session BY CallsWhat DEF Called
<1>4. /\ Left(i)' = ReauthSteps /\ jobs'[i].user = session
      /\ \A k \in (1..Slots) \ {i} : Left(k)' = Left(k)
      BY <1>2, <1>3 DEF Gets, Others
<1>5. session # None /\ UNCHANGED <<session, token, owner, daemon>> BY DEF Reauth, files
<1>6. slips' = slips \cup IF Synchronising THEN {"overlap"} ELSE {} BY DEF Reauth, Slip
<1>7. ASSUME slips' \subseteq {"cut"}
      PROVE  Filed' /\ (slips' = {} => Right')
  <2>1. ~Synchronising /\ slips \subseteq {"cut"} BY <1>6, <1>7
  <2>2. \A k \in 1..Slots, s \in FileSteps : s \notin Left(k) BY <1>1, <2>1, NoFiler
  <2>3. \A k \in (1..Slots) \ {i}, s \in FileSteps : s \notin Left(k)' BY <1>4, <2>2
  <2>4. owner = session /\ Agree(token, session)
        BY <1>5, <2>1, <2>2, FilesAtRest DEF SessionInv
  <2>5. OneFiler' BY <1>4, <1>5, <2>3, OnlyFiler
  <2>6. "writeOwner" \in Left(i)' /\ "kill" \in Left(i)' /\ "enter" \notin Left(i)'
        BY <1>4 DEF ReauthSteps
  <2>7. \A k \in 1..Slots : "clearOwner" \in Left(k)' => "writeOwner" \in Left(k)'
        BY <2>3, <2>6 DEF FileSteps
  <2>8. Synced' BY <1>5, <2>4, <2>7 DEF Synced, Agree
  <2>9. Switched' BY <1>5, <2>4, <2>6 DEF Switched, Agree
  <2> QED BY <1>5, <2>5, <2>8, <2>9 DEF Filed, Right
<1> QED BY <1>7 DEF SessionInv

\* A relaunch: a logout anew, or a login over whatever files the end of the application
\* left.
LEMMA RelaunchKeeps ==
  ASSUME TypeInv, SessionInv, Relaunch PROVE SessionInv'
<1>1. JobsOK BY DEF TypeInv
<1>2. /\ 1 \in 1..Slots /\ \A k \in (1..Slots) \ {1} : Left(k)' = {}
      /\ jobs'[1].user = session'
      /\ Left(1)' = IF session' = None THEN LogoutSteps ELSE LoginSteps
      BY RelaunchJobs
<1>3. UNCHANGED <<token, owner, daemon>> /\ session' \in {session, None} BY DEF Relaunch, files
<1>4. CASE session' = None
  <2>1. Filed' /\ Right' BY <1>2, <1>4, LogoutBegins
  <2> QED BY <2>1 DEF SessionInv
<1>5. CASE session' # None
  <2>1. slips' = slips \cup IF Switching THEN {"cut"} ELSE {} BY <1>5 DEF Relaunch, Slip
  <2>2. session' = session BY <1>3, <1>5
  <2>3. ASSUME slips' \subseteq {"cut"}
        PROVE  Filed' /\ (slips' = {} => Right')
    <3>1. owner = session' => Agree(token, session')
          BY <2>1, <2>2, <2>3, <1>5 DEF SessionInv, Filed, Synced
    <3>2. Filed' BY <1>2, <1>3, <1>5, <3>1, LoginBegins
    <3>3. ASSUME slips' = {} PROVE Right'
      <4>1. ~Switching /\ Right BY <2>1, <3>3 DEF SessionInv
      <4>2. \A k \in 1..Slots, s \in {"switch", "kill"} : s \notin Left(k)
            BY <1>1, <4>1, NoFiler
      <4>3. Agree(token, session') /\ (Alive => daemon.token.user = session')
            BY <4>1, <4>2, <2>2, <1>5, DaemonAtRest
      <4> QED BY <1>2, <1>3, <1>5, <3>1, <4>3, LoginBegins
    <3> QED BY <3>2, <3>3
  <2> QED BY <2>3 DEF SessionInv
<1> QED BY <1>4, <1>5

\* What is the session's stays the session's, but for the slips.
LEMMA SessionStep == TypeInv /\ GuardInv /\ SessionInv /\ [Next]_vars => SessionInv'
<1> SUFFICES ASSUME TypeInv, GuardInv, SessionInv, [Next]_vars PROVE SessionInv'
    OBVIOUS
<1>1. ASSUME slips' = slips, Filed => Filed' /\ (Right => Right') PROVE SessionInv'
  <2>1. slips = {} => slips \subseteq {"cut"} OBVIOUS
  <2> QED BY <1>1, <2>1 DEF SessionInv
<1>2. ASSUME NEW i \in 1..Slots, Step(i) PROVE SessionInv'
  <2>1. slips' = slips
        BY <1>2 DEF Step, ReadConfig, ReadOwner, Mint, WriteConfig, WriteOwner, Switch, ReadToken,
                    ClearConfig, ClearOwner, Enter, Release, AutoStart, Start, Spawn, Wait, Stop,
                    Kill, Stopped, Answer
  <2> SUFFICES ASSUME Filed PROVE Filed' /\ (Right => Right')
      BY <2>1, <1>1
  <2>2. CASE ReadConfig(i) \/ ReadOwner(i) \/ Mint(i) BY <2>2, ReadsKeep
  <2>3. CASE WriteConfig(i) \/ WriteOwner(i) BY <2>3, WritesKeep
  <2>4. CASE ReadToken(i) \/ ClearConfig(i) \/ ClearOwner(i) BY <2>4, ClearsKeep
  <2>5. CASE Switch(i) BY <2>5, SwitchKeeps
  <2>6. CASE \/ Enter(i) \/ Kill(i)
             \/ Release(i) \/ AutoStart(i) \/ Start(i) \/ Spawn(i) \/ Wait(i)
             \/ Stop(i) \/ Stopped(i) \/ Answer(i)
        BY <2>6, OthersKeep
  <2> QED BY <1>2, <2>2, <2>3, <2>4, <2>5, <2>6 DEF Step
<1>3. ASSUME NEW i \in 1..Slots, MintFails(i) PROVE SessionInv'
  <2>1. "mint" \in slips' BY <1>3 DEF MintFails, Slip
  <2>2. ~(slips' \subseteq {"cut"}) /\ slips' # {} BY <2>1
  <2> QED BY <2>2 DEF SessionInv
<1>4. ASSUME NEW u \in Users, LogIn(u) PROVE SessionInv' BY <1>4, LogInKeeps
<1>5. CASE LogOut BY <1>5, LogOutKeeps
<1>6. CASE Reauth BY <1>6, ReauthKeeps
<1>7. CASE Relaunch BY <1>7, RelaunchKeeps
<1>8. CASE Press
  <2>1. PICK t : \E S \in SUBSET PressSteps : "enter" \in S /\ Called(t, session, S)
        BY <1>8, CallsWhat
  <2>2. PICK S \in SUBSET PressSteps : "enter" \in S /\ Called(t, session, S) BY <2>1
  <2>3. PICK i \in 1..Slots : Gets(i, Job(t, session), S) BY <2>2 DEF Called
  <2>4. session # None /\ UNCHANGED <<session, token, owner, daemon, slips>>
        BY <1>8 DEF Press, files
  <2>5. S \cap FileSteps = {} BY DEF PressSteps, FileSteps
  <2> QED BY <2>3, <2>4, <2>5, <1>1, GetsKeeps
<1>9. CASE Probe
  <2>1. PICK i \in 1..Slots, j \in Jobs : Gets(i, j, {"answer"}) BY <1>9, ProbeBegins
  <2>2. UNCHANGED <<session, token, owner, daemon, slips>> BY <1>9 DEF Probe, files
  <2>3. {"answer"} \cap FileSteps = {} BY DEF FileSteps
  <2> QED BY <2>1, <2>2, <2>3, <1>1, GetsKeeps
<1>10. CASE Revoke
  <2>1. slips' = slips BY <1>10 DEF Revoke
  <2> QED BY <1>10, <2>1, <1>1, RevokeKeeps
<1>11. CASE Boots \/ BootRefused \/ Poll \/ UNCHANGED vars
  <2>1. slips' = slips BY <1>11 DEF Boots, BootRefused, Poll, vars
  <2> QED BY <1>11, <2>1, <1>1, DaemonKeeps
<1> QED BY <1>2, <1>3, <1>4, <1>5, <1>6, <1>7, <1>8, <1>9, <1>10, <1>11 DEF Next

-----------------------------------------------------------------------------
(* The theorems *)

\* The invariant holds at the first start of the application.
LEMMA DaemonInvInit == Init => DaemonInv
<1> SUFFICES ASSUME Init PROVE DaemonInv
    OBVIOUS
<1>1. \A i \in 1..Slots : jobs[i] = None /\ Left(i) = {} BY DEF Init, Left
<1>2. JobsOK BY <1>1 DEF JobsOK, Init
<1>3. TypeInv
  <2>1. 0 \in 0..MaxActs BY DaemonAssumption
  <2> QED BY <1>2, <2>1 DEF TypeInv, Init, States
<1>4. GuardInv BY <1>1 DEF GuardInv, HoldsGuard, Init
<1>5. SessionInv
  <2>1. OneFiler BY <1>1 DEF OneFiler, Stages
  <2>2. Cleared BY <1>1 DEF Cleared, Init
  <2>3. Stopping BY <1>1 DEF Stopping, Alive, NoDaemon, Init
  <2> QED BY <2>1, <2>2, <2>3 DEF SessionInv, Filed, Right, Init
<1> QED BY <1>3, <1>4, <1>5 DEF DaemonInv

\* Every step keeps it.
LEMMA DaemonInvStep == DaemonInv /\ [Next]_vars => DaemonInv'
<1> SUFFICES ASSUME DaemonInv, [Next]_vars PROVE DaemonInv'
    OBVIOUS
<1>1. TypeInv /\ GuardInv /\ SessionInv BY DEF DaemonInv
<1>2. TypeInv' BY <1>1, JobsStep, ScalarsStep DEF TypeInv, Scalars
<1> QED BY <1>1, <1>2, GuardStep, SessionStep DEF DaemonInv

\* The inductive invariant of the desktop daemon manager.
THEOREM DaemonInvariant == Spec => []DaemonInv
BY DaemonInvInit, DaemonInvStep, PTL DEF Spec

\* Every variable keeps its type, and operationInProgress is set exactly while one
\* operation that withGuard let in is under way (main/daemon-manager.ts).
THEOREM DaemonTypes == Spec => []TypeOK
<1>1. DaemonInv => TypeOK BY TypeInvImplies DEF DaemonInv
<1> QED BY <1>1, DaemonInvariant, PTL

\* When the jobs are done the token and the owner file speak of one user, so syncToken
\* reuses no other user's PAT: for any number of users and jobs, and wherever the
\* application ends, between the two writes also.  Synchronisations that overlap and
\* mints that fail are excepted, and what they do lasts until a logout.
THEOREM FilesAreOneUsers == Spec => []FilesOfOneUser
<1>1. DaemonInv => FilesOfOneUser
  <2> SUFFICES ASSUME DaemonInv, ~Busy, slips \subseteq {"cut"}, token # None, owner # None
               PROVE  token.user = owner
      BY DEF FilesOfOneUser
  <2>1. JobsOK /\ SessionInv BY DEF DaemonInv, TypeInv
  <2>2. \A k \in 1..Slots : ~Works(k) BY <2>1, NotBusy
  <2>3. \A k \in 1..Slots, s \in FileSteps : s \notin Left(k) BY <2>2 DEF Works, FileSteps
  <2> QED BY <2>1, <2>3, FilesAtRest DEF SessionInv, Agree
<1> QED BY <1>1, DaemonInvariant, PTL

\* When the jobs are done, the daemon that runs has the token of the session's user, and
\* none runs without a session: for any number of users and jobs, of logins over a
\* session beside starts, stops and restarts, of revocations, and of ends of the
\* application that leave no switch undone.  Not after the slips the formula names.
THEOREM DaemonOfTheSession == Spec => []DaemonIsTheSessions
<1>1. DaemonInv => DaemonIsTheSessions
  <2> SUFFICES ASSUME DaemonInv, ~Busy, slips = {}, Alive
               PROVE  session # None /\ daemon.token.user = session
      BY DEF DaemonIsTheSessions
  <2>1. JobsOK /\ SessionInv BY DEF DaemonInv, TypeInv
  <2>2. \A k \in 1..Slots : ~Works(k) BY <2>1, NotBusy
  <2>3. \A k \in 1..Slots, s \in {"switch", "kill"} : s \notin Left(k) BY <2>2 DEF Works
  <2> QED BY <2>1, <2>3, DaemonAtRest DEF SessionInv
<1> QED BY <1>1, DaemonInvariant, PTL
=============================================================================
