---------------------------- MODULE DeskSession ----------------------------
(***************************************************************************)
(* talir_cmd_desk: the session of session.go, the HTTP handlers of main.go *)
(* that share it, and the page of static/index.html that keeps it alive    *)
(* with pings.  Time is counted in seconds; goroutines that can go on do   *)
(* so before a second passes.                                              *)
(***************************************************************************)
EXTENDS Integers, FiniteSets

CONSTANTS
  Pages,        \* browser windows
  Prompt,       \* those that ping again within Latency of an answer
  Names,        \* 1..n, for sessions; a name is used again once unreferenced
  SessionTime,  \* the timer of run
  PollTime,     \* how long an up request waits
  Latency       \* longest time between an answer and a prompt page's next ping

NoSession == 0
Off == -1      \* a timer whose value has been received

ASSUME DeskAssumption ==
  /\ Prompt \subseteq Pages /\ Names \subseteq Nat \ {NoSession}
  /\ Latency \in Nat /\ PollTime \in Nat /\ SessionTime \in Nat
  /\ PollTime + Latency < SessionTime

VARIABLES
  sess,      \* the global variable sess
  run,       \* per session: its goroutine run; exited tells of the channel exited
  timer,     \* per session: seconds left; 0 is a value waiting in t.C
  pipeIn,    \* per session: whether pipeIn is open
  program,   \* per session: none, running, ended (waitDone is closed) until run exits
  pc,        \* per page: idle, ping, wait (both in upHandler), away
  ref,       \* per page: sessLoc of its last up request
  left,      \* per page: seconds until the up request ends, or it pings
  cmd        \* sessLoc of the cmd request in progress

deskVars == <<sess, run, timer, pipeIn, program, pc, ref, left, cmd>>
sessionVars == <<run, timer, pipeIn, program>>
pageVars == <<pc, ref, left>>

TypeOK ==
  /\ sess \in Names \cup {NoSession}
  /\ run \in [Names -> {"unborn", "starting", "serving", "wedged", "exited"}]
  /\ timer \in [Names -> 0..SessionTime \cup {Off}]
  /\ pipeIn \in [Names -> BOOLEAN]
  /\ program \in [Names -> {"none", "running", "ended"}]
  /\ pc \in [Pages -> {"idle", "ping", "wait", "away"}]
  /\ ref \in [Pages -> Names \cup {NoSession}]
  /\ left \in [Pages -> 0..(PollTime + Latency)]
  /\ cmd \in Names \cup {NoSession}

Init ==
  /\ sess = NoSession /\ cmd = NoSession
  /\ run = [s \in Names |-> "unborn"]
  /\ timer = [s \in Names |-> Off]
  /\ pipeIn = [s \in Names |-> FALSE]
  /\ program = [s \in Names |-> "none"]
  /\ pc = [p \in Pages |-> "idle"]
  /\ ref = [p \in Pages |-> NoSession]
  /\ left = [p \in Pages |-> 0]

-----------------------------------------------------------------------------
(* session.run *)

\* Closing a file again is an error nobody looks at.
ClosePipe(s) == pipeIn' = [pipeIn EXCEPT ![s] = FALSE]

\* The deferred close(exited).
Exit(s) ==
  /\ run' = [run EXCEPT ![s] = "exited"]
  /\ timer' = [timer EXCEPT ![s] = Off]
  /\ program' = [program EXCEPT ![s] = "none"]

StartFails(s) ==
  /\ run[s] = "starting"
  /\ Exit(s)
  /\ UNCHANGED <<sess, pipeIn, pageVars, cmd>>

Start(s) ==
  /\ run[s] = "starting"
  /\ run' = [run EXCEPT ![s] = "serving"]
  /\ program' = [program EXCEPT ![s] = "running"]
  /\ timer' = [timer EXCEPT ![s] = SessionTime]
  /\ UNCHANGED <<sess, pipeIn, pageVars, cmd>>

\* Mutant: the value drained, the timer is not set again.
RestartTimerDrained(s) ==
  IF timer[s] = Off
  THEN run' = [run EXCEPT ![s] = "wedged"] /\ UNCHANGED timer
  ELSE UNCHANGED <<run, timer>>

\* If Stop finds the timer expired, its value is received: for ever, when the
\* select has received it before.
RestartTimer(s) ==
  IF timer[s] = Off
  THEN run' = [run EXCEPT ![s] = "wedged"] /\ UNCHANGED timer
  ELSE timer' = [timer EXCEPT ![s] = SessionTime] /\ UNCHANGED run

\* The ping of page p is received; its up request goes on to wait.
Ping(p) ==
  /\ pc[p] = "ping" /\ run[ref[p]] = "serving"
  /\ RestartTimer(ref[p])
  /\ pc' = [pc EXCEPT ![p] = "wait"]
  /\ left' = [left EXCEPT ![p] = PollTime]
  /\ UNCHANGED <<sess, pipeIn, program, ref, cmd>>

\* Mutant: the pipe stays open.
TimerFiresOnly(s) ==
  /\ run[s] = "serving" /\ timer[s] = 0
  /\ timer' = [timer EXCEPT ![s] = Off]
  /\ UNCHANGED <<sess, run, pipeIn, program, pageVars, cmd>>

TimerFires(s) ==
  /\ run[s] = "serving" /\ timer[s] = 0
  /\ timer' = [timer EXCEPT ![s] = Off]
  /\ ClosePipe(s)
  /\ UNCHANGED <<sess, run, program, pageVars, cmd>>

ProgramDone(s) ==
  /\ run[s] = "serving" /\ program[s] = "ended"
  /\ Exit(s)
  /\ UNCHANGED <<sess, pipeIn, pageVars, cmd>>

ProgramEnds(s) ==
  /\ program[s] = "running"
  /\ program' = [program EXCEPT ![s] = "ended"]
  /\ UNCHANGED <<sess, run, timer, pipeIn, pageVars, cmd>>

-----------------------------------------------------------------------------
(* The handlers; the ones that only look at sess, or close, are one step *)

Gone(s) == s = NoSession \/ run[s] = "exited"
Unreferenced(s) == s # sess /\ s # cmd /\ \A p \in Pages : ref[p] # s

\* newSession: the pipe, and run in a goroutine of its own.
NewSession(s) ==
  /\ sess' = s
  /\ run' = [run EXCEPT ![s] = "starting"]
  /\ timer' = [timer EXCEPT ![s] = Off]
  /\ pipeIn' = [pipeIn EXCEPT ![s] = TRUE]
  /\ program' = [program EXCEPT ![s] = "none"]

\* Mutant: a session whose pipe is closed counts as exited.
AbandonedClosed(s) == s = NoSession \/ run[s] = "exited" \/ ~pipeIn[s]

Abandoned(s) == Gone(s)

\* acquire() of the page: startHandler, then the first ping of the page is due
\* whatever the answer was.  os.Pipe may fail.
Acquire(p) ==
  /\ pc[p] = "idle"
  /\ IF Abandoned(sess)
     THEN \/ \E s \in Names :
               /\ Unreferenced(s) /\ \A n \in Names : Unreferenced(n) => s <= n
               /\ NewSession(s)
          \/ sess' = NoSession /\ UNCHANGED sessionVars
     ELSE UNCHANGED <<sess, sessionVars>>
  /\ pc' = [pc EXCEPT ![p] = "away"]
  /\ UNCHANGED <<ref, left, cmd>>

\* ping() of the page: upHandler up to the call of session.ping.
Ask(p) ==
  /\ pc[p] = "away"
  /\ ref' = [ref EXCEPT ![p] = sess]
  /\ left' = [left EXCEPT ![p] = 0]
  /\ pc' = [pc EXCEPT ![p] = IF sess = NoSession THEN "idle" ELSE "ping"]
  /\ UNCHANGED <<sess, sessionVars, cmd>>

\* Mutant: session.ping does not look at exited.
PingExitedNever(p) == FALSE /\ UNCHANGED deskVars

\* session.ping gives up as the session has exited, and the wait finds the same.
PingExited(p) ==
  /\ pc[p] = "ping" /\ Gone(ref[p])
  /\ pc' = [pc EXCEPT ![p] = "wait"]
  /\ left' = [left EXCEPT ![p] = PollTime]
  /\ UNCHANGED <<sess, sessionVars, ref, cmd>>

\* waitWithTimeout: the page is told the session ended and pings no more, ...
ToldEnded(p) ==
  /\ pc[p] = "wait" /\ Gone(ref[p])
  /\ pc' = [pc EXCEPT ![p] = "idle"]
  /\ left' = [left EXCEPT ![p] = 0]
  /\ ref' = [ref EXCEPT ![p] = NoSession]
  /\ UNCHANGED <<sess, sessionVars, cmd>>

\* ... or the time is over (even if the session exited in that moment).
ToldOk(p) ==
  /\ pc[p] = "wait" /\ left[p] = 0
  /\ pc' = [pc EXCEPT ![p] = "away"]
  /\ left' = [left EXCEPT ![p] = IF p \in Prompt THEN Latency ELSE 0]
  /\ UNCHANGED <<sess, sessionVars, ref, cmd>>

\* release() of the page: shutDownHandler.
ShutDown ==
  /\ IF Gone(sess)
     THEN sess' = NoSession /\ UNCHANGED pipeIn
     ELSE ClosePipe(sess) /\ UNCHANGED sess
  /\ UNCHANGED <<run, timer, program, pageVars, cmd>>

\* command() of the page: cmdHandler copies to the pipe after releasing sessM.
\* The pipe's other end stays open here: a write to a program that has ended
\* succeeds until the pipe is full.  Whether there is room is left open.
TakeCommand ==
  /\ cmd = NoSession /\ sess # NoSession
  /\ cmd' = sess
  /\ UNCHANGED <<sess, sessionVars, pageVars>>

WriteCommand ==
  /\ cmd # NoSession /\ pipeIn[cmd]
  /\ cmd' = NoSession
  /\ UNCHANGED <<sess, sessionVars, pageVars>>

CommandFails ==
  /\ cmd # NoSession /\ ~pipeIn[cmd]
  /\ cmd' = NoSession
  /\ UNCHANGED <<sess, sessionVars, pageVars>>

-----------------------------------------------------------------------------
(* Time *)

Busy(s) ==
  \/ run[s] = "starting"
  \/ run[s] = "serving" /\ (timer[s] = 0 \/ program[s] = "ended")

Waiting(p) ==
  \/ pc[p] = "ping" /\ run[ref[p]] # "wedged"
  \/ pc[p] = "wait" /\ (left[p] = 0 \/ Gone(ref[p]))
  \/ pc[p] = "away" /\ p \in Prompt /\ left[p] = 0

Less(n) == IF n > 0 THEN n - 1 ELSE n

Tick ==
  /\ \A s \in Names : ~Busy(s)
  /\ \A p \in Pages : ~Waiting(p)
  /\ timer' = [s \in Names |-> Less(timer[s])]
  /\ left' = [p \in Pages |-> Less(left[p])]
  /\ UNCHANGED <<sess, run, pipeIn, program, pc, ref, cmd>>

\* A page that is not prompt may be closed.
Close(p) ==
  /\ pc[p] = "away" /\ p \notin Prompt
  /\ pc' = [pc EXCEPT ![p] = "idle"]
  /\ ref' = [ref EXCEPT ![p] = NoSession]
  /\ left' = [left EXCEPT ![p] = 0]
  /\ UNCHANGED <<sess, sessionVars, cmd>>

SessionStep(s) == StartFails(s) \/ Start(s) \/ TimerFires(s) \/ ProgramDone(s)
AnswerStep(p) == Ping(p) \/ PingExited(p) \/ ToldEnded(p) \/ ToldOk(p)

Next ==
  \/ \E s \in Names : SessionStep(s) \/ ProgramEnds(s)
  \/ \E p \in Pages : Acquire(p) \/ Ask(p) \/ AnswerStep(p) \/ Close(p)
  \/ ShutDown \/ TakeCommand \/ WriteCommand \/ CommandFails
  \/ Tick

\* Goroutines run, time passes, a prompt page pings, and the program
\* (controlmux as a client) ends once its input is closed.
Fairness ==
  /\ \A s \in Names : /\ WF_deskVars(SessionStep(s))
                      /\ WF_deskVars(ProgramEnds(s) /\ ~pipeIn[s])
  /\ \A p \in Pages : SF_deskVars(AnswerStep(p))
  /\ \A p \in Prompt : WF_deskVars(Ask(p))
  /\ WF_deskVars(CommandFails)
  /\ SF_deskVars(Tick)

Spec == Init /\ [][Next]_deskVars
LiveSpec == Spec /\ Fairness

-----------------------------------------------------------------------------
(* Properties *)

\* The inductive invariant.  Only sess may be a session that has not exited;
\* what a page waits for or has waited for is no session still starting; and
\* the timer of a session that a prompt page attends outlasts the rest of the
\* page's wait and its latency.
Attends(p, s) == p \in Prompt /\ pc[p] \in {"wait", "away"} /\ ref[p] = s

SessionInv ==
  \A s \in Names :
    /\ run[s] \in {"starting", "serving", "wedged"} => s = sess
    /\ program[s] = "running" => run[s] \in {"serving", "wedged"}
    /\ run[s] = "serving" /\ timer[s] = Off => ~pipeIn[s]
    /\ run[s] = "wedged" => ~pipeIn[s]

PageOk(p) ==
  /\ pc[p] = "idle" => ref[p] = NoSession /\ left[p] = 0
  /\ pc[p] = "ping" => ref[p] # NoSession
  /\ pc[p] = "wait" => left[p] <= PollTime /\ ref[p] # NoSession
  /\ pc[p] = "away" => left[p] <= Latency
  /\ pc[p] \in {"wait", "away"} /\ ref[p] # NoSession =>
       run[ref[p]] \in {"serving", "wedged", "exited"}

PageInv == \A p \in Pages : PageOk(p)

TimerInv ==
  \A p \in Pages, s \in Names :
    Attends(p, s) /\ run[s] = "serving" =>
      timer[s] > IF pc[p] = "wait" THEN left[p] + Latency ELSE left[p]

DeskInv == TypeOK /\ SessionInv /\ PageInv /\ TimerInv

\* However handlers, the timer and the program interleave, only the program
\* of the current session runs: startHandler replaces a session only after it
\* exited.
OneProgram ==
  \A s \in Names : program[s] = "running" => s = sess /\ run[s] \in {"serving", "wedged"}

\* A session that a prompt page attends is not timed out: from the first ping
\* received in time on, the next one comes before the timer is over.  Only a
\* session already timed out wedges.
AttendedStays ==
  \A s \in Names :
    /\ run[s] = "serving" /\ (\E p \in Pages : Attends(p, s)) => timer[s] > 0
    /\ run[s] = "wedged" => ~pipeIn[s]

\* A session nobody pings any more exits, its program with it.  A ping that
\* comes between the time-out and the end of the program wedges run (80) and
\* is the one exception.
UnattendedEnds ==
  \A s \in Names :
    []<>(\/ run[s] \notin {"starting", "serving"}
         \/ \E p \in Pages : pc[p] = "ping" /\ ref[p] = s)

\* An up request is answered unless run has wedged; a prompt page whose
\* session exited is told so or is on the next session; a command is
\* answered unless its pipe stays open (and may be full).
Answered ==
  /\ \A p \in Pages : []<>(\/ pc[p] \notin {"ping", "wait"}
                           \/ ref[p] # NoSession /\ run[ref[p]] = "wedged")
  /\ \A p \in Prompt : (ref[p] # NoSession /\ run[ref[p]] = "exited")
                         ~> (ref[p] = NoSession \/ run[ref[p]] # "exited")
  /\ []<>(cmd = NoSession \/ pipeIn[cmd])
=============================================================================
