------------------------- MODULE DeskSession_proofs -------------------------
(***************************************************************************)
(* Proofs about the session of talir_cmd_desk for any pages and times:     *)
(* only the program of the current session runs, and a session attended by *)
(* a prompt page is not timed out.                                         *)
(***************************************************************************)
EXTENDS DeskSession, TLAPS

USE DeskAssumption
    DEF NoSession, Off, sessionVars, pageVars, Gone, Attends, PageOk

\* Initially there is no session.
LEMMA InitInv == Init => DeskInv
  BY DEF Init, DeskInv, TypeOK, SessionInv, PageInv, TimerInv

\* The steps of run other than a ping, and of the program, leave every other
\* session alone and start no timer but that of a session nobody attends yet.
LEMMA SessionStepInv ==
  ASSUME DeskInv, NEW s \in Names, SessionStep(s) \/ ProgramEnds(s)
  PROVE  DeskInv'
<1> USE DEF DeskInv, TypeOK, SessionInv, PageInv, TimerInv
<1>1. CASE StartFails(s)
  BY <1>1 DEF StartFails, Exit
<1>2. CASE Start(s)
  BY <1>2 DEF Start
<1>3. CASE TimerFires(s)
  BY <1>3 DEF TimerFires, ClosePipe
<1>4. CASE ProgramDone(s)
  BY <1>4 DEF ProgramDone, Exit
<1>5. CASE ProgramEnds(s)
  BY <1>5 DEF ProgramEnds
<1>6. QED
  BY <1>1, <1>2, <1>3, <1>4, <1>5 DEF SessionStep

\* A ping received sets the timer of a session that is not timed out; one
\* that is wedges, and then nobody's timer matters.
LEMMA PingInv ==
  ASSUME DeskInv, NEW p \in Pages, Ping(p)
  PROVE  DeskInv'
<1> DEFINE s == ref[p]
<1>1. s \in Names /\ run[s] = "serving"
  BY DEF Ping, DeskInv, TypeOK, PageInv
<1>2. \A n \in Names : run'[n] = run[n] \/ (n = s /\ run'[n] = "wedged")
  BY <1>1 DEF Ping, RestartTimer, DeskInv, TypeOK
<1>3. TypeOK'
  BY DEF Ping, RestartTimer, DeskInv, TypeOK, PageInv
<1>4. SessionInv'
  BY <1>1 DEF Ping, RestartTimer, DeskInv, TypeOK, SessionInv
<1>5. PageInv'
  <2> SUFFICES ASSUME NEW q \in Pages
               PROVE  PageOk(q)'
    BY DEF PageInv
  <2> PageOk(q)
    BY DEF DeskInv, PageInv
  <2>1. CASE q = p
    <3>1. pc'[p] = "wait" /\ left'[p] = PollTime /\ ref'[p] = s
      BY DEF Ping, DeskInv, TypeOK
    <3>2. run'[s] \in {"serving", "wedged"}
      BY <1>1, <1>2
    <3>3. QED
      BY <1>1, <2>1, <3>1, <3>2
  <2>2. CASE q # p
    BY <1>2, <2>2 DEF Ping, DeskInv, TypeOK
  <2>3. QED
    BY <2>1, <2>2
<1>6. TimerInv'
  BY <1>1 DEF Ping, RestartTimer, DeskInv, TypeOK, PageInv, TimerInv
<1>7. QED
  BY <1>3, <1>4, <1>5, <1>6 DEF DeskInv

\* A new session takes a name nothing refers to, and the place of one that has
\* exited.
LEMMA AcquireInv ==
  ASSUME DeskInv, NEW p \in Pages, Acquire(p)
  PROVE  DeskInv'
<1> USE DEF DeskInv, TypeOK
<1>1. /\ pc[p] = "idle" /\ ref[p] = NoSession
      /\ pc' = [pc EXCEPT ![p] = "away"] /\ UNCHANGED <<ref, left, cmd>>
  BY DEF Acquire, PageInv
<1>2. CASE \E s \in Names : Unreferenced(s) /\ NewSession(s) /\ Abandoned(sess)
  <2>1. PICK s \in Names : Unreferenced(s) /\ NewSession(s) /\ Abandoned(sess)
    BY <1>2
  <2>2. \A n \in Names : run[n] \notin {"starting", "serving", "wedged"}
    BY <2>1 DEF Abandoned, SessionInv
  <2>3. TypeOK'
    BY <1>1, <2>1 DEF NewSession
  <2>4. SessionInv'
    BY <2>1, <2>2 DEF NewSession, SessionInv
  <2>5. \A q \in Pages : ref[q] # s
    BY <2>1 DEF Unreferenced
  <2>6. PageInv'
    <3> SUFFICES ASSUME NEW q \in Pages
                 PROVE  PageOk(q)'
      BY DEF PageInv
    <3> PageOk(q)
      BY DEF PageInv
    <3>1. CASE q = p
      BY <1>1, <3>1
    <3>2. CASE q # p
      BY <1>1, <2>1, <2>5, <3>2 DEF NewSession
    <3>3. QED
      BY <3>1, <3>2
  <2>7. TimerInv'
    <3> \A n \in Names : run'[n] # "serving"
      BY <2>1, <2>2 DEF NewSession
    <3> QED
      BY DEF TimerInv
  <2>8. QED
    BY <2>3, <2>4, <2>6, <2>7
<1>3. CASE sess' \in {sess, NoSession} /\ UNCHANGED sessionVars
           /\ (sess' = sess \/ Abandoned(sess))
  <2>1. TypeOK' /\ SessionInv' /\ TimerInv'
    BY <1>1, <1>3 DEF Abandoned, SessionInv, TimerInv
  <2>2. PageInv'
    BY <1>1, <1>3 DEF PageInv
  <2>3. QED
    BY <2>1, <2>2
<1>4. CASE Abandoned(sess)
  BY <1>2, <1>3, <1>4, Zenon DEF Acquire
<1>5. CASE ~Abandoned(sess)
  BY <1>3, <1>5 DEF Acquire
<1>6. QED
  BY <1>4, <1>5

\* What the handlers do otherwise: answers, shut-down and commands.
LEMMA PageStepInv ==
  ASSUME DeskInv, NEW p \in Pages,
         Ask(p) \/ PingExited(p) \/ ToldEnded(p) \/ ToldOk(p) \/ Close(p)
  PROVE  DeskInv'
<1> USE DEF DeskInv, TypeOK, SessionInv, PageInv, TimerInv
<1>1. CASE Ask(p)
  BY <1>1 DEF Ask
<1>2. CASE PingExited(p)
  BY <1>2 DEF PingExited
<1>3. CASE ToldEnded(p)
  BY <1>3 DEF ToldEnded
<1>4. CASE ToldOk(p)
  BY <1>4 DEF ToldOk
<1>5. CASE Close(p)
  BY <1>5 DEF Close
<1>6. QED
  BY <1>1, <1>2, <1>3, <1>4, <1>5

\* See above.
LEMMA ServerStepInv ==
  ASSUME DeskInv, ShutDown \/ TakeCommand \/ WriteCommand \/ CommandFails
  PROVE  DeskInv'
<1> USE DEF DeskInv, TypeOK, SessionInv, PageInv, TimerInv
<1>1. CASE ShutDown
  BY <1>1 DEF ShutDown, ClosePipe
<1>2. CASE TakeCommand \/ WriteCommand \/ CommandFails
  BY <1>2 DEF TakeCommand, WriteCommand, CommandFails
<1>3. QED
  BY <1>1, <1>2

\* A second takes as much from the timer as from the wait it has to outlast;
\* none passes while an attended timer's page is due.
LEMMA TickInv ==
  ASSUME DeskInv, Tick
  PROVE  DeskInv'
<1> USE DEF DeskInv, TypeOK, Tick, Less
<1>1. TypeOK' /\ SessionInv' /\ PageInv'
  BY DEF SessionInv, PageInv
<1>2. TimerInv'
  BY DEF TimerInv, PageInv, Waiting, Busy
<1>3. QED
  BY <1>1, <1>2

\* The invariant of the session, for any pages, names and times.
THEOREM DeskInvariant == Spec => []DeskInv
<1>1. DeskInv /\ [Next]_deskVars => DeskInv'
  <2> SUFFICES ASSUME DeskInv, [Next]_deskVars
               PROVE  DeskInv'
    OBVIOUS
  <2>1. ASSUME NEW s \in Names, SessionStep(s) \/ ProgramEnds(s)
        PROVE  DeskInv'
    BY <2>1, SessionStepInv
  <2>2. ASSUME NEW p \in Pages, Acquire(p) \/ Ask(p) \/ AnswerStep(p) \/ Close(p)
        PROVE  DeskInv'
    BY <2>2, AcquireInv, PingInv, PageStepInv DEF AnswerStep
  <2>3. CASE ShutDown \/ TakeCommand \/ WriteCommand \/ CommandFails
    BY <2>3, ServerStepInv
  <2>4. CASE Tick
    BY <2>4, TickInv
  <2>5. CASE UNCHANGED deskVars
    BY <2>5 DEF deskVars, DeskInv, TypeOK, SessionInv, PageInv, TimerInv
  <2>6. QED
    BY <2>1, <2>2, <2>3, <2>4, <2>5 DEF Next
<1>2. QED
  BY <1>1, InitInv, PTL DEF Spec

\* At most one encapsulated program runs, that of the session in sess.
THEOREM OnlyProgram == Spec => []OneProgram
<1>1. DeskInv => OneProgram
  BY DEF DeskInv, SessionInv, OneProgram
<1>2. QED
  BY <1>1, DeskInvariant, PTL

\* A session that a prompt page attends keeps its timer from running out, and
\* no session wedges before it was timed out or shut down.
THEOREM AttendedIsKept == Spec => []AttendedStays
<1>1. DeskInv => AttendedStays
  BY DEF DeskInv, TypeOK, SessionInv, TimerInv, AttendedStays
<1>2. QED
  BY <1>1, DeskInvariant, PTL
=============================================================================
