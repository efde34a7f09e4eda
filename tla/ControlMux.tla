----------------------------- MODULE ControlMux -----------------------------
(***************************************************************************)
(* One encapsulated process of controlmux (src/sw/controlmux/main.go) and  *)
(* the clients that attach to it: KingOfTheHill.Claim, the goroutines of   *)
(* process.run, process.attach with its two copy goroutines, and the part  *)
(* of serve that watches a client's connection.                            *)
(*                                                                         *)
(* An unbuffered channel is a step of both ends at once; a close is a      *)
(* change of the state the receivers' guards read.  Payloads are left out: *)
(* only the number of chunks on the way is kept.                           *)
(***************************************************************************)
EXTENDS Naturals, FiniteSets

CONSTANTS
  Claimants,     \* connections handled by serve (each may be made again)
  Prio,          \* priority of the socket a connection came through
  NoOne,         \* no claimant
  BuffCap,       \* capacity of pipeOutBuffs (4 in the code)
  PipeCap,       \* chunks the operating system's stdout pipe holds
  StartMayFail   \* whether creating the pipes or starting the program can fail

ASSUME ClaimantsAssumption ==
  /\ NoOne \notin Claimants
  /\ Prio \in [Claimants -> Nat]
ASSUME CapacityAssumption ==
  /\ BuffCap \in Nat \ {0}
  /\ PipeCap \in Nat \ {0}
  /\ StartMayFail \in BOOLEAN

VARIABLES
  owner,    \* KingOfTheHill.owner; NoOne while .claimed is false
  mutex,    \* claimant blocked inside Claim with the mutex held, or NoOne
  freech,   \* per claimant, the channel its last Claim returned
  pc,       \* where each claimant's serve/attach is
  inp,      \* io.Copy goroutine of attach (client to process)
  outp,     \* output goroutine of attach (process to client)
  errch,    \* results waiting in errch
  gone,     \* clients whose connection ended: serve set the read deadline
  run,      \* the main goroutine of process.run
  child,    \* the encapsulated program
  stdin,    \* pipeIn
  outPipe,  \* chunks in the program's stdout pipe
  reader,   \* the goroutine of run that fills pipeOutBuffs
  buffs,    \* length of pipeOutBuffs
  watcher,  \* the timer goroutine of run
  timer,    \* its time.Timer
  drain     \* its variable drain: pipeOutBuffs or nil

kothVars  == <<owner, mutex, freech>>
copyVars  == <<inp, outp, errch>>
watchVars == <<watcher, timer, drain>>
procVars  == <<run, child, stdin, outPipe, reader>>
vars == <<kothVars, pc, copyVars, gone, procVars, buffs, watchVars>>

Attached == {"on", "leave", "reset"}   \* between stopTimeout and resetTimeout

TypeOK ==
  /\ owner \in Claimants \cup {NoOne}
  /\ mutex \in Claimants \cup {NoOne}
  /\ freech \in [Claimants -> {"open", "closed"}]
  /\ pc \in [Claimants -> {"idle", "select", "lock", "kick", "await", "stop",
                           "free"} \cup Attached]
  /\ inp \in [Claimants -> {"read", "write", "done"}]
  /\ outp \in [Claimants -> {"select", "write", "done"}]
  /\ errch \in [Claimants -> 0..2]
  /\ gone \in SUBSET Claimants
  /\ run \in {"new", "ready", "running", "reap", "exited", "unpiped"}
  /\ child \in {"none", "alive", "dead"}
  /\ stdin \in {"open", "closed"}
  /\ outPipe \in 0..PipeCap
  /\ reader \in {"read", "push", "eof", "end"}
  /\ buffs \in 0..BuffCap
  /\ watcher \in {"none", "select", "stopC", "exit", "timeout"}
  /\ timer \in {"off", "armed", "fired"}
  /\ drain \in {"buffs", "nil"}

Init ==
  /\ owner = NoOne /\ mutex = NoOne
  /\ freech = [c \in Claimants |-> "closed"]
  /\ pc = [c \in Claimants |-> "idle"]
  /\ inp = [c \in Claimants |-> "done"]
  /\ outp = [c \in Claimants |-> "done"]
  /\ errch = [c \in Claimants |-> 0]
  /\ gone = {}
  /\ run = "new" /\ child = "none" /\ stdin = "open"
  /\ outPipe = 0 /\ reader = "read" /\ buffs = 0
  /\ watcher = "none" /\ timer = "off" /\ drain = "nil"

-----------------------------------------------------------------------------
(* What the channels of a process tell.                                    *)

Exited     == run \in {"exited", "unpiped"}
PipesReady == run \notin {"new", "unpiped"}
Closed     == watcher \in {"exit", "timeout"}
BuffsClosed == reader \in {"eof", "end"}

Goto(c, label) == pc' = [pc EXCEPT ![c] = label]

-----------------------------------------------------------------------------
(* KingOfTheHill.Claim.  .claimed goes false only on the way to the new    *)
(* claim of the same call, so it is "owner # NoOne".                       *)

HillFree == owner # NoOne => freech[owner] = "closed"

TakeHill(c) ==
  /\ owner' = c
  /\ freech' = [freech EXCEPT ![c] = "open"]
  /\ mutex' = NoOne
  /\ Goto(c, "stop")

ClaimFree(c) ==
  /\ pc[c] = "lock" /\ mutex = NoOne /\ HillFree
  /\ TakeHill(c)
  /\ UNCHANGED <<copyVars, gone, procVars, buffs, watchVars>>

\* Mutant: an equal priority seizes control too.
ClaimOverEqual(c) ==
  /\ pc[c] = "lock" /\ mutex = NoOne /\ ~HillFree
  /\ IF Prio[c] >= Prio[owner]
       THEN mutex' = c /\ Goto(c, "kick")
       ELSE mutex' = mutex /\ Goto(c, "idle")
  /\ UNCHANGED <<owner, freech, copyVars, gone, procVars, buffs, watchVars>>

ClaimOver(c) ==
  /\ pc[c] = "lock" /\ mutex = NoOne /\ ~HillFree
  /\ IF Prio[c] > Prio[owner]
       THEN mutex' = c /\ Goto(c, "kick")
       ELSE mutex' = mutex /\ Goto(c, "idle")
  /\ UNCHANGED <<owner, freech, copyVars, gone, procVars, buffs, watchVars>>

\* The send on kickch meets the owner in attach's select.
Kick(c) ==
  /\ pc[c] = "kick" /\ pc[owner] = "on"
  /\ pc' = [pc EXCEPT ![c] = "await", ![owner] = "leave"]
  /\ UNCHANGED <<kothVars, copyVars, gone, procVars, buffs, watchVars>>

\* Mutant: the claim does not wait for freech after the kick.
ClaimFreedAtOnce(c) ==
  /\ pc[c] = "await"
  /\ TakeHill(c)
  /\ UNCHANGED <<copyVars, gone, procVars, buffs, watchVars>>

ClaimFreed(c) ==
  /\ pc[c] = "await" /\ freech[owner] = "closed"
  /\ TakeHill(c)
  /\ UNCHANGED <<copyVars, gone, procVars, buffs, watchVars>>

-----------------------------------------------------------------------------
(* serve and process.attach.                                               *)

\* serve hands attach a process it found neither exited nor closed.
Connect(c) ==
  /\ pc[c] = "idle" /\ ~Exited /\ ~Closed
  /\ Goto(c, "select")
  /\ gone' = gone \ {c}
  /\ UNCHANGED <<kothVars, copyVars, procVars, buffs, watchVars>>

\* serve's conn.Read returns: the read deadline of the client's input passes.
Disconnect(c) ==
  /\ pc[c] # "idle" /\ c \notin gone
  /\ gone' = gone \cup {c}
  /\ UNCHANGED <<kothVars, pc, copyVars, procVars, buffs, watchVars>>

AttachSelect(c) ==
  /\ pc[c] = "select"
  /\ \/ Exited /\ Goto(c, "idle")
     \/ PipesReady /\ Goto(c, "lock")
  /\ UNCHANGED <<kothVars, copyVars, gone, procVars, buffs, watchVars>>

\* Mutant: the watcher stops draining but leaves the timer running.
StopTimeoutKeepsTimer(c) ==
  /\ pc[c] = "stop" /\ watcher = "select"
  /\ Goto(c, "on")
  /\ inp' = [inp EXCEPT ![c] = "read"]
  /\ outp' = [outp EXCEPT ![c] = "select"]
  /\ errch' = [errch EXCEPT ![c] = 0]
  /\ drain' = "nil"
  /\ UNCHANGED <<kothVars, gone, procVars, buffs, watcher, timer>>

\* stopTimeout's send meets the watcher; Stop reports whether the timer was
\* armed, and otherwise the watcher goes on to receive from timeout.C.
StopTimeout(c) ==
  /\ pc[c] = "stop" /\ watcher = "select"
  /\ Goto(c, "on")
  /\ inp' = [inp EXCEPT ![c] = "read"]
  /\ outp' = [outp EXCEPT ![c] = "select"]
  /\ errch' = [errch EXCEPT ![c] = 0]
  /\ IF timer = "armed"
       THEN watcher' = watcher /\ timer' = "off" /\ drain' = "nil"
       ELSE watcher' = "stopC" /\ UNCHANGED <<timer, drain>>
  /\ UNCHANGED <<kothVars, gone, procVars, buffs>>

StopTimeoutClosed(c) ==
  /\ pc[c] = "stop" /\ Closed
  /\ Goto(c, "free")
  /\ UNCHANGED <<kothVars, copyVars, gone, procVars, buffs, watchVars>>

\* attach's select takes a result of a copy goroutine.
CopyEnded(c) ==
  /\ pc[c] = "on" /\ errch[c] > 0
  /\ errch' = [errch EXCEPT ![c] = @ - 1]
  /\ Goto(c, "leave")
  /\ UNCHANGED <<kothVars, inp, outp, gone, procVars, buffs, watchVars>>

\* Mutant: resetTimeout is not deferred.
CopiesJoinedNoReset(c) ==
  /\ pc[c] = "leave" /\ inp[c] = "done" /\ outp[c] = "done"
  /\ Goto(c, "free")
  /\ UNCHANGED <<kothVars, copyVars, gone, procVars, buffs, watchVars>>

\* wg.Wait returns.
CopiesJoined(c) ==
  /\ pc[c] = "leave" /\ inp[c] = "done" /\ outp[c] = "done"
  /\ Goto(c, "reset")
  /\ UNCHANGED <<kothVars, copyVars, gone, procVars, buffs, watchVars>>

\* Mutant: the watcher drains again but does not reset the timer.
ResetTimeoutNoRearm(c) ==
  /\ pc[c] = "reset"
  /\ \/ watcher = "select" /\ timer' = timer /\ drain' = "buffs"
     \/ Closed /\ UNCHANGED <<timer, drain>>
  /\ Goto(c, "free")
  /\ UNCHANGED <<kothVars, copyVars, gone, procVars, buffs, watcher>>

\* The deferred calls, last one first: resetTimeout, then close(freech).
ResetTimeout(c) ==
  /\ pc[c] = "reset"
  /\ \/ watcher = "select" /\ timer' = "armed" /\ drain' = "buffs"
     \/ Closed /\ UNCHANGED <<timer, drain>>
  /\ Goto(c, "free")
  /\ UNCHANGED <<kothVars, copyVars, gone, procVars, buffs, watcher>>

CloseFreech(c) ==
  /\ pc[c] = "free"
  /\ freech' = [freech EXCEPT ![c] = "closed"]
  /\ Goto(c, "idle")
  /\ UNCHANGED <<owner, mutex, copyVars, gone, procVars, buffs, watchVars>>

-----------------------------------------------------------------------------
(* The copy goroutines.  The read deadline is set by serve when the client *)
(* is gone and by attach when it leaves, the write deadline by attach.     *)

InDone(c) ==
  /\ inp' = [inp EXCEPT ![c] = "done"]
  /\ errch' = [errch EXCEPT ![c] = @ + 1]
  /\ UNCHANGED <<kothVars, pc, outp, gone, procVars, buffs, watchVars>>

OutDone(c, sent) ==
  /\ outp' = [outp EXCEPT ![c] = "done"]
  /\ errch' = [errch EXCEPT ![c] = @ + sent]
  /\ UNCHANGED <<kothVars, pc, inp, gone, procVars, buffs, watchVars>>

\* Mutant: attach does not set the read deadline when it leaves.
ReadDeadlineServeOnly(c) == c \in gone

ReadDeadline(c) == c \in gone \/ pc[c] = "leave"

InRead(c) ==
  /\ inp[c] = "read" /\ ~ReadDeadline(c)
  /\ inp' = [inp EXCEPT ![c] = "write"]
  /\ UNCHANGED <<kothVars, pc, outp, errch, gone, procVars, buffs, watchVars>>

\* The client closes its standard input.
InEof(c) == inp[c] = "read" /\ ~ReadDeadline(c) /\ InDone(c)

InDeadline(c) == inp[c] = "read" /\ ReadDeadline(c) /\ InDone(c)

\* The program reads what was written to it.
InWrite(c) ==
  /\ inp[c] = "write" /\ child = "alive" /\ stdin = "open"
  /\ inp' = [inp EXCEPT ![c] = "read"]
  /\ UNCHANGED <<kothVars, pc, outp, errch, gone, procVars, buffs, watchVars>>

InBroken(c) == inp[c] = "write" /\ ~(child = "alive" /\ stdin = "open") /\ InDone(c)

OutTake(c) ==
  /\ outp[c] = "select" /\ buffs > 0
  /\ buffs' = buffs - 1
  /\ outp' = [outp EXCEPT ![c] = "write"]
  /\ UNCHANGED <<kothVars, pc, inp, errch, gone, procVars, watchVars>>

OutClosed(c) ==
  outp[c] = "select" /\ buffs = 0 /\ BuffsClosed /\ OutDone(c, 1)

\* exitcopyoutch is closed.
OutExit(c) == outp[c] = "select" /\ pc[c] = "leave" /\ OutDone(c, 0)

\* The client takes the chunk.
OutWrite(c) ==
  /\ outp[c] = "write" /\ pc[c] = "on"
  /\ outp' = [outp EXCEPT ![c] = "select"]
  /\ UNCHANGED <<kothVars, pc, inp, errch, gone, procVars, buffs, watchVars>>

\* The client's standard output is broken.
OutBroken(c) == outp[c] = "write" /\ pc[c] = "on" /\ OutDone(c, 1)

OutDeadline(c) == outp[c] = "write" /\ pc[c] = "leave" /\ OutDone(c, 1)

-----------------------------------------------------------------------------
(* process.run and the goroutine that reads the program's output.          *)

RunPipes ==
  /\ run = "new"
  /\ run' \in {"ready"} \cup (IF StartMayFail THEN {"unpiped"} ELSE {})
  /\ UNCHANGED <<kothVars, pc, copyVars, gone, child, stdin, outPipe, reader,
                 buffs, watchVars>>

\* cmd.Start, and the watcher with its timer.
RunStart ==
  /\ run = "ready"
  /\ run' = "running" /\ child' = "alive"
  /\ watcher' = "select" /\ timer' = "armed" /\ drain' = "buffs"
  /\ UNCHANGED <<kothVars, pc, copyVars, gone, stdin, outPipe, reader, buffs>>

\* cmd.Start fails: it closes the pipes, and no watcher is started.
RunStartFails ==
  /\ StartMayFail /\ run = "ready"
  /\ run' = "exited" /\ stdin' = "closed"
  /\ UNCHANGED <<kothVars, pc, copyVars, gone, child, outPipe, reader, buffs,
                 watchVars>>

\* outCopyErrch: the reader's last send, run's receive.
RunOutEnded ==
  /\ run = "running" /\ reader = "eof"
  /\ run' = "reap" /\ reader' = "end"
  /\ UNCHANGED <<kothVars, pc, copyVars, gone, child, stdin, outPipe, buffs,
                 watchVars>>

\* cmd.Wait closes pipeIn; the deferred function closes p.exited.
RunWait ==
  /\ run = "reap" /\ child = "dead"
  /\ run' = "exited" /\ stdin' = "closed"
  /\ UNCHANGED <<kothVars, pc, copyVars, gone, child, outPipe, reader, buffs,
                 watchVars>>

ReaderRead ==
  /\ reader = "read" /\ outPipe > 0
  /\ reader' = "push" /\ outPipe' = outPipe - 1
  /\ UNCHANGED <<kothVars, pc, copyVars, gone, run, child, stdin, buffs,
                 watchVars>>

\* Mutant: the channel takes one chunk more than its capacity.
ReaderPushOver ==
  /\ reader = "push" /\ buffs <= BuffCap
  /\ reader' = "read" /\ buffs' = buffs + 1
  /\ UNCHANGED <<kothVars, pc, copyVars, gone, run, child, stdin, outPipe,
                 watchVars>>

ReaderPush ==
  /\ reader = "push" /\ buffs < BuffCap
  /\ reader' = "read" /\ buffs' = buffs + 1
  /\ UNCHANGED <<kothVars, pc, copyVars, gone, run, child, stdin, outPipe,
                 watchVars>>

ReaderEof ==
  /\ reader = "read" /\ outPipe = 0
  /\ child = "dead" \/ run = "exited"
  /\ reader' = "eof"
  /\ UNCHANGED <<kothVars, pc, copyVars, gone, run, child, stdin, outPipe,
                 buffs, watchVars>>

\* The encapsulated program writes output, or ends: at the end of its input or
\* for a reason of its own.
ChildWrite ==
  /\ child = "alive" /\ outPipe < PipeCap
  /\ outPipe' = outPipe + 1
  /\ UNCHANGED <<kothVars, pc, copyVars, gone, run, child, stdin, reader,
                 buffs, watchVars>>

ChildEnds ==
  /\ child = "alive"
  /\ child' = "dead"
  /\ UNCHANGED <<kothVars, pc, copyVars, gone, run, stdin, outPipe, reader,
                 buffs, watchVars>>

-----------------------------------------------------------------------------
(* The watcher of process.run.  A receive from the closed pipeOutBuffs     *)
(* changes nothing and is left out.                                        *)

TimerFires ==
  /\ timer = "armed"
  /\ timer' = "fired"
  /\ UNCHANGED <<kothVars, pc, copyVars, gone, procVars, buffs, watcher, drain>>

\* Mutant: the watcher drains whether or not a client is attached.
DropOutputAlways ==
  /\ watcher \in {"select", "timeout"}
  /\ buffs > 0
  /\ buffs' = buffs - 1
  /\ UNCHANGED <<kothVars, pc, copyVars, gone, procVars, watchVars>>

\* Mutant: the timeout leaves no goroutine behind.
DropOutputWatched ==
  /\ watcher = "select" /\ drain = "buffs"
  /\ buffs > 0
  /\ buffs' = buffs - 1
  /\ UNCHANGED <<kothVars, pc, copyVars, gone, procVars, watchVars>>

\* While a client is away the watcher drops the output; after the timeout the
\* goroutine it leaves behind does.
DropOutput ==
  /\ (watcher = "select" /\ drain = "buffs") \/ watcher = "timeout"
  /\ buffs > 0
  /\ buffs' = buffs - 1
  /\ UNCHANGED <<kothVars, pc, copyVars, gone, procVars, watchVars>>

\* The receive from timeout.C after Stop returned false.
WatcherStopped ==
  /\ watcher = "stopC" /\ timer = "fired"
  /\ watcher' = "select" /\ timer' = "off" /\ drain' = "nil"
  /\ UNCHANGED <<kothVars, pc, copyVars, gone, procVars, buffs>>

WatcherExited ==
  /\ watcher = "select" /\ Exited
  /\ watcher' = "exit"
  /\ UNCHANGED <<kothVars, pc, copyVars, gone, procVars, buffs, timer, drain>>

WatcherTimeout ==
  /\ watcher = "select" /\ timer = "fired"
  /\ watcher' = "timeout" /\ timer' = "off" /\ stdin' = "closed"
  /\ UNCHANGED <<kothVars, pc, copyVars, gone, run, child, outPipe, reader,
                 buffs, drain>>

-----------------------------------------------------------------------------
ClaimStep(c) ==
  \/ ClaimFree(c) \/ ClaimOver(c) \/ Kick(c) \/ ClaimFreed(c)
AttachStep(c) ==
  \/ AttachSelect(c) \/ StopTimeout(c) \/ StopTimeoutClosed(c)
  \/ CopyEnded(c) \/ CopiesJoined(c) \/ ResetTimeout(c) \/ CloseFreech(c)
InStep(c)  == InDeadline(c) \/ InBroken(c)
OutStep(c) == OutTake(c) \/ OutClosed(c) \/ OutExit(c) \/ OutDeadline(c)
ClientStep(c) ==
  \/ Connect(c) \/ Disconnect(c)
  \/ InRead(c) \/ InEof(c) \/ InWrite(c) \/ OutWrite(c) \/ OutBroken(c)
RunStep == RunPipes \/ RunStart \/ RunStartFails \/ RunOutEnded \/ RunWait
ReaderStep == ReaderRead \/ ReaderPush \/ ReaderEof
WatcherStep == WatcherStopped \/ WatcherExited \/ WatcherTimeout

Next ==
  \/ \E c \in Claimants :
       \/ ClaimStep(c) \/ AttachStep(c) \/ InStep(c) \/ OutStep(c)
       \/ ClientStep(c)
  \/ RunStep \/ ReaderStep \/ WatcherStep
  \/ ChildWrite \/ ChildEnds \/ TimerFires \/ DropOutput

Spec == Init /\ [][Next]_vars

\* Every goroutine that can go on does, time passes, sync.Mutex starves nobody,
\* and a select that finds the same case ready again and again takes it, as it
\* chooses at random among the ready ones.  Nothing is assumed of the clients or
\* of the program: they may stop reading, writing or running, or never do.
Fairness ==
  /\ \A c \in Claimants :
       /\ SF_vars(ClaimFree(c) \/ ClaimOver(c))
       /\ WF_vars(Kick(c)) /\ WF_vars(ClaimFreed(c))
       /\ WF_vars(AttachStep(c)) /\ WF_vars(InStep(c)) /\ WF_vars(OutStep(c))
  /\ WF_vars(RunStep) /\ WF_vars(ReaderStep) /\ WF_vars(TimerFires)
  /\ SF_vars(DropOutput) /\ WF_vars(WatcherStep)

FairSpec == Spec /\ Fairness

-----------------------------------------------------------------------------
(* Safety.                                                                 *)

Copying(c) == inp[c] # "done" \/ outp[c] # "done"

\* Control is exclusive: a client whose bytes move to or from the program owns
\* the hill with its claim still open, so no two clients are ever connected
\* (Claim 48-77 against the deferred close of freech in attach 226).
ExclusiveCopy ==
  \A c \in Claimants : Copying(c) => owner = c /\ freech[c] = "open"

\* stopTimeout and resetTimeout (189-203) pair up across clients: whenever the
\* watcher has to receive from timeout.C after Stop returned false (164-166)
\* there is a value in it, so the watcher can never be stuck there.
WatcherNeverWedges == watcher = "stopC" => timer = "fired"

\* From stopTimeout to resetTimeout a client is left alone: the idle timer
\* neither runs nor has run out unseen, and pipeIn stays open until the program
\* has been reaped (152-180 against attach 228-231).
Undisturbed ==
  \A c \in Claimants : pc[c] \in Attached =>
    /\ watcher \in {"select", "stopC", "exit"}
    /\ watcher = "select" => timer = "off"
    /\ stdin = "open" \/ Exited

\* While a client is connected every chunk that leaves pipeOutBuffs goes to
\* that client: neither the watcher's drain (160) nor the goroutine left by the
\* timeout (173-176) takes one.
OutputKept ==
  [][\A c \in Claimants :
       pc[c] \in {"on", "leave"} /\ buffs' < buffs
         => outp[c] = "select" /\ outp'[c] = "write"]_vars

(* The inductive invariant behind the three state properties above.        *)

Holding == {"stop", "free"} \cup Attached   \* from Claim to close(freech)

\* A claim is open exactly while its owner is between Claim and the deferred
\* close(freech), and one claimant at a time is blocked inside Claim.
HillInv ==
  \A c \in Claimants :
    /\ pc[c] \in Holding <=> owner = c /\ freech[c] = "open"
    /\ freech[c] = "open" => owner = c
    /\ pc[c] \in {"kick", "await"} <=> mutex = c
    /\ mutex = c => owner # NoOne

\* A copy goroutine runs only while attach waits for it, and sends once.
CopyInv ==
  \A c \in Claimants :
    /\ Copying(c) => pc[c] \in {"on", "leave"} /\ errch[c] <= 1
    /\ inp[c] # "done" /\ outp[c] # "done" => errch[c] = 0

\* The watcher's timer and drain as the clients left them.
WatchInv ==
  /\ \A c \in Claimants : pc[c] \in Attached =>
       \/ watcher = "select" /\ timer = "off" /\ drain = "nil"
       \/ watcher = "stopC" /\ timer = "fired" /\ drain = "buffs"
       \/ watcher = "exit"
  /\ (\A c \in Claimants : pc[c] \notin Attached) =>
       /\ watcher # "stopC"
       /\ watcher = "select" => timer # "off" /\ drain = "buffs"
  /\ run \in {"new", "ready"} => watcher = "none"
  /\ stdin = "closed" => Exited \/ watcher = "timeout"

MuxInv == TypeOK /\ HillInv /\ CopyInv /\ WatchInv

\* The detailed goroutines implement the promise.
EC == INSTANCE ExclusiveControl WITH
  holder <- IF owner # NoOne /\ freech[owner] = "open" THEN owner ELSE NoOne,
  challenger <- mutex,
  connected <- {c \in Claimants : Copying(c)}
ImplementsExclusiveControl == EC!Spec

-----------------------------------------------------------------------------
(* Liveness, under FairSpec.                                               *)

\* A program nobody controls is told to exit (its stdin is closed) or gets a
\* new client: README.md "stops it after a period of idleness", main.go 155-177.
IdleStops ==
  (child = "alive" /\ \A c \in Claimants : pc[c] \notin Attached)
    ~> (Closed \/ \E c \in Claimants : pc[c] \in Attached)

\* A program that has ended is reaped and p.exited closes, whoever its output
\* was waiting for (129-146, 181-186), as long as no client in control stops for
\* ever taking a chunk it is being sent.
ChildReaped ==
  (\A c \in Claimants : []<>(outp[c] # "write")) => (child = "dead" ~> Exited)

\* A client that hung up, was kicked or saw a copy end gives control back and
\* its serve returns (266-277, 373-378), as long as the program does not stop for
\* ever reading its standard input.
Releases ==
  \A c \in Claimants :
    []<>(inp[c] # "write") =>
      ((pc[c] = "on" /\ c \in gone) \/ pc[c] \in {"leave", "reset", "free"}
         ~> pc[c] = "idle")

\* README.md 3: "allows higher-priority client to seize control from
\* lower-priority client at any time".  A claimant that found a lower-priority
\* owner (60-62) gets control or gives up, unless the program never again reads.
SeizesAnyTime ==
  \A c \in Claimants :
    pc[c] = "kick"
      ~> (pc[c] = "stop" \/ c \in gone \/ \E d \in Claimants : [](inp[d] = "write"))
=============================================================================
