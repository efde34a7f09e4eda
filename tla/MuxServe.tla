------------------------------ MODULE MuxServe ------------------------------
(***************************************************************************)
(* controlmux across restarts of the encapsulated program: the global proc *)
(* of src/sw/controlmux/main.go, replaced by serve when the process in it  *)
(* has exited, and the connections that pick it up.  What happens inside   *)
(* one process (module ControlMux) is reduced here to its life and to the  *)
(* promise ExclusiveControl makes of its holder.                           *)
(***************************************************************************)
EXTENDS Naturals, FiniteSets

CONSTANTS
  Conns,   \* client connections (each may be made again)
  Prio,    \* priority of the socket a connection came through
  Gens,    \* names for processes; a name is used again once nothing refers to it
  None     \* no connection, or nil

ASSUME ServeAssumption ==
  /\ None \notin Conns /\ None \notin Gens
  /\ Prio \in [Conns -> Nat]

VARIABLES
  proc,    \* the global variable proc
  procM,   \* the connection holding the mutex procM, or None
  life,    \* per process: what its channels exited and closed tell
  holder,  \* per process: the client in control
  pc,      \* where each connection's serve is
  ref,     \* its procRef
  awaited, \* the process whose exit it waits for
  server   \* "panicked" once serve called a method of a nil proc

vars == <<proc, procM, life, holder, pc, ref, awaited, server>>

TypeOK ==
  /\ proc \in Gens \cup {None}
  /\ procM \in Conns \cup {None}
  /\ life \in [Gens -> {"unborn", "live", "closing", "dead", "gone"}]
  /\ holder \in [Gens -> Conns \cup {None}]
  /\ pc \in [Conns -> {"idle", "lock", "start", "check", "wait", "waiting",
                       "attach", "on"}]
  /\ ref \in [Conns -> Gens \cup {None}]
  /\ awaited \in [Conns -> Gens \cup {None}]
  /\ server \in {"up", "panicked"}

Init ==
  /\ proc = None /\ procM = None
  /\ life = [g \in Gens |-> "unborn"]
  /\ holder = [g \in Gens |-> None]
  /\ pc = [c \in Conns |-> "idle"]
  /\ ref = [c \in Conns |-> None]
  /\ awaited = [c \in Conns |-> None]
  /\ server = "up"

\* p.exited and p.closed; a process may be reaped before its watcher is told.
Exited(g) == life[g] \in {"dead", "gone"}
Closed(g) == life[g] \in {"closing", "gone"}
Running(g) == life[g] \in {"live", "closing"}

Unreferenced(g) ==
  /\ life[g] \in {"unborn", "gone"} /\ proc # g
  /\ \A c \in Conns : ref[c] # g /\ awaited[c] # g

Goto(c, label) == pc' = [pc EXCEPT ![c] = label]

-----------------------------------------------------------------------------
(* serve up to attach.                                                     *)

Arrive(c) ==
  /\ pc[c] = "idle"
  /\ Goto(c, "lock")
  /\ UNCHANGED <<proc, procM, life, holder, ref, awaited, server>>

\* Mutant: a process is forgotten as soon as its standard input is closed.
AcquireLockClosed(c) ==
  /\ pc[c] = "lock" /\ procM = None
  /\ procM' = c
  /\ proc' = IF proc # None /\ (Exited(proc) \/ Closed(proc)) THEN None ELSE proc
  /\ Goto(c, "start")
  /\ UNCHANGED <<life, holder, ref, awaited, server>>

\* Mutant: a process that has exited is kept.
AcquireLockKeeps(c) ==
  /\ pc[c] = "lock" /\ procM = None
  /\ procM' = c
  /\ Goto(c, "start")
  /\ UNCHANGED <<proc, life, holder, ref, awaited, server>>

\* Under procM: a process that has exited is forgotten.
AcquireLock(c) ==
  /\ pc[c] = "lock" /\ procM = None
  /\ procM' = c
  /\ proc' = IF proc # None /\ Exited(proc) THEN None ELSE proc
  /\ Goto(c, "start")
  /\ UNCHANGED <<life, holder, ref, awaited, server>>

StartProcess(g) ==
  /\ proc' = g
  /\ life' = [life EXCEPT ![g] = "live"]
  /\ holder' = [holder EXCEPT ![g] = None]

AcquireRef(c) ==
  /\ pc[c] = "start"
  /\ IF proc = None
       THEN \E g \in Gens : Unreferenced(g) /\ StartProcess(g)
       ELSE UNCHANGED <<proc, life, holder>>
  /\ ref' = [ref EXCEPT ![c] = proc']
  /\ procM' = None
  /\ Goto(c, "check")
  /\ UNCHANGED <<awaited, server>>

\* proc is read again, twice and without procM: it may be another process by
\* now, or nil while another connection is between the two steps above.
CheckClosed(c) ==
  /\ pc[c] = "check"
  /\ IF proc = None
       THEN server' = "panicked" /\ UNCHANGED <<pc, ref>>
       ELSE /\ server' = server
            /\ IF Closed(proc)
                 THEN Goto(c, "wait") /\ ref' = [ref EXCEPT ![c] = None]
                 ELSE Goto(c, "attach") /\ ref' = ref
  /\ UNCHANGED <<proc, procM, life, holder, awaited>>

WaitRead(c) ==
  /\ pc[c] = "wait"
  /\ IF proc = None
       THEN server' = "panicked" /\ UNCHANGED <<pc, awaited>>
       ELSE /\ server' = server
            /\ awaited' = [awaited EXCEPT ![c] = proc]
            /\ Goto(c, "waiting")
  /\ UNCHANGED <<proc, procM, life, holder, ref>>

WaitExited(c) ==
  /\ pc[c] = "waiting" /\ Exited(awaited[c])
  /\ awaited' = [awaited EXCEPT ![c] = None]
  /\ Goto(c, "lock")
  /\ UNCHANGED <<proc, procM, life, holder, ref, server>>

-----------------------------------------------------------------------------
(* procRef.attach, as ExclusiveControl promises it.                        *)

Return(c) ==
  /\ Goto(c, "idle")
  /\ ref' = [ref EXCEPT ![c] = None]
  /\ UNCHANGED <<proc, procM, life, awaited, server>>

\* Mutant: control is taken without asking whether it is free.
AttachTakeAnyway(c) ==
  /\ pc[c] = "attach" /\ life[ref[c]] = "live"
  /\ holder' = [holder EXCEPT ![ref[c]] = c]
  /\ Goto(c, "on")
  /\ UNCHANGED <<proc, procM, life, ref, awaited, server>>

AttachTake(c) ==
  /\ pc[c] = "attach" /\ life[ref[c]] = "live" /\ holder[ref[c]] = None
  /\ holder' = [holder EXCEPT ![ref[c]] = c]
  /\ Goto(c, "on")
  /\ UNCHANGED <<proc, procM, life, ref, awaited, server>>

AttachSeize(c) ==
  /\ pc[c] = "attach" /\ life[ref[c]] = "live"
  /\ LET h == holder[ref[c]] IN
       /\ h # None /\ Prio[c] > Prio[h]
       /\ holder' = [holder EXCEPT ![ref[c]] = c]
       /\ pc' = [pc EXCEPT ![c] = "on", ![h] = "idle"]
       /\ ref' = [ref EXCEPT ![h] = None]
  /\ UNCHANGED <<proc, procM, life, awaited, server>>

AttachRefused(c) ==
  /\ pc[c] = "attach" /\ holder[ref[c]] # None
  /\ Prio[c] <= Prio[holder[ref[c]]]
  /\ UNCHANGED holder /\ Return(c)

AttachTooLate(c) ==
  /\ pc[c] = "attach" /\ life[ref[c]] # "live"
  /\ UNCHANGED holder /\ Return(c)

Detach(c) ==
  /\ pc[c] = "on"
  /\ holder' = [holder EXCEPT ![ref[c]] = None]
  /\ Return(c)

-----------------------------------------------------------------------------
(* The life of a process: the idle timeout closes its stdin only while     *)
(* nobody is in control; the program may end at any time.                  *)

Become(g, from, to) ==
  /\ life[g] = from
  /\ life' = [life EXCEPT ![g] = to]
  /\ UNCHANGED <<proc, procM, holder, pc, ref, awaited, server>>

TimeOut(g) == holder[g] = None /\ Become(g, "live", "closing")
EndsAfterTimeout(g) == Become(g, "closing", "gone")
Ends(g) == Become(g, "live", "dead")
WatcherTold(g) == Become(g, "dead", "gone")

ServeStep(c) ==
  \/ AcquireLock(c) \/ AcquireRef(c) \/ CheckClosed(c) \/ WaitRead(c)
  \/ WaitExited(c)
AttachStep(c) ==
  \/ AttachTake(c) \/ AttachSeize(c) \/ AttachRefused(c) \/ AttachTooLate(c)

Up == server = "up"

Next ==
  /\ Up
  /\ \/ \E c \in Conns : Arrive(c) \/ ServeStep(c) \/ AttachStep(c) \/ Detach(c)
     \/ \E g \in Gens :
          TimeOut(g) \/ EndsAfterTimeout(g) \/ Ends(g) \/ WatcherTold(g)

Spec == Init /\ [][Next]_vars

\* The server's goroutines run, sync.Mutex starves nobody, and the program ends
\* once its standard input is closed.  Clients may stay for as long as they like.
Fairness ==
  /\ \A c \in Conns :
       /\ SF_vars(Up /\ AcquireLock(c))
       /\ WF_vars(Up /\ (AcquireRef(c) \/ CheckClosed(c) \/ WaitRead(c)))
       /\ WF_vars(Up /\ WaitExited(c))
       /\ WF_vars(Up /\ AttachStep(c))
  /\ \A g \in Gens :
       WF_vars(Up /\ (EndsAfterTimeout(g) \/ WatcherTold(g)))

FairSpec == Spec /\ Fairness

-----------------------------------------------------------------------------
(* Safety.                                                                 *)

\* Only one program runs at a time, and it is the one in proc: a process leaves
\* proc only after it has exited (340-348), although its standard input may
\* have been closed long before.
OneLive == \A g \in Gens : Running(g) => proc = g

\* Across restarts control stays exclusive: no two connections drive programs
\* that run at the same time (serve 337-353 with attach 215-278).
OneController ==
  \A c, d \in Conns :
    pc[c] = "on" /\ pc[d] = "on" /\ Running(ref[c]) /\ Running(ref[d]) => c = d

(* The inductive invariant behind them.                                    *)

\* procM is held exactly by the connection between the two steps of 340-348,
\* attach is called on a process, and the clients in control are the holders.
ServeInv ==
  /\ TypeOK
  /\ OneLive
  /\ \A c \in Conns :
       /\ pc[c] = "start" <=> procM = c
       /\ pc[c] \in {"check", "attach", "on"} => ref[c] # None
       /\ pc[c] = "on" => holder[ref[c]] = c
  /\ \A g \in Gens :
       holder[g] # None => pc[holder[g]] = "on" /\ ref[holder[g]] = g

-----------------------------------------------------------------------------
(* Liveness, under FairSpec.                                               *)

\* README.md 3: "starts up the encapsulated program on-demand".  Whenever a
\* connection asks for the program while none is live, one is started, unless a
\* nil proc stopped the server first (339-353).
StartsOnDemand ==
  (\E c \in Conns : pc[c] = "lock") ~> (server = "panicked" \/ \E g \in Gens : life[g] = "live")

\* README.md 3: "allows higher-priority client to seize control from
\* lower-priority client at any time".  A connection that found its process
\* closing is served before a lower-priority one is: it does not wait while a
\* lower-priority client stays in control.
NoPriorityInversion ==
  \A c, d \in Conns :
    Prio[c] > Prio[d] =>
      ~<>[](pc[c] = "waiting" /\ pc[d] = "on" /\ life[ref[d]] = "live")
=============================================================================
