-------------------------- MODULE ExclusiveControl --------------------------
(***************************************************************************)
(* What src/sw/controlmux promises of one encapsulated program: at most    *)
(* one client holds control, only the holder's streams are connected to    *)
(* the program, a client with a strictly higher priority may demand        *)
(* control, and control that was demanded goes to whoever demanded it.     *)
(***************************************************************************)
EXTENDS Naturals

CONSTANTS Claimants, Prio, NoOne

VARIABLES
  holder,      \* the client in control, or NoOne
  challenger,  \* the client that demanded control, or NoOne
  connected    \* the clients whose streams are connected to the program

vars == <<holder, challenger, connected>>

Init == holder = NoOne /\ challenger = NoOne /\ connected = {}

Acquire(c) ==
  /\ holder = NoOne /\ challenger \in {NoOne, c}
  /\ holder' = c /\ challenger' = NoOne
  /\ UNCHANGED connected

Challenge(c) ==
  /\ holder # NoOne /\ challenger = NoOne
  /\ Prio[c] > Prio[holder]
  /\ challenger' = c
  /\ UNCHANGED <<holder, connected>>

Open ==
  /\ holder # NoOne /\ connected = {}
  /\ connected' = {holder}
  /\ UNCHANGED <<holder, challenger>>

Hangup ==
  /\ connected # {}
  /\ connected' = {}
  /\ UNCHANGED <<holder, challenger>>

Release ==
  /\ holder # NoOne /\ connected = {}
  /\ holder' = NoOne
  /\ UNCHANGED <<challenger, connected>>

Next == (\E c \in Claimants : Acquire(c) \/ Challenge(c)) \/ Open \/ Hangup \/ Release

Spec == Init /\ [][Next]_vars
=============================================================================
