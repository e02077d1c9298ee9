----------------------------- MODULE Semaphore -----------------------------
(***************************************************************************)
(* A bounded number of holders: what the counter of async_proxy.c promises *)
(* ("a global limit of active relays, so that threads are not created      *)
(* without bound"), with the free places counted down to zero.             *)
(***************************************************************************)
EXTENDS Naturals

CONSTANTS Clients, Limit

VARIABLES holders, room

sem == <<holders, room>>

SemInit == holders = {} /\ room = Limit

Take(c) == c \notin holders /\ room > 0 /\ holders' = holders \cup {c} /\ room' = room - 1
Give(c) == c \in holders /\ holders' = holders \ {c} /\ room' = room + 1

SemNext == \E c \in Clients : Take(c) \/ Give(c)

SemSpec == SemInit /\ [][SemNext]_sem
=============================================================================
