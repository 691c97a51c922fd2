------------------------------- MODULE ZramPool -------------------------------
(***************************************************************************)
(* What zallocate.c promises its callers: a pool of zram devices from      *)
(* which a request takes devices one at a time, each device being held by  *)
(* at most one request, and gives them back.  How a device is found and    *)
(* claimed through sysfs is the business of ZramAlloc, which implements    *)
(* this specification.                                                     *)
(***************************************************************************)
CONSTANTS Req,     \* claim requests
          Device   \* the zram devices of the system

VARIABLE held      \* held[r]: the devices request r holds

PoolInit == held = [r \in Req |-> {}]

\* A device is handed out only while nobody holds it.
Take(r, d) ==
  /\ \A q \in Req : d \notin held[q]
  /\ held' = [held EXCEPT ![r] = @ \cup {d}]

\* A request gives back a device it holds.
GiveBack(r, d) ==
  /\ d \in held[r]
  /\ held' = [held EXCEPT ![r] = @ \ {d}]

PoolNext == \E r \in Req, d \in Device : Take(r, d) \/ GiveBack(r, d)

PoolSpec == PoolInit /\ [][PoolNext]_held
===============================================================================
