--------------------------- MODULE AdapterObjects ---------------------------
(***************************************************************************)
(* The objects a program makes of its adapter (device context, protection  *)
(* domain, memory regions, completion queues, queue pair) and takes down   *)
(* again in pp_close_ctx, one after the other.  The library refuses to     *)
(* destroy an object another one still uses, and pp_close_ctx gives up at  *)
(* the first refusal.                                                      *)
(***************************************************************************)
EXTENDS Naturals, Sequences

\* order is a sequence of the objects; uses[r] is the set of objects that r needs.
Destroyable(order, uses, i) ==
    LET before == {order[j] : j \in 1 .. i - 1} IN
    \A r \in DOMAIN uses \ before : order[i] \notin uses[r]

\* What is left when the objects were destroyed in that order.
LeftBy(order, uses) ==
    DOMAIN uses \ {order[i] : i \in {i \in DOMAIN order :
                                        \A j \in 1 .. i : Destroyable(order, uses, j)}}
=============================================================================
