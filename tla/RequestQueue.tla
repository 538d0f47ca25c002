---------------------------- MODULE RequestQueue ----------------------------
(***************************************************************************)
(* What HttpClient promises to the callers of Get, Post and Request:       *)
(* requests are answered one at a time, in the order in which they were    *)
(* made, each at most once, and none while the client is stopped.          *)
(***************************************************************************)
EXTENDS Sequences, Naturals

CONSTANT Call   \* the calls of Request

VARIABLES made,   \* the calls made, in order
          given,  \* how many of them have been answered
          open    \* the client is started

AbsInit == made = <<>> /\ given = 0 /\ open = FALSE

Make(c) == /\ \A i \in DOMAIN made : made[i] # c
           /\ made' = Append(made, c)
           /\ UNCHANGED <<given, open>>

Give == /\ open
        /\ given < Len(made)
        /\ given' = given + 1
        /\ UNCHANGED <<made, open>>

Open == open' = TRUE /\ UNCHANGED <<made, given>>
Shut == open' = FALSE /\ UNCHANGED <<made, given>>

AbsNext == (\E c \in Call : Make(c)) \/ Give \/ Open \/ Shut
AbsSpec == AbsInit /\ [][AbsNext]_<<made, given, open>>
=============================================================================
