------------------------------ MODULE PageSwap ------------------------------
(***************************************************************************)
(* What page migration promises, without queues, buffers and requests: at  *)
(* any time at most one page of a slow channel and one page of the fast    *)
(* channel exchange their channels; either page moves at once, the two     *)
(* moves happen in any order, and a page moves at most once.               *)
(***************************************************************************)
EXTENDS Naturals

CONSTANTS Pages,        \* pairs of a frame and a channel
          FastChannel

VARIABLES home,     \* the channel that serves a page
          pair,     \* the slow and the fast page of the latest swap
          pending   \* those of them that have not moved yet

swapVars == <<home, pair, pending>>

SwapInit ==
    /\ home = [p \in Pages |-> p[2]]
    /\ pair \in Pages \X Pages
    /\ pending = {}

Begin(slow, fast) ==
    /\ pending = {}
    /\ slow[2] # FastChannel /\ fast[2] = FastChannel
    /\ home[slow] = slow[2] /\ home[fast] = fast[2]
    /\ pair' = <<slow, fast>>
    /\ pending' = {slow, fast}
    /\ UNCHANGED home

Move(p) ==
    /\ p \in pending
    /\ home' = [home EXCEPT ![p] = IF p = pair[1] THEN pair[2][2] ELSE pair[1][2]]
    /\ pending' = pending \ {p}
    /\ UNCHANGED pair

SwapNext ==
    \/ \E slow, fast \in Pages : Begin(slow, fast)
    \/ \E p \in Pages : Move(p)

SwapSpec == SwapInit /\ [][SwapNext]_swapVars
=============================================================================
