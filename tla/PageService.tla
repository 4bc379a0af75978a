---------------------------- MODULE PageService -----------------------------
(***************************************************************************)
(* What kalloc() and kfree() promise their callers, without nodes and      *)
(* lists: a call for `size` pages gives that many contiguous pages of the  *)
(* heap of which nobody has any, and they stay the caller's until it frees *)
(* them.  Which pages, and when there are none, is left open.              *)
(***************************************************************************)
EXTENDS Naturals

CONSTANTS
    HeapPages,   \* the pages of the heap
    Sizes        \* the page counts asked for

VARIABLE held    \* the blocks callers hold, [page, size]

PagesOf(b) == b.page .. b.page + b.size - 1

Init == held = {}

Allocate(page, size) ==
    LET new == [page |-> page, size |-> size]
    IN  /\ PagesOf(new) \subseteq HeapPages
        /\ \A b \in held : PagesOf(b) \cap PagesOf(new) = {}
        /\ held' = held \cup {new}

Free(b) == held' = held \ {b}

Next ==
    \/ \E page \in HeapPages, size \in Sizes : Allocate(page, size)
    \/ \E b \in held : Free(b)
=============================================================================
