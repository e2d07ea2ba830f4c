----------------------------- MODULE Canceller -----------------------------
(***************************************************************************)
(* canceller.Canceller (src/canceller/canceller.go): the worker's commands *)
(* that can still be cancelled.  The Go type maps a command id to the      *)
(* closure that asks the environment to cancel it; the closure is a        *)
(* function of the id, so a canceller is the set of its keys.              *)
(***************************************************************************)
EXTENDS Naturals

Register(c, id) == c \cup {id}

DiscardNothing(c, id) == c

Discard(c, id) == c \ {id}

(* The ids of a cancel request whose closures run: the others have been    *)
(* discarded or cancelled before and are skipped.                          *)
Cancelled(c, asked) == asked \cap c

CancelKeeps(c, asked) == c

CancelRemaining(c, asked) == c \ asked
=============================================================================
