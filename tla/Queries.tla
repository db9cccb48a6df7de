------------------------------- MODULE Queries -------------------------------
(***************************************************************************)
(* What the pages take from @tanstack/react-query (external): a query that  *)
(* is still asked has no data; one that fails keeps the data it had; one    *)
(* asked under another key is another query.                                *)
(***************************************************************************)
CONSTANT UNREAD      \* undefined: nothing has been answered yet

Pending == [data |-> UNREAD, isError |-> FALSE]
Answered(v) == [data |-> v, isError |-> FALSE]
FailedAfter(q) == [q EXCEPT !.isError = TRUE]

isLoading(q) == q.data = UNREAD /\ ~q.isError
OrElse(v, default) == IF v = UNREAD THEN default ELSE v
==============================================================================
