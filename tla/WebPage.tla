------------------------------- MODULE WebPage -------------------------------
(***************************************************************************)
(* How a component of the web front end meets the query cache.  A          *)
(* component has queries (useQuery), operations (useMutation, or an async  *)
(* handler that makes the calls itself) and at most one draft (the fields  *)
(* of a form).  The pages are tables of components; WebCache is what they  *)
(* do.  Layout, texts, filters and sorting of what is shown are left out.  *)
(* So are questions asked before a call: declining is not pressing.        *)
(*                                                                         *)
(* A key is a query key without the ids in it, since everything is about   *)
(* the one device, site or user on the screen.  Refreshing a key           *)
(* (invalidateQueries) refreshes every query whose key it is a prefix of.  *)
(***************************************************************************)
EXTENDS Naturals, Sequences, SequencesExt

-----------------------------------------------------------------------------
(* Queries *)

Shows(key, call) == [key |-> key, call |-> call, polls |-> "never"]

\* refetchInterval is a number.
Polls(key, call) == [key |-> key, call |-> call, polls |-> "always"]

\* refetchInterval depends on the data, or the operator can stop it.
PollsWhile(key, call) == [key |-> key, call |-> call, polls |-> "sometimes"]

-----------------------------------------------------------------------------
(* Operations *)

\* What the button does is disabled while the call is pending; on success
\* the keys are refreshed, on an error the message is shown.
Does(call, keys) ==
  [calls |-> <<call>>, refreshes |-> keys, onError |-> {}, sets |-> {},
   locked |-> TRUE, saves |-> FALSE, deferred |-> FALSE, lenient |-> FALSE,
   leaves |-> FALSE]

\* The same, and what it sends is the component's draft.
Saves(call, keys) == [Does(call, keys) EXCEPT !.saves = TRUE]

\* The button stays enabled while the call is pending.
Repeats(call, keys) == [Does(call, keys) EXCEPT !.locked = FALSE]

\* Several calls, one after the other; the first error ends it.
InTurn(calls, op) == [op EXCEPT !.calls = calls]

\* Errors between the first and the last of several calls are only reported.
Lenient(op) == [op EXCEPT !.lenient = TRUE]

\* The keys are refreshed after an error, too.
AlsoOnError(op, keys) == [op EXCEPT !.onError = keys]

\* The answer is put into the cache (setQueryData) under the keys.
PutsAnswer(op, keys) == [op EXCEPT !.sets = keys]

\* On success another page is shown.
Leaves(op) == [op EXCEPT !.leaves = TRUE]

\* The keys are refreshed when the operator closes the panel that shows the
\* answer, not before.
OnClosing(op) == [op EXCEPT !.deferred = TRUE]

-----------------------------------------------------------------------------
(* Drafts *)

NoDraft == [kind |-> "none", key |-> <<>>]

\* The fields start empty.
Blank == [kind |-> "blank", key |-> <<>>]

\* The fields are copied from the cache each time the form is opened.
Opened(key) == [kind |-> "opened", key |-> key]

\* The fields are copied once, when the row appears on the screen.
Mounted(key) == [kind |-> "mounted", key |-> key]

\* The fields are copied whenever the cached data changes.
Hydrated(key) == [kind |-> "hydrated", key |-> key]

\* The same, but only when the field itself changed.
ByField(key) == [kind |-> "by field", key |-> key]

\* The fields are copied when the data changes, unless they were touched.
Untouched(key) == [kind |-> "untouched", key |-> key]

-----------------------------------------------------------------------------
Component(queries, ops, draft) ==
  [queries |-> queries, ops |-> ops, draft |-> draft]

\* A component that only shows what others loaded.
View(queries) == Component(queries, {}, NoDraft)

Covers(keys, key) == \E k \in keys : IsPrefix(k, key)
=============================================================================
