------------------------------- MODULE KVStore -------------------------------
(***************************************************************************)
(* What VirtualKVCache (openagent_engine/memory.py) promises its callers,  *)
(* with no sharing in it: every session owns private pages of tokens.  One *)
(* call at a time works on one session; what the call was given goes to    *)
(* the end of that session's pages, piece by piece and in order, and no    *)
(* other session is touched, except that whole sessions may be dropped.    *)
(***************************************************************************)
EXTENDS Naturals, Sequences

CONSTANTS
  Sessions,    \* session ids
  Tokens,      \* token ids
  NoSession    \* "no call works on a session"

VARIABLES
  open,        \* the sessions there are
  pages,       \* pages[s]: the sequence of s's pages
  caller,      \* the session the call in progress works on, or NoSession
  pending      \* the tokens of that call that are not stored yet

vars == <<open, pages, caller, pending>>

Init ==
  /\ open = {}
  /\ pages = [s \in Sessions |-> <<>>]
  /\ caller = NoSession
  /\ pending = <<>>

\* A call to create a session: it exists at once, with no page.
Open(s) ==
  /\ caller = NoSession
  /\ s \notin open
  /\ open' = open \cup {s}
  /\ caller' = s
  /\ pending' \in Seq(Tokens)
  /\ UNCHANGED pages

\* A call to append to a session.
Extend(s) ==
  /\ caller = NoSession
  /\ s \in open
  /\ caller' = s
  /\ pending' \in Seq(Tokens)
  /\ UNCHANGED <<open, pages>>

\* The next n pending tokens become a page of their own.
AddPage(n) ==
  /\ caller \in open
  /\ pages' = [pages EXCEPT ![caller] = Append(@, SubSeq(pending, 1, n))]
  /\ pending' = SubSeq(pending, n + 1, Len(pending))
  /\ UNCHANGED <<open, caller>>

\* The next n pending tokens go to the end of the last page.
GrowPage(n) ==
  /\ caller \in open
  /\ pages[caller] # <<>>
  /\ pages' = [pages EXCEPT ![caller][Len(pages[caller])] =
                                @ \o SubSeq(pending, 1, n)]
  /\ pending' = SubSeq(pending, n + 1, Len(pending))
  /\ UNCHANGED <<open, caller>>

\* A whole session is released or evicted, never the one being worked on.
Drop(s) ==
  /\ s # caller
  /\ s \in open
  /\ open' = open \ {s}
  /\ pages' = [pages EXCEPT ![s] = <<>>]
  /\ UNCHANGED <<caller, pending>>

\* The call returns, or raises, once every token it was given is stored.
Return ==
  /\ pending = <<>>
  /\ caller # NoSession
  /\ caller' = NoSession
  /\ UNCHANGED <<open, pages, pending>>

Next ==
  \/ \E s \in Sessions : Open(s) \/ Extend(s) \/ Drop(s)
  \/ \E n \in 1..Len(pending) : AddPage(n) \/ GrowPage(n)
  \/ Return

Spec == Init /\ [][Next]_vars
=============================================================================
