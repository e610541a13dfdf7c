--------------------------- MODULE OneTimeTickets ---------------------------
(***************************************************************************)
(* What sign-in by a ticket promises: a ticket is drawn once, becomes      *)
(* ready at once or when an account approves it, is taken once and then    *)
(* opens one session, of the account that approved it.  Until then it may  *)
(* be lost at any time.  Which tickets there are, when they expire and     *)
(* what a handler does with one is left to the specification that          *)
(* implements this one.                                                    *)
(***************************************************************************)
CONSTANT Numbers  \* of tickets, sessions and accounts, from one source

VARIABLES drawn,     \* numbers that are in use, or were
          pending,   \* tickets that wait for an approval
          ready,     \* tickets that may be taken
          taken,     \* tickets that a handler is about to turn into a session
          approvals, \* (ticket, account) pairs answered as approved
          grants     \* (ticket, session, account) of each session opened by a ticket

vars == <<drawn, pending, ready, taken, approvals, grants>>

Init == /\ drawn = {} /\ pending = {} /\ ready = {} /\ taken = {}
        /\ approvals = {} /\ grants = {}

Draw(t) == /\ t \notin drawn
           /\ drawn' = drawn \cup {t}
           /\ \/ pending' = pending \cup {t} /\ UNCHANGED ready
              \/ ready' = ready \cup {t} /\ UNCHANGED pending
           /\ UNCHANGED <<taken, approvals, grants>>

\* No account but u approved the ticket.
Only(u, t) == \A a \in approvals : a.ticket = t => a.user = u

Approve(t, u) == /\ t \in pending \cup ready
                 /\ Only(u, t)
                 /\ pending' = pending \ {t}
                 /\ ready' = ready \cup {t}
                 /\ approvals' = approvals \cup {[ticket |-> t, user |-> u]}
                 /\ UNCHANGED <<drawn, taken, grants>>

Take(t) == /\ t \in ready
           /\ ready' = ready \ {t}
           /\ taken' = taken \cup {t}
           /\ UNCHANGED <<drawn, pending, approvals, grants>>

Grant(t, s, u) == /\ s \notin drawn
                  /\ Only(u, t)
                  /\ taken' = taken \ {t}
                  /\ drawn' = drawn \cup {s}
                  /\ grants' = grants \cup {[ticket |-> t, token |-> s, user |-> u]}
                  /\ UNCHANGED <<pending, ready, approvals>>

\* Tickets expire or are dropped, and numbers are drawn for something else.
Lose == /\ pending' \in SUBSET pending
        /\ ready' \in SUBSET ready
        /\ taken' \in SUBSET taken
        /\ drawn' \in SUBSET Numbers /\ drawn \subseteq drawn'
        /\ UNCHANGED <<approvals, grants>>

Next == \/ Lose
        \/ \E t \in Numbers : Draw(t) \/ Take(t)
        \/ \E t, u \in Numbers : Approve(t, u)
        \/ \E t \in taken : \E s, u \in Numbers : Grant(t, s, u)

Spec == Init /\ [][Next]_vars
=============================================================================
