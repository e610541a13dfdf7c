---------------------------- MODULE SignIn_proofs ----------------------------
(***************************************************************************)
(* Theorems about SignIn, for any number of browsers, names and WeChat     *)
(* accounts and any limits and times to live.                              *)
(***************************************************************************)
EXTENDS SignIn, SequenceTheorems, TLAPS

----------------------------------------------------------------------------
(* The inductive invariant *)

\* Every number was drawn before, so a new one is new everywhere.
Drawn == /\ nextId # None
         /\ \A list \in {users, saved} : \A i \in DOMAIN list : list[i].id \in 1..(nextId - 1)
         /\ \A r \in requests : r.id \in 1..(nextId - 1)
         /\ \A st \in states : st.id \in 1..(nextId - 1)
         /\ \A a \in approvals : a.ticket \in 1..(nextId - 1)
         /\ \A g \in grants : g.ticket \in 1..(nextId - 1)
         /\ \A c \in Clients : Held(c) < nextId

\* A ticket is in one place: a QR request, the state of a WeChat login, or a handler's.
OnePlace == /\ \A r, q \in requests : r.id = q.id => r = q
            /\ \A s, t \in states : s.id = t.id => s = t
            /\ \A r \in requests, st \in states : r.id # st.id
            /\ \A c, d \in Clients : Held(c) = Held(d) /\ Held(c) # None => c = d
            /\ \A c \in Clients, st \in states : Held(c) # st.id
            /\ \A c \in Clients, r \in requests : Held(c) = r.id => r.consumed /\ task[c].pc = "session"

\* The account that approved a request stays the same until the request is used or expires.
ApproverStays == /\ \A r \in requests : r.status = "approved" => r.by # None
                 /\ \A a, b \in approvals : a.ticket = b.ticket => a.user = b.user
                 /\ \A a \in approvals, r \in requests :
                       a.ticket = r.id => r.by = a.user /\ (r.status = "approved" \/ clock > r.expires)
                 /\ \A a \in approvals, st \in states : a.ticket # st.id
                 /\ \A a \in approvals, c \in Clients :
                       a.ticket = Held(c) => task[c].pc = "session" /\ task[c].user = a.user

\* A ticket that has opened a session is used up.
Granted == /\ \A g, h \in grants : g.ticket = h.ticket => g = h
           /\ \A g \in grants, a \in approvals : a.ticket = g.ticket => a.user = g.user
           /\ \A g \in grants, st \in states : g.ticket # st.id
           /\ \A g \in grants, r \in requests : g.ticket = r.id => r.consumed
           /\ \A g \in grants, c \in Clients : g.ticket # Held(c)

\* The file lags behind the memory, and a registration is answered when it has caught up.
NamesIn(list) == {list[i].name : i \in DOMAIN list}
FileLags == /\ NamesIn(saved) \subseteq NamesIn(users)
            /\ \A c \in Clients : task[c].pc = "session" => task[c].name \in NamesIn(saved) \cup {NoBody}

\* A window ends at most its length from now.
WindowsEnd == \A k \in Keys : buckets[k].resetAt <= clock + Window[k]

Tickets == Drawn /\ OnePlace /\ ApproverStays /\ Granted
IInv == TypeOK /\ Tickets /\ AccountsAreUnique /\ FileLags /\ RegisteredIsKept /\ WindowsEnd

----------------------------------------------------------------------------
(* Types *)

\* What a handler knows between two locked sections.
LEMMA TaskFields ==
    ASSUME NEW t \in Task
    PROVE  /\ t.pc \in {"idle", "create", "identified", "mark", "session", "approve"}
           /\ t.pc = "idle" => t = Idle
           /\ t.pc = "create" => /\ t.name \in Names /\ t.subject \in Subjects \cup {NoBody}
                                 /\ t.ticket \in Nat
           /\ t.pc = "identified" => t.subject \in Subjects /\ t.ticket \in Nat
           /\ t.pc = "mark" => t.user \in Nat \ {None} /\ t.ticket \in Nat
           /\ t.pc = "session" => /\ t.user \in Nat \ {None} /\ t.ticket \in Nat
                                  /\ t.name \in Names \cup {NoBody}
           /\ t.pc = "approve" => t.user \in Nat \ {None} /\ t.id \in Nat
BY DEF Task, Idle

\* A ticket is a number.
LEMMA HeldType ==
    ASSUME task \in [Clients -> Task], NEW c \in Clients
    PROVE  Held(c) \in Nat
<1>1. task[c] \in Task
  OBVIOUS
<1> QED BY <1>1, TaskFields DEF Held, TicketOf, None

\* An account in a list of accounts.
LEMMA ListFields ==
    ASSUME NEW list \in Seq(Account), NEW i \in DOMAIN list
    PROVE  list[i] \in Account /\ DOMAIN list = 1..Len(list) /\ Len(list) \in Nat
<1>1. Len(list) \in Nat /\ DOMAIN list = 1..Len(list)
  BY LenProperties
<1> QED BY <1>1, ElementOfSeq

\* An account is entered at the end.
LEMMA AppendFields ==
    ASSUME NEW list \in Seq(Account), NEW new \in Account
    PROVE  /\ Append(list, new) \in Seq(Account)
           /\ DOMAIN Append(list, new) = DOMAIN list \cup {Len(list) + 1}
           /\ Len(list) \in Nat /\ DOMAIN list = 1..Len(list)
           /\ Append(list, new)[Len(list) + 1] = new
           /\ \A i \in DOMAIN list : Append(list, new)[i] = list[i]
<1>1. Len(list) \in Nat /\ DOMAIN list = 1..Len(list)
  BY LenProperties
<1>2. /\ Append(list, new) \in Seq(Account)
      /\ Len(Append(list, new)) = Len(list) + 1
      /\ \A i \in 1..Len(list) + 1 : Append(list, new)[i] = IF i <= Len(list) THEN list[i] ELSE new
  BY AppendProperties
<1>3. DOMAIN Append(list, new) = 1..(Len(list) + 1)
  BY <1>1, <1>2, LenProperties
<1> HIDE DEF Account
<1> QED BY <1>1, <1>2, <1>3

----------------------------------------------------------------------------
(* Tickets *)

\* A handler that passes its ticket on, or drops it, changes nothing else about tickets.  It may
\* enter an account under a number that it has just drawn.
LEMMA HandlerStep ==
    ASSUME TypeOK, Tickets, NEW c \in Clients, NEW t, Goto(c, t),
           TicketOf(t) \in {None, Held(c)}, TicketOf(t) # None => task[c].pc # "session",
           UNCHANGED <<requests, states, approvals, grants, clock>>,
           nextId' \in Nat, nextId' >= nextId,
           \A list \in {users', saved'} : \A i \in DOMAIN list : list[i].id \in 1..(nextId' - 1)
    PROVE  Tickets'
<1>1. \A d \in Clients : task'[d] = IF d = c THEN t ELSE task[d]
  BY DEF Goto, TypeOK
<1>2. \A d \in Clients : Held(d)' = IF d = c THEN TicketOf(t) ELSE Held(d)
  BY <1>1 DEF Held
<1>3. \A d \in Clients : Held(d) \in Nat
  BY HeldType DEF TypeOK
<1>4. nextId \in Nat
  BY DEF TypeOK
<1>5. Drawn'
  BY <1>2, <1>3, <1>4 DEF Tickets, Drawn, None
<1>6. OnePlace'
  BY <1>1, <1>2 DEF Tickets, Drawn, OnePlace, None
<1>7. ApproverStays'
  BY <1>1, <1>2 DEF Tickets, Drawn, ApproverStays, None
<1>8. Granted'
  BY <1>1, <1>2 DEF Tickets, Drawn, Granted, None
<1> QED BY <1>5, <1>6, <1>7, <1>8 DEF Tickets

\* The tickets of all handlers are as they were, and so are the handlers that have one.
SameHolders == \A c \in Clients : Held(c)' = Held(c) /\ (Held(c) # None => task'[c] = task[c])

\* A handler without a ticket that ends or goes on without one changes no holder.
LEMMA NoTicket ==
    ASSUME TypeOK, NEW c \in Clients, NEW t, Goto(c, t), TicketOf(t) = None, Held(c) = None
    PROVE  SameHolders
<1>1. \A d \in Clients : task'[d] = IF d = c THEN t ELSE task[d]
  BY DEF Goto, TypeOK
<1> QED BY <1>1 DEF SameHolders, Held

\* A request that has run out is marked as expired; whoever approved it stays noted.
LEMMA ExpireStep ==
    ASSUME TypeOK, Tickets, NEW r \in requests, clock > r.expires,
           Replace(r, [r EXCEPT !.status = "expired"]), SameHolders,
           UNCHANGED <<users, saved, states, approvals, grants, clock, nextId>>
    PROVE  Tickets'
<1> DEFINE x == [r EXCEPT !.status = "expired"]
<1>1. /\ x.id = r.id /\ x.by = r.by /\ x.consumed = r.consumed /\ x.expires = r.expires
      /\ x.status = "expired"
  BY DEF TypeOK
<1> HIDE DEF x
<1>2. requests' = (requests \ {r}) \cup {x}
  BY DEF Replace, x
<1>3. Drawn'
  BY <1>1, <1>2 DEF Tickets, Drawn, SameHolders
<1>4. OnePlace'
  BY <1>1, <1>2 DEF Tickets, OnePlace, SameHolders, Drawn, None
<1>5. ApproverStays'
  BY <1>1, <1>2 DEF Tickets, ApproverStays, SameHolders, Drawn, None
<1>6. Granted'
  BY <1>1, <1>2 DEF Tickets, Granted, SameHolders
<1> QED BY <1>3, <1>4, <1>5, <1>6 DEF Tickets

\* A request that can be approved is held by no handler and has opened no session.
LEMMA ApproveStep ==
    ASSUME TypeOK, Tickets, NEW c \in Clients, NEW r \in requests, Approve(c, r)
    PROVE  Tickets'
<1> DEFINE u == task[c].user
           x == [r EXCEPT !.status = "approved", !.by = u]
<1>1. task[c].pc = "approve" /\ u \in Nat \ {None}
  BY TaskFields DEF Approve, TypeOK
<1>2. SameHolders
  BY <1>1, NoTicket DEF Approve, Idle, Held, TicketOf
<1>3. /\ x.id = r.id /\ x.by = u /\ x.consumed = r.consumed /\ x.expires = r.expires
      /\ x.status = "approved"
  BY DEF TypeOK
<1>4. /\ ~r.consumed /\ clock <= r.expires /\ (r.status = "approved" => r.by = u)
      /\ requests' = (requests \ {r}) \cup {x}
      /\ approvals' = approvals \cup {[ticket |-> r.id, user |-> u]}
      /\ UNCHANGED <<users, saved, states, grants, clock, nextId>>
  BY DEF Approve, Replace
<1> HIDE DEF u, x
<1>5. clock \in Nat /\ r.expires \in Nat
  BY DEF TypeOK
<1>6. \A a \in approvals : a.ticket = r.id => a.user = u
  BY <1>4, <1>5 DEF Tickets, ApproverStays
<1>7. \A d \in Clients : Held(d) # r.id
  BY <1>4 DEF Tickets, OnePlace
<1>8. \A g \in grants : g.ticket # r.id
  BY <1>4 DEF Tickets, Granted
<1>9. Drawn'
  BY <1>2, <1>3, <1>4 DEF Tickets, Drawn, SameHolders
<1>10. OnePlace'
  BY <1>2, <1>3, <1>4 DEF Tickets, OnePlace, SameHolders, Drawn, None
<1>11. ApproverStays'
  BY <1>1, <1>2, <1>3, <1>4, <1>6, <1>7 DEF Tickets, ApproverStays, OnePlace, SameHolders, Drawn, None
<1>12. Granted'
  BY <1>2, <1>3, <1>4, <1>8 DEF Tickets, Granted, SameHolders
<1> QED BY <1>9, <1>10, <1>11, <1>12 DEF Tickets

\* The poll that finds the approval uses the request up and goes on for its approver.
LEMMA PollStep ==
    ASSUME TypeOK, Tickets, NEW c \in Clients, NEW r \in requests, Poll(c, r)
    PROVE  Tickets'
<1>1. task[c] = Idle
  BY DEF Poll
<1>2. CASE clock > r.expires
  <2>1. SameHolders
    BY <1>2 DEF Poll, SameHolders, Held
  <2> QED BY <1>2, <2>1, ExpireStep DEF Poll, history
<1>3. CASE ~(clock > r.expires)
  <2> DEFINE x == Consume(r)
             t == [pc |-> "session", user |-> r.by, ticket |-> r.id, name |-> NoBody]
  <2>1. /\ x.id = r.id /\ x.by = r.by /\ x.consumed = TRUE /\ x.expires = r.expires
        /\ x.status = r.status
    BY DEF TypeOK, Consume
  <2>2. TicketOf(t) = r.id /\ t.pc = "session" /\ t.user = r.by
    BY DEF TicketOf
  <2>3. Held(c) = None
    BY <1>1 DEF Held, TicketOf, Idle
  <2>4. /\ r.status = "approved" /\ ~r.consumed /\ Goto(c, t)
        /\ requests' = (requests \ {r}) \cup {x}
        /\ UNCHANGED <<users, saved, states, approvals, grants, clock, nextId>>
    BY <1>3 DEF Poll, Approved, Replace, history
  <2> HIDE DEF t, x
  <2>5. \A d \in Clients : task'[d] = IF d = c THEN t ELSE task[d]
    BY <2>4 DEF Goto, TypeOK
  <2>6. \A d \in Clients : Held(d)' = IF d = c THEN r.id ELSE Held(d)
    BY <2>2, <2>5 DEF Held
  <2>7. \A d \in Clients : Held(d) # r.id
    BY <2>4 DEF Tickets, OnePlace
  <2>8. \A g \in grants : g.ticket # r.id
    BY <2>4 DEF Tickets, Granted
  <2>9. Drawn'
    <3>1. nextId \in Nat /\ r.id \in 1..(nextId - 1)
      BY DEF TypeOK, Tickets, Drawn
    <3> QED BY <2>1, <2>4, <2>6, <3>1 DEF Tickets, Drawn
  <2>10. OnePlace'
    BY <2>1, <2>2, <2>4, <2>5, <2>6, <2>7 DEF Tickets, OnePlace
  <2>11. ApproverStays'
    BY <2>1, <2>2, <2>4, <2>5, <2>6, <2>7 DEF Tickets, ApproverStays
  <2>12. Granted'
    BY <2>1, <2>4, <2>6, <2>8 DEF Tickets, Granted
  <2> QED BY <2>9, <2>10, <2>11, <2>12 DEF Tickets
<1> QED BY <1>2, <1>3

\* A new request has a new number; requests that expired long ago are gone.
LEMMA QRStep == ASSUME TypeOK, Tickets, QRStart PROVE Tickets'
<1> DEFINE x == [id |-> nextId, status |-> "pending", by |-> None,
                 expires |-> clock + QRTTL, consumed |-> FALSE]
<1>1. x.id = nextId /\ x.status = "pending"
  OBVIOUS
<1>2. /\ requests' \subseteq requests \cup {x} /\ nextId' = nextId + 1 /\ nextId \in Nat
      /\ UNCHANGED <<users, saved, states, task, clock, approvals, grants>>
  BY DEF QRStart, Fresh, TypeOK, history
<1> HIDE DEF x
<1>3. \A c \in Clients : Held(c)' = Held(c) /\ Held(c) \in Nat
  BY <1>2, HeldType DEF Held, TypeOK
<1>4. Drawn'
  BY <1>1, <1>2, <1>3 DEF Tickets, Drawn, None
<1>5. OnePlace'
  BY <1>1, <1>2, <1>3 DEF Tickets, Drawn, OnePlace
<1>6. ApproverStays'
  BY <1>1, <1>2, <1>3 DEF Tickets, Drawn, ApproverStays
<1>7. Granted'
  BY <1>1, <1>2, <1>3 DEF Tickets, Drawn, Granted
<1> QED BY <1>4, <1>5, <1>6, <1>7 DEF Tickets

\* A new state of a WeChat login has a new number; states that expired are gone.
LEMMA WeChatStep == ASSUME TypeOK, Tickets, WeChatStart PROVE Tickets'
<1> DEFINE x == [id |-> nextId, expires |-> clock + StateTTL]
<1>1. x.id = nextId
  OBVIOUS
<1>2. /\ states' \subseteq states \cup {x} /\ nextId' = nextId + 1 /\ nextId \in Nat
      /\ UNCHANGED <<users, saved, requests, task, clock, approvals, grants>>
  BY DEF WeChatStart, Fresh, TypeOK, history
<1> HIDE DEF x
<1>3. \A c \in Clients : Held(c)' = Held(c) /\ Held(c) \in Nat
  BY <1>2, HeldType DEF Held, TypeOK
<1>4. Drawn'
  BY <1>1, <1>2, <1>3 DEF Tickets, Drawn, None
<1>5. OnePlace'
  BY <1>1, <1>2, <1>3 DEF Tickets, Drawn, OnePlace
<1>6. ApproverStays'
  BY <1>1, <1>2, <1>3 DEF Tickets, Drawn, ApproverStays
<1>7. Granted'
  BY <1>1, <1>2, <1>3 DEF Tickets, Drawn, Granted
<1> QED BY <1>4, <1>5, <1>6, <1>7 DEF Tickets

\* The state of a WeChat login goes to the handler that exchanges it, or is lost.
LEMMA ExchangeStep ==
    ASSUME TypeOK, Tickets, NEW c \in Clients, NEW st \in states, NEW subject \in Subjects,
           Exchange(c, st, subject)
    PROVE  Tickets'
<1>1. PICK t : Goto(c, t) /\ TicketOf(t) \in {None, st.id} /\ t.pc # "session"
  BY DEF Exchange, Idle, TicketOf
<1>2. /\ states' = states \ {st}
      /\ UNCHANGED <<users, saved, requests, approvals, grants, clock, nextId>>
  BY DEF Exchange, history
<1>3. \A d \in Clients : task'[d] = IF d = c THEN t ELSE task[d]
  BY <1>1 DEF Goto, TypeOK
<1>4. \A d \in Clients : Held(d)' = IF d = c THEN TicketOf(t) ELSE Held(d)
  BY <1>3 DEF Held
<1>5. nextId \in Nat
  BY DEF TypeOK
<1>6. Drawn'
  BY <1>1, <1>2, <1>4, <1>5 DEF Tickets, Drawn, None
<1>7. OnePlace'
  BY <1>1, <1>2, <1>3, <1>4 DEF Tickets, Drawn, OnePlace, None
<1>8. ApproverStays'
  BY <1>1, <1>2, <1>3, <1>4 DEF Tickets, Drawn, ApproverStays, None
<1>9. Granted'
  BY <1>1, <1>2, <1>3, <1>4 DEF Tickets, Drawn, Granted, None
<1> QED BY <1>6, <1>7, <1>8, <1>9 DEF Tickets

\* The handler's ticket is turned into a session, and used up.
LEMMA SessionStep ==
    ASSUME TypeOK, Tickets, NEW c \in Clients, StartSession(c)
    PROVE  Tickets'
<1> DEFINE g == [ticket |-> task[c].ticket, token |-> nextId, user |-> task[c].user]
<1>1. /\ g.ticket = task[c].ticket /\ g.user = task[c].user
      /\ Held(c) = task[c].ticket /\ task[c].pc = "session"
  BY DEF StartSession, Held, TicketOf
<1>2. /\ nextId' = nextId + 1 /\ nextId \in Nat
      /\ grants' = grants \/ (grants' = grants \cup {g} /\ Held(c) # None)
      /\ UNCHANGED <<users, saved, requests, states, clock, approvals>>
  BY <1>1 DEF StartSession, Fresh, TypeOK
<1> HIDE DEF g
<1>3. \A d \in Clients : task'[d] = IF d = c THEN Idle ELSE task[d]
  BY DEF StartSession, Goto, TypeOK
<1>4. \A d \in Clients : Held(d)' = IF d = c THEN None ELSE Held(d)
  BY <1>3 DEF Held, TicketOf, Idle
<1>5. \A d \in Clients : Held(d) \in Nat
  BY HeldType DEF TypeOK
<1>6. Drawn'
  BY <1>1, <1>2, <1>4, <1>5 DEF Tickets, Drawn, None
<1>7. OnePlace'
  BY <1>2, <1>3, <1>4 DEF Tickets, Drawn, OnePlace, None
<1>8. ApproverStays'
  BY <1>2, <1>3, <1>4 DEF Tickets, Drawn, ApproverStays, None
<1>9. Granted'
  BY <1>1, <1>2, <1>3, <1>4, <1>5 DEF Tickets, Drawn, Granted, OnePlace, ApproverStays, None
<1> QED BY <1>6, <1>7, <1>8, <1>9 DEF Tickets

----------------------------------------------------------------------------
(* Accounts *)

\* What AccountsAreUnique says of a list of accounts.
Unique(list) ==
    \A i, j \in DOMAIN list :
        /\ list[i].role = "owner" <=> i = 1
        /\ i # j => /\ list[i].name # list[j].name /\ list[i].id # list[j].id
                    /\ list[i].subject = NoBody \/ list[i].subject # list[j].subject

\* Uniqueness list by list.
LEMMA UniqueLists ==
    AccountsAreUnique <=> /\ Unique(users) /\ Unique(saved)
                          /\ \A s \in sessions : s.user \in Ids(users)
BY DEF AccountsAreUnique, Unique

\* What was confirmed, as a set of names.
LEMMA RegisteredNames == RegisteredIsKept <=> registered \subseteq NamesIn(saved)
BY DEF RegisteredIsKept, NamesIn

\* Accounts stay as they are in memory; the file may catch up.  Sessions are opened for
\* accounts that are there, registrations confirmed that are in the file.
LEMMA AccountsStay ==
    ASSUME TypeOK, AccountsAreUnique, FileLags, RegisteredIsKept,
           users' = users, saved' \in {users, saved},
           \A s \in sessions' : s \in sessions \/ s.user \in Ids(users),
           registered' \subseteq registered \cup NamesIn(saved),
           \A c \in Clients : task'[c].pc = "session" => task'[c] = task[c] \/ task'[c].name = NoBody
    PROVE  AccountsAreUnique' /\ FileLags' /\ RegisteredIsKept'
<1>1. Unique(users') /\ Unique(saved')
  BY UniqueLists
<1>2. AccountsAreUnique'
  BY <1>1, UniqueLists DEF AccountsAreUnique, Unique
<1>3. NamesIn(saved) \subseteq NamesIn(saved') /\ NamesIn(saved') \subseteq NamesIn(users')
  BY DEF FileLags
<1>4. FileLags'
  BY <1>3 DEF FileLags
<1>5. registered' \subseteq NamesIn(saved')
  BY <1>3, RegisteredNames
<1>6. RegisteredIsKept'
  BY <1>5 DEF RegisteredIsKept, NamesIn
<1> QED BY <1>2, <1>4, <1>6

\* An account entered under a new number, name and WeChat subject is unique, and the first is the owner.
LEMMA AppendUnique ==
    ASSUME NEW list \in Seq(Account), NEW new \in Account, Unique(list),
           new.role = "owner" <=> list = <<>>,
           \A i \in DOMAIN list : /\ list[i].id # new.id /\ list[i].name # new.name
                                  /\ new.subject = NoBody \/ list[i].subject # new.subject
    PROVE  Unique(Append(list, new))
<1> DEFINE all == Append(list, new)
<1>1. /\ DOMAIN all = DOMAIN list \cup {Len(list) + 1} /\ all[Len(list) + 1] = new
      /\ Len(list) \in Nat /\ DOMAIN list = 1..Len(list)
      /\ \A i \in DOMAIN list : all[i] = list[i]
  BY AppendFields
<1>2. list = <<>> <=> Len(list) = 0
  BY EmptySeq
<1>3. \A i \in DOMAIN all : all[i].role = "owner" <=> i = 1
  <2> HIDE DEF all
  <2>1. CASE list = <<>>
    BY <1>1, <1>2, <2>1
  <2>2. CASE list # <<>>
    BY <1>1, <1>2, <2>2 DEF Unique
  <2> QED BY <2>1, <2>2
<1>4. ASSUME NEW i \in DOMAIN all, NEW j \in DOMAIN all, i # j
      PROVE  /\ all[i].name # all[j].name /\ all[i].id # all[j].id
             /\ all[i].subject = NoBody \/ all[i].subject # all[j].subject
  <2> HIDE DEF all
  <2>1. CASE i \in DOMAIN list /\ j \in DOMAIN list
    BY <1>1, <1>4, <2>1 DEF Unique
  <2>2. CASE i = Len(list) + 1 /\ j \in DOMAIN list
    BY <1>1, <2>2
  <2>3. CASE j = Len(list) + 1 /\ i \in DOMAIN list
    BY <1>1, <2>3
  <2> QED BY <1>1, <1>4, <2>1, <2>2, <2>3
<1> QED BY <1>3, <1>4 DEF Unique

\* The account that a handler creates: its name and its subject are looked up under the lock.
LEMMA CreateStep ==
    ASSUME IInv, NEW c \in Clients, NEW ok \in BOOLEAN, CreateUser(c, ok)
    PROVE  /\ TypeOK' /\ Tickets' /\ AccountsAreUnique' /\ FileLags' /\ RegisteredIsKept'
<1> DEFINE new == [id |-> nextId, name |-> task[c].name, subject |-> task[c].subject,
                   role |-> IF users = <<>> THEN "owner" ELSE "trader"]
           t == IF ok THEN AfterCreate(task[c], nextId) ELSE Idle
<1>1. /\ task[c] \in Task /\ task[c].pc = "create" /\ nextId \in Nat /\ nextId # None
      /\ users \in Seq(Account) /\ saved \in Seq(Account)
  BY DEF CreateUser, IInv, TypeOK, Tickets, Drawn
<1>2. /\ task[c].name \in Names /\ task[c].subject \in Subjects \cup {NoBody} /\ task[c].ticket \in Nat
  BY <1>1, TaskFields
<1>3. /\ new \in Account
      /\ new.id = nextId /\ new.name = task[c].name /\ new.subject = task[c].subject
      /\ new.role = "owner" <=> users = <<>>
  BY <1>1, <1>2 DEF Account
<1>4. /\ ~Taken(task[c]) /\ nextId' = nextId + 1
      /\ users' = Append(users, new) /\ saved' = IF ok THEN Append(users, new) ELSE saved
      /\ Goto(c, t) /\ UNCHANGED <<sessions, requests, states, buckets, clock, registered, approvals, grants>>
  BY DEF CreateUser, Fresh, Save, auth, history
<1>5. /\ t \in Task /\ TicketOf(t) \in {None, Held(c)} /\ task[c].pc # "session"
      /\ t.pc = "session" => ok /\ t.name \in {new.name, NoBody}
  <2>1. CASE ~ok
    BY <1>1, <2>1 DEF Task, Idle, TicketOf
  <2>2. CASE ok /\ task[c].subject = NoBody
    <3>1. t = [pc |-> "session", user |-> nextId, ticket |-> None, name |-> task[c].name]
      BY <2>2 DEF AfterCreate
    <3> QED BY <1>1, <1>2, <1>3, <2>2, <3>1 DEF Task, TicketOf, None
  <2>3. CASE ok /\ task[c].subject # NoBody
    <3>1. t = [pc |-> "mark", user |-> nextId, ticket |-> task[c].ticket]
      BY <2>3 DEF AfterCreate
    <3> QED BY <1>1, <1>2, <2>3, <3>1 DEF Task, TicketOf, Held
  <2> QED BY <2>1, <2>2, <2>3
<1> HIDE DEF new, t
<1>6. /\ users' \in Seq(Account) /\ saved' \in Seq(Account)
      /\ DOMAIN users' = DOMAIN users \cup {Len(users) + 1} /\ users'[Len(users) + 1] = new
      /\ \A i \in DOMAIN users : users'[i] = users[i]
  BY <1>1, <1>3, <1>4, AppendFields
<1>7. TypeOK'
  BY <1>1, <1>4, <1>5, <1>6 DEF IInv, TypeOK, Goto
<1>8. Tickets'
  <2>1. \A i \in DOMAIN users' : users'[i].id \in 1..(nextId' - 1)
    BY <1>1, <1>3, <1>4, <1>6 DEF IInv, Tickets, Drawn, None
  <2>2. \A i \in DOMAIN saved' : saved'[i].id \in 1..(nextId' - 1)
    BY <1>1, <1>4, <2>1 DEF IInv, Tickets, Drawn, None
  <2> QED BY <1>1, <1>4, <1>5, <2>1, <2>2, HandlerStep DEF IInv
<1>9. Unique(users') /\ Unique(saved')
  <2>1. \A i \in DOMAIN users : /\ users[i].id # new.id /\ users[i].name # new.name
                                /\ new.subject = NoBody \/ users[i].subject # new.subject
    BY <1>1, <1>3, <1>4 DEF IInv, Tickets, Drawn, Taken, ByName, BySubject
  <2>2. Unique(Append(users, new))
    BY <1>1, <1>3, <2>1, AppendUnique, UniqueLists DEF IInv
  <2> QED BY <1>4, <2>2, UniqueLists DEF IInv
<1>10. AccountsAreUnique'
  <2>1. \A s \in sessions' : s.user \in Ids(users')
    BY <1>4, <1>6, UniqueLists DEF IInv, Ids
  <2> QED BY <1>9, <2>1 DEF AccountsAreUnique, Unique
<1>11. /\ NamesIn(users) \subseteq NamesIn(users') /\ new.name \in NamesIn(users')
  BY <1>6 DEF NamesIn
<1>12. /\ NamesIn(saved) \subseteq NamesIn(saved') /\ NamesIn(saved') \subseteq NamesIn(users')
       /\ ok => new.name \in NamesIn(saved')
  BY <1>4, <1>11 DEF IInv, FileLags
<1>13. FileLags'
  <2>1. \A d \in Clients : task'[d] = IF d = c THEN t ELSE task[d]
    BY <1>4 DEF Goto, IInv, TypeOK
  <2> QED BY <1>5, <1>12, <2>1 DEF IInv, FileLags
<1>14. RegisteredIsKept'
  <2>1. registered' \subseteq NamesIn(saved')
    BY <1>4, <1>12, RegisteredNames DEF IInv
  <2> QED BY <2>1 DEF RegisteredIsKept, NamesIn
<1> QED BY <1>7, <1>8, <1>10, <1>13, <1>14

----------------------------------------------------------------------------
(* Attempt limits *)

\* An attempt opens a new window or is counted in the one that is open; a login that succeeds
\* ends it.
LEMMA Windows ==
    ASSUME TypeOK, WindowsEnd, clock' \in Nat, clock' >= clock,
           \/ buckets' = buckets
           \/ \E k \in Keys : buckets' = Counted(k)
           \/ \E k \in Keys : buckets' = [buckets EXCEPT ![k] = [count |-> 0, resetAt |-> -1]]
    PROVE  buckets' \in [Keys -> [count : Nat, resetAt : Int]] /\ WindowsEnd'
<1>1. clock \in Nat /\ \A k \in Keys : Window[k] \in Nat
  BY SignInAssumption DEF TypeOK
<1>2. buckets \in [Keys -> [count : Nat, resetAt : Int]]
  BY DEF TypeOK
<1>3. CASE buckets' = buckets
  BY <1>1, <1>2, <1>3 DEF WindowsEnd
<1>4. ASSUME NEW k \in Keys, buckets' = Counted(k)
      PROVE  buckets' \in [Keys -> [count : Nat, resetAt : Int]] /\ WindowsEnd'
  <2>1. CASE Expired(k)
    <3>1. buckets' = [buckets EXCEPT ![k] = [count |-> 1, resetAt |-> clock + Window[k]]]
      BY <1>4, <2>1 DEF Counted
    <3>2. clock + Window[k] \in Int
      BY <1>1
    <3> QED BY <1>1, <1>2, <3>1, <3>2 DEF WindowsEnd
  <2>2. CASE ~Expired(k)
    <3>1. buckets' = [buckets EXCEPT ![k] = [count |-> buckets[k].count + 1, resetAt |-> buckets[k].resetAt]]
      BY <1>4, <2>2 DEF Counted
    <3> QED BY <1>1, <1>2, <3>1 DEF WindowsEnd
  <2> QED BY <2>1, <2>2
<1>5. ASSUME NEW k \in Keys, buckets' = [buckets EXCEPT ![k] = [count |-> 0, resetAt |-> -1]]
      PROVE  buckets' \in [Keys -> [count : Nat, resetAt : Int]] /\ WindowsEnd'
  BY <1>1, <1>2, <1>5 DEF WindowsEnd
<1> QED BY <1>3, <1>4, <1>5

----------------------------------------------------------------------------
(* The steps of the handlers *)

\* Nobody has signed in yet.
LEMMA InitInv == Init => IInv
<1> SUFFICES ASSUME Init PROVE IInv
  OBVIOUS
<1>1. TypeOK
  BY EmptySeq DEF Init, TypeOK, Task
<1>2. \A c \in Clients : Held(c) = None
  BY DEF Init, Held, TicketOf, Idle
<1>3. Tickets
  BY <1>2, EmptySeq DEF Init, Tickets, Drawn, OnePlace, ApproverStays, Granted, None
<1>4. AccountsAreUnique /\ RegisteredIsKept
  BY DEF Init, AccountsAreUnique, RegisteredIsKept
<1>5. FileLags
  BY DEF Init, FileLags, NamesIn, Idle
<1>6. WindowsEnd
  BY SignInAssumption DEF Init, WindowsEnd
<1> QED BY <1>1, <1>3, <1>4, <1>5, <1>6 DEF IInv

\* A handler that goes on with its own ticket or none, on accounts as they are, whatever it does to
\* the attempts that are counted.
LEMMA HandlerInv ==
    ASSUME IInv, NEW c \in Clients, NEW t \in Task, Goto(c, t),
           TicketOf(t) \in {None, Held(c)}, TicketOf(t) # None => task[c].pc # "session",
           t.pc = "session" => t.name = NoBody,
           users' = users, saved' \in {users, saved},
           \/ buckets' = buckets
           \/ \E k \in Keys : buckets' = Counted(k)
           \/ \E k \in Keys : buckets' = [buckets EXCEPT ![k] = [count |-> 0, resetAt |-> -1]],
           UNCHANGED <<sessions, requests, states, clock, nextId, registered, approvals, grants>>
    PROVE  IInv'
<1>1. buckets' \in [Keys -> [count : Nat, resetAt : Int]] /\ WindowsEnd'
  BY Windows DEF IInv, TypeOK
<1>2. task' \in [Clients -> Task] /\ \A d \in Clients : task'[d] = IF d = c THEN t ELSE task[d]
  BY DEF IInv, TypeOK, Goto
<1>3. TypeOK'
  BY <1>1, <1>2 DEF IInv, TypeOK
<1>4. Tickets'
  <2>1. \A list \in {users', saved'} : \A i \in DOMAIN list : list[i].id \in 1..(nextId' - 1)
    BY DEF IInv, Tickets, Drawn
  <2>2. nextId' \in Nat /\ nextId' >= nextId
    BY DEF IInv, TypeOK
  <2> QED BY <2>1, <2>2, HandlerStep DEF IInv
<1>5. AccountsAreUnique' /\ FileLags' /\ RegisteredIsKept'
  BY <1>2, AccountsStay DEF IInv
<1> QED BY <1>1, <1>3, <1>4, <1>5 DEF IInv

\* The handlers one by one.
LEMMA HandlersInv ==
    ASSUME IInv, NEW c \in Clients,
           \/ \E name \in Names : BeginRegister(c, name)
           \/ CreateRefused(c) \/ SessionFails(c) \/ Identified(c) \/ ApproveNotFound(c)
           \/ \E ok \in BOOLEAN : MarkUserLogin(c, ok)
           \/ \E i \in DOMAIN users, right \in BOOLEAN : Login(c, i, right)
           \/ \E s \in sessions, r \in requests : BeginApprove(c, s, r)
    PROVE  IInv'
<1> USE DEF auth, history
<1>1. task[c] \in Task /\ Idle \in Task /\ TicketOf(Idle) = None /\ Idle.pc # "session"
  BY DEF IInv, TypeOK, Task, Idle, TicketOf
<1>2. \A i \in DOMAIN users : users[i].id \in Nat \ {None} /\ users[i] \in Account
  BY ListFields DEF IInv, TypeOK, Tickets, Drawn, None
<1>3. ASSUME NEW name \in Names, BeginRegister(c, name) PROVE IInv'
  <2>1. PICK t \in {Idle, [pc |-> "create", name |-> name, subject |-> NoBody, ticket |-> None]} : Goto(c, t)
    BY <1>3 DEF BeginRegister
  <2>2. t \in Task /\ TicketOf(t) = None /\ t.pc # "session"
    BY <1>1 DEF Task, TicketOf, None
  <2> QED BY <1>3, <2>1, <2>2, HandlerInv DEF BeginRegister, Keys
<1>4. CASE CreateRefused(c) \/ SessionFails(c) \/ ApproveNotFound(c)
  BY <1>1, <1>4, HandlerInv DEF CreateRefused, SessionFails, ApproveNotFound
<1>5. CASE Identified(c)
  <2>1. task[c].pc = "identified" /\ task[c].subject \in Subjects /\ task[c].ticket \in Nat
    BY <1>1, <1>5, TaskFields DEF Identified
  <2>2. Held(c) = task[c].ticket
    BY <2>1 DEF Held, TicketOf
  <2>3. \E t \in Task : Goto(c, t) /\ TicketOf(t) \in {None, Held(c)} /\ t.pc # "session"
    <3>1. CASE BySubject(task[c].subject) # {}
      <4> DEFINE i == CHOOSE i \in BySubject(task[c].subject) : TRUE
                 t == [pc |-> "mark", user |-> users[i].id, ticket |-> task[c].ticket]
      <4>1. i \in DOMAIN users
        BY <3>1 DEF BySubject
      <4>2. users[i].id \in Nat \ {None}
        BY <1>2, <4>1
      <4>3. t \in Task /\ TicketOf(t) = Held(c) /\ t.pc # "session"
        BY <2>1, <2>2, <4>2 DEF Task, TicketOf
      <4>4. Goto(c, t)
        BY <1>5, <3>1 DEF Identified
      <4> QED BY <4>3, <4>4
    <3>2. CASE BySubject(task[c].subject) = {} /\ MayRegister
      <4> DEFINE t == [pc |-> "create", name |-> WeChatName[task[c].subject],
                       subject |-> task[c].subject, ticket |-> task[c].ticket]
      <4>1. t \in Task /\ TicketOf(t) = Held(c) /\ t.pc # "session"
        BY <2>1, <2>2, SignInAssumption DEF Task, TicketOf
      <4>2. Goto(c, t)
        BY <1>5, <3>2 DEF Identified
      <4> QED BY <4>1, <4>2
    <3>3. CASE BySubject(task[c].subject) = {} /\ ~MayRegister
      BY <1>1, <1>5, <3>3 DEF Identified
    <3> QED BY <3>1, <3>2, <3>3
  <2> QED BY <1>5, <2>1, <2>3, HandlerInv DEF Identified
<1>6. ASSUME NEW ok \in BOOLEAN, MarkUserLogin(c, ok) PROVE IInv'
  <2> DEFINE t == [pc |-> "session", user |-> task[c].user, ticket |-> task[c].ticket, name |-> NoBody]
  <2>1. task[c].pc = "mark" /\ task[c].user \in Nat \ {None} /\ task[c].ticket \in Nat
    BY <1>1, <1>6, TaskFields DEF MarkUserLogin
  <2>2. t \in Task /\ TicketOf(t) = Held(c) /\ t.name = NoBody
    BY <2>1 DEF Task, TicketOf, Held
  <2>3. Goto(c, t) /\ users' = users /\ saved' \in {users, saved}
    BY <1>6 DEF MarkUserLogin, Save
  <2> QED BY <1>6, <2>1, <2>2, <2>3, HandlerInv DEF MarkUserLogin
<1>7. ASSUME NEW i \in DOMAIN users, NEW right \in BOOLEAN, Login(c, i, right) PROVE IInv'
  <2>1. CASE right /\ users[i].subject = NoBody
    <3> DEFINE t == [pc |-> "mark", user |-> users[i].id, ticket |-> None]
    <3>1. t \in Task /\ TicketOf(t) = None /\ t.pc # "session"
      BY <1>2 DEF Task, TicketOf, None
    <3> QED BY <1>7, <2>1, <3>1, HandlerInv DEF Login, Keys
  <2>2. CASE ~(right /\ users[i].subject = NoBody)
    <3>1. task[c] = Idle /\ task' = task /\ buckets' = Counted("login")
      BY <1>7, <2>2 DEF Login
    <3>2. Goto(c, Idle)
      BY <3>1 DEF Goto, IInv, TypeOK
    <3> QED BY <1>1, <1>7, <3>1, <3>2, HandlerInv DEF Login, Keys
  <2> QED BY <2>1, <2>2
<1>8. ASSUME NEW s \in sessions, NEW r \in requests, BeginApprove(c, s, r) PROVE IInv'
  <2> DEFINE t == [pc |-> "approve", user |-> s.user, id |-> r.id]
  <2>1. s.user \in Nat \ {None} /\ r.id \in Nat
    BY <1>2, <1>8 DEF BeginApprove, Ids, IInv, TypeOK
  <2>2. t \in Task /\ TicketOf(t) = None /\ t.pc # "session"
    BY <2>1 DEF Task, TicketOf
  <2> QED BY <1>8, <2>2, HandlerInv DEF BeginApprove
<1> QED BY <1>3, <1>4, <1>5, <1>6, <1>7, <1>8

\* The creation of an account touches no attempt limit.
LEMMA CreateInv ==
    ASSUME IInv, NEW c \in Clients, NEW ok \in BOOLEAN, CreateUser(c, ok)
    PROVE  IInv'
<1>1. buckets' = buckets /\ clock' = clock
  BY DEF CreateUser, auth
<1>2. WindowsEnd'
  BY <1>1 DEF IInv, WindowsEnd
<1> QED BY <1>2, CreateStep DEF IInv

\* A session is opened for an account that is there; the registration it answers is in the file.
LEMMA SessionInv ==
    ASSUME IInv, NEW c \in Clients, StartSession(c)
    PROVE  IInv'
<1> DEFINE s  == [token |-> nextId, user |-> task[c].user, expires |-> clock + SessionTTL]
           g  == [ticket |-> task[c].ticket, token |-> nextId, user |-> task[c].user]
<1>1. /\ task[c] \in Task /\ task[c].pc = "session" /\ task[c].user \in Ids(users)
      /\ sessions' = Current(sessions) \cup {s}
      /\ registered' = registered \cup ({task[c].name} \ {NoBody})
      /\ grants' \subseteq grants \cup {g}
      /\ Goto(c, Idle) /\ nextId' = nextId + 1
      /\ UNCHANGED <<users, saved, requests, states, buckets, clock, approvals>>
  BY DEF StartSession, Fresh, IInv, TypeOK
<1>2. task[c].user \in Nat /\ task[c].ticket \in Nat /\ task[c].name \in Names \cup {NoBody}
  BY <1>1, TaskFields
<1>3. nextId \in Nat /\ clock \in Nat /\ SessionTTL \in Nat
  BY SignInAssumption DEF IInv, TypeOK
<1>4. /\ s \in [token : Nat, user : Nat, expires : Nat] /\ s.user = task[c].user
      /\ g \in [ticket : Nat, token : Nat, user : Nat]
  <2>1. clock + SessionTTL \in Nat
    BY <1>3
  <2> QED BY <1>2, <1>3, <2>1
<1> HIDE DEF s, g
<1>5. /\ task' \in [Clients -> Task]
      /\ \A d \in Clients : task'[d] = IF d = c THEN Idle ELSE task[d]
  BY <1>1 DEF Goto, IInv, TypeOK, Task
<1>6. TypeOK'
  <2>1. sessions' \subseteq [token : Nat, user : Nat, expires : Nat]
    BY <1>1, <1>4 DEF IInv, TypeOK, Current
  <2>2. registered' \subseteq Names
    BY <1>1, <1>2 DEF IInv, TypeOK
  <2>3. grants' \subseteq [ticket : Nat, token : Nat, user : Nat]
    BY <1>1, <1>4 DEF IInv, TypeOK
  <2> QED BY <1>1, <1>3, <1>5, <2>1, <2>2, <2>3 DEF IInv, TypeOK
<1>7. Tickets'
  BY SessionStep DEF IInv
<1>8. AccountsAreUnique' /\ FileLags' /\ RegisteredIsKept'
  <2>1. \A x \in sessions' : x \in sessions \/ x.user \in Ids(users)
    BY <1>1, <1>4 DEF Current
  <2>2. registered' \subseteq registered \cup NamesIn(saved)
    BY <1>1 DEF IInv, FileLags
  <2>3. \A d \in Clients : task'[d].pc = "session" => task'[d] = task[d]
    BY <1>5 DEF Idle
  <2> QED BY <1>1, <2>1, <2>2, <2>3, AccountsStay DEF IInv
<1>9. WindowsEnd'
  BY <1>1 DEF IInv, WindowsEnd
<1> QED BY <1>6, <1>7, <1>8, <1>9 DEF IInv

\* Steps on tickets that leave accounts, sessions and what was confirmed alone.
LEMMA TicketInv ==
    ASSUME IInv, TypeOK', Tickets',
           UNCHANGED <<users, saved, sessions, clock, registered>>,
           \/ buckets' = buckets
           \/ \E k \in Keys : buckets' = Counted(k),
           \A c \in Clients : task'[c].pc = "session" => task'[c] = task[c] \/ task'[c].name = NoBody
    PROVE  IInv'
<1>1. WindowsEnd'
  <2>1. clock' \in Nat /\ clock' >= clock
    BY DEF IInv, TypeOK
  <2> QED BY <2>1, Windows DEF IInv
<1>2. AccountsAreUnique' /\ FileLags' /\ RegisteredIsKept'
  BY AccountsStay DEF IInv
<1> QED BY <1>1, <1>2 DEF IInv

\* Approving a request, or being refused.
LEMMA ApproveInv ==
    ASSUME IInv, NEW c \in Clients, NEW r \in requests, Approve(c, r) \/ ApproveRefused(c, r)
    PROVE  IInv'
<1> DEFINE u == task[c].user
<1>1. /\ task[c] \in Task /\ task[c].pc = "approve" /\ Goto(c, Idle)
      /\ UNCHANGED <<users, saved, sessions, states, buckets, clock, nextId, registered, grants>>
  BY DEF Approve, ApproveRefused, IInv, TypeOK, history
<1>2. u \in Nat \ {None} /\ Held(c) = None /\ TicketOf(Idle) = None
  BY <1>1, TaskFields DEF Held, TicketOf, Idle
<1>3. /\ task' \in [Clients -> Task]
      /\ \A d \in Clients : task'[d].pc = "session" => task'[d] = task[d]
  BY <1>1 DEF Goto, IInv, TypeOK, Task, Idle
<1>4. r \in [id : Nat, status : {"pending", "approved", "expired"}, by : Nat,
             expires : Nat, consumed : BOOLEAN]
  BY DEF IInv, TypeOK
<1> HIDE DEF u
<1>5. CASE Approve(c, r)
  <2>1. /\ requests' = (requests \ {r}) \cup {[r EXCEPT !.status = "approved", !.by = u]}
        /\ approvals' = approvals \cup {[ticket |-> r.id, user |-> u]}
    BY <1>5 DEF Approve, Replace, u
  <2>2. /\ [r EXCEPT !.status = "approved", !.by = u]
              \in [id : Nat, status : {"pending", "approved", "expired"}, by : Nat,
                   expires : Nat, consumed : BOOLEAN]
        /\ [ticket |-> r.id, user |-> u] \in [ticket : Nat, user : Nat]
    BY <1>2, <1>4
  <2>3. TypeOK'
    BY <1>1, <1>3, <2>1, <2>2 DEF IInv, TypeOK
  <2> QED BY <1>1, <1>3, <1>5, <2>3, ApproveStep, TicketInv DEF IInv
<1>6. CASE ApproveRefused(c, r) /\ clock > r.expires
  <2>1. Replace(r, [r EXCEPT !.status = "expired"]) /\ approvals' = approvals
    BY <1>6 DEF ApproveRefused, history, IInv, TypeOK
  <2>2. TypeOK'
    BY <1>1, <1>3, <1>4, <2>1 DEF IInv, TypeOK, Replace
  <2>3. Tickets'
    BY <1>1, <1>2, <1>6, <2>1, NoTicket, ExpireStep DEF IInv
  <2> QED BY <1>1, <1>3, <2>2, <2>3, TicketInv
<1>7. CASE ApproveRefused(c, r) /\ ~(clock > r.expires)
  <2>1. requests' = requests /\ approvals' = approvals
    BY <1>7 DEF ApproveRefused, history
  <2>2. Idle \in Task /\ Idle.pc # "session"
    BY DEF Task, Idle
  <2> QED BY <1>1, <1>2, <2>1, <2>2, HandlerInv
<1> QED BY <1>5, <1>6, <1>7

\* Polling a request.
LEMMA PollInv ==
    ASSUME IInv, NEW c \in Clients, NEW r \in requests, Poll(c, r)
    PROVE  IInv'
<1>1. UNCHANGED <<users, saved, sessions, states, buckets, clock, nextId, registered, approvals, grants>>
  BY DEF Poll, history
<1>2. r \in [id : Nat, status : {"pending", "approved", "expired"}, by : Nat,
             expires : Nat, consumed : BOOLEAN]
  BY DEF IInv, TypeOK
<1>3. /\ requests' \subseteq [id : Nat, status : {"pending", "approved", "expired"}, by : Nat,
                              expires : Nat, consumed : BOOLEAN]
      /\ task' \in [Clients -> Task]
      /\ \A d \in Clients : task'[d].pc = "session" => task'[d] = task[d] \/ task'[d].name = NoBody
  <2>1. CASE clock > r.expires
    <3>1. [r EXCEPT !.status = "expired"]
              \in [id : Nat, status : {"pending", "approved", "expired"}, by : Nat,
                   expires : Nat, consumed : BOOLEAN]
      BY <1>2
    <3>2. requests' = (requests \ {r}) \cup {[r EXCEPT !.status = "expired"]} /\ task' = task
      BY <2>1 DEF Poll, Replace
    <3> QED BY <3>1, <3>2 DEF IInv, TypeOK
  <2>2. CASE ~(clock > r.expires)
    <3> DEFINE t == [pc |-> "session", user |-> r.by, ticket |-> r.id, name |-> NoBody]
    <3>1. Goto(c, t) /\ r.status = "approved" /\ requests' = (requests \ {r}) \cup {Consume(r)}
      BY <2>2 DEF Poll, Approved, Replace
    <3>2. r.by # None
      BY <3>1 DEF IInv, Tickets, ApproverStays
    <3>3. t \in Task /\ t.name = NoBody
      BY <1>2, <3>2 DEF Task
    <3> HIDE DEF t
    <3> QED BY <1>2, <3>1, <3>3 DEF Goto, Consume, IInv, TypeOK
  <2> QED BY <2>1, <2>2
<1>4. TypeOK'
  BY <1>1, <1>3 DEF IInv, TypeOK
<1> QED BY <1>1, <1>3, <1>4, PollStep, TicketInv DEF IInv

\* A new request of a device.
LEMMA QRInv == ASSUME IInv, QRStart PROVE IInv'
<1>1. /\ UNCHANGED <<users, saved, sessions, states, task, clock, registered, approvals, grants>>
      /\ nextId' = nextId + 1 /\ buckets' = Counted("qr") /\ "qr" \in Keys
  BY DEF QRStart, Fresh, history, Keys
<1>2. nextId \in Nat /\ clock + QRTTL \in Nat /\ clock' \in Nat /\ clock' >= clock
  BY <1>1, SignInAssumption DEF IInv, TypeOK
<1>3. requests' \subseteq [id : Nat, status : {"pending", "approved", "expired"}, by : Nat,
                           expires : Nat, consumed : BOOLEAN]
  <2> DEFINE x == [id |-> nextId, status |-> "pending", by |-> None,
                   expires |-> clock + QRTTL, consumed |-> FALSE]
  <2>1. x \in [id : Nat, status : {"pending", "approved", "expired"}, by : Nat,
                expires : Nat, consumed : BOOLEAN]
    BY <1>2 DEF None
  <2>2. requests' \subseteq requests \cup {x}
    BY DEF QRStart
  <2> HIDE DEF x
  <2> QED BY <2>1, <2>2 DEF IInv, TypeOK
<1>4. buckets' \in [Keys -> [count : Nat, resetAt : Int]]
  BY <1>1, <1>2, Windows DEF IInv
<1>5. TypeOK'
  BY <1>1, <1>2, <1>3, <1>4 DEF IInv, TypeOK
<1> QED BY <1>1, <1>5, QRStep, TicketInv DEF IInv

\* A new login with WeChat.
LEMMA WeChatInv == ASSUME IInv, WeChatStart PROVE IInv'
<1>1. /\ UNCHANGED <<users, saved, sessions, requests, task, clock, registered, approvals, grants>>
      /\ nextId' = nextId + 1 /\ buckets' = Counted("wechat") /\ "wechat" \in Keys
  BY DEF WeChatStart, Fresh, history, Keys
<1>2. nextId \in Nat /\ clock + StateTTL \in Nat /\ clock' \in Nat /\ clock' >= clock
  BY <1>1, SignInAssumption DEF IInv, TypeOK
<1>3. states' \subseteq [id : Nat, expires : Nat]
  BY <1>2 DEF WeChatStart, IInv, TypeOK
<1>4. buckets' \in [Keys -> [count : Nat, resetAt : Int]]
  BY <1>1, <1>2, Windows DEF IInv
<1>5. TypeOK'
  BY <1>1, <1>2, <1>3, <1>4 DEF IInv, TypeOK
<1> QED BY <1>1, <1>5, WeChatStep, TicketInv DEF IInv

\* The return from WeChat.
LEMMA ExchangeInv ==
    ASSUME IInv, NEW c \in Clients, NEW st \in states, NEW subject \in Subjects,
           Exchange(c, st, subject)
    PROVE  IInv'
<1>1. /\ UNCHANGED <<users, saved, sessions, requests, buckets, clock, nextId, registered, approvals, grants>>
      /\ states' \subseteq states
  BY DEF Exchange, history
<1>2. PICK t \in Task : Goto(c, t) /\ t.pc # "session"
  <2>1. Idle \in Task /\ Idle.pc # "session"
    BY DEF Task, Idle
  <2>2. [pc |-> "identified", subject |-> subject, ticket |-> st.id] \in Task
    BY DEF Task, IInv, TypeOK
  <2> QED BY <2>1, <2>2 DEF Exchange
<1>3. /\ task' \in [Clients -> Task]
      /\ \A d \in Clients : task'[d].pc = "session" => task'[d] = task[d]
  BY <1>2 DEF Goto, IInv, TypeOK
<1>4. TypeOK'
  BY <1>1, <1>3 DEF IInv, TypeOK
<1> QED BY <1>1, <1>3, <1>4, ExchangeStep, TicketInv DEF IInv

\* A session ends, the store is saved, or time passes: no ticket moves.
LEMMA QuietInv ==
    ASSUME IInv, (\E s \in sessions : EndSession(s)) \/ Flush \/ Tick
    PROVE  IInv'
<1>1. /\ users' = users /\ saved' \in {users, saved} /\ sessions' \subseteq sessions
      /\ UNCHANGED <<requests, states, buckets, task, nextId, registered, approvals, grants>>
      /\ clock' \in Nat /\ clock' >= clock
  BY DEF EndSession, Flush, Tick, auth, history, IInv, TypeOK
<1>2. clock \in Nat
  BY DEF IInv, TypeOK
<1>3. TypeOK'
  BY <1>1 DEF IInv, TypeOK
<1>4. Tickets'
  <2>1. \A c \in Clients : Held(c)' = Held(c)
    BY <1>1 DEF Held
  <2>2. Drawn'
    BY <1>1, <2>1 DEF IInv, Tickets, Drawn
  <2>3. OnePlace'
    BY <1>1, <2>1 DEF IInv, Tickets, OnePlace
  <2>4. ApproverStays'
    <3>1. \A r \in requests : r.expires \in Nat
      BY DEF IInv, TypeOK
    <3> QED BY <1>1, <1>2, <2>1, <3>1 DEF IInv, Tickets, ApproverStays
  <2>5. Granted'
    BY <1>1, <2>1 DEF IInv, Tickets, Granted
  <2> QED BY <2>2, <2>3, <2>4, <2>5 DEF Tickets
<1>5. AccountsAreUnique' /\ FileLags' /\ RegisteredIsKept'
  BY <1>1, AccountsStay DEF IInv
<1>6. WindowsEnd'
  BY <1>1, Windows DEF IInv
<1> QED BY <1>3, <1>4, <1>5, <1>6 DEF IInv

\* After a restart there are the accounts of the file, and no session and no ticket.
LEMMA RestartInv == ASSUME IInv, Restart PROVE IInv'
<1>1. /\ users' = saved /\ saved' = saved /\ sessions' = {} /\ requests' = {} /\ states' = {}
      /\ buckets' = [k \in Keys |-> [count |-> 0, resetAt |-> -1]]
      /\ task' = [c \in Clients |-> Idle]
      /\ UNCHANGED <<clock, nextId, registered, approvals, grants>>
  BY DEF Restart, history
<1>2. TypeOK'
  BY <1>1 DEF IInv, TypeOK, Task
<1>3. \A c \in Clients : Held(c)' = None
  BY <1>1 DEF Held, TicketOf, Idle
<1>4. Tickets'
  <2>1. nextId \in Nat
    BY DEF IInv, TypeOK
  <2>2. Drawn'
    BY <1>1, <1>3, <2>1 DEF IInv, Tickets, Drawn, None
  <2>3. OnePlace'
    BY <1>1, <1>3 DEF OnePlace, None
  <2>4. ApproverStays'
    BY <1>1, <1>3 DEF IInv, Tickets, Drawn, ApproverStays, None
  <2>5. Granted'
    BY <1>1, <1>3 DEF IInv, Tickets, Drawn, Granted, None
  <2> QED BY <2>2, <2>3, <2>4, <2>5 DEF Tickets
<1>5. AccountsAreUnique'
  BY <1>1, UniqueLists DEF IInv, AccountsAreUnique, Unique
<1>6. FileLags' /\ RegisteredIsKept'
  BY <1>1 DEF IInv, FileLags, RegisteredIsKept, NamesIn, Idle
<1>7. WindowsEnd'
  <2>1. \A k \in Keys : Window[k] \in Nat
    BY SignInAssumption
  <2>2. clock \in Nat
    BY DEF IInv, TypeOK
  <2> QED BY <1>1, <2>1, <2>2 DEF WindowsEnd
<1> QED BY <1>2, <1>4, <1>5, <1>6, <1>7 DEF IInv

----------------------------------------------------------------------------
(* The theorems *)

\* No step leaves the invariant.
LEMMA NextInv == IInv /\ [Next]_vars => IInv'
<1> SUFFICES ASSUME IInv, [Next]_vars PROVE IInv'
  OBVIOUS
<1>1. ASSUME NEW c \in Clients, Handle(c) PROVE IInv'
  BY <1>1, HandlersInv, CreateInv, SessionInv, ApproveInv, PollInv, ExchangeInv DEF Handle
<1>2. CASE QRStart
  BY <1>2, QRInv
<1>3. CASE WeChatStart
  BY <1>3, WeChatInv
<1>4. CASE (\E s \in sessions : EndSession(s)) \/ Flush \/ Tick
  BY <1>4, QuietInv
<1>5. CASE Restart
  BY <1>5, RestartInv
<1>6. CASE UNCHANGED vars
  <2>1. /\ users' = users /\ saved' = saved /\ sessions' = sessions /\ clock' = clock
        /\ buckets' = buckets /\ registered' = registered /\ task' = task
        /\ UNCHANGED <<requests, states, nextId, approvals, grants>>
    BY <1>6 DEF vars
  <2>2. \A c \in Clients : Held(c)' = Held(c)
    BY <2>1 DEF Held
  <2>3. TypeOK'
    BY <2>1 DEF IInv, TypeOK
  <2>4. Tickets'
    BY <2>1, <2>2 DEF IInv, Tickets, Drawn, OnePlace, ApproverStays, Granted
  <2> QED BY <2>1, <2>3, <2>4, TicketInv
<1> QED BY <1>1, <1>2, <1>3, <1>4, <1>5, <1>6 DEF Next

\* The invariant holds in every state.
LEMMA Invariant == Spec => []IInv
BY InitInv, NextInv, PTL DEF Spec

\* Accounts, sessions, requests, states, limits and what each handler knows are of their types.
THEOREM TypeCorrect == Spec => []TypeOK
<1>1. IInv => TypeOK
  BY DEF IInv
<1> QED BY <1>1, Invariant, PTL

\* However many browsers poll, approve and call back at once, whatever expires and whenever the
\* server restarts, a ticket opens one session, of the account whose approval was confirmed.
THEOREM OneSession == Spec => []OneSessionPerTicket
<1>1. IInv => OneSessionPerTicket
  BY DEF IInv, Tickets, ApproverStays, Granted, OneSessionPerTicket
<1> QED BY <1>1, Invariant, PTL

\* However the handlers that create accounts race and whichever saves fail, names and WeChat subjects
\* are unique, the first account is the only owner, and every session has its account.
THEOREM UniqueAccounts == Spec => []AccountsAreUnique
<1>1. IInv => AccountsAreUnique
  BY DEF IInv
<1> QED BY <1>1, Invariant, PTL

\* A registration that was answered with 201 survives failed saves and restarts.
THEOREM RegistrationsKept == Spec => []RegisteredIsKept
<1>1. IInv => RegisteredIsKept
  BY DEF IInv
<1> QED BY <1>1, Invariant, PTL

\* No series of attempts keeps a limiter closed for longer than its window.
THEOREM LockoutsEnd == Spec => []LockoutEnds
<1>1. IInv => LockoutEnds
  BY DEF IInv, WindowsEnd, LockoutEnds
<1> QED BY <1>1, Invariant, PTL

----------------------------------------------------------------------------
(* SignIn implements OneTimeTickets *)

\* No number is drawn beyond the last, and the account that approves has one.
Numbered == /\ nextId = 1 \/ nextId <= MaxIds
            /\ \A c \in Clients : task[c].pc = "approve" => task[c].user \in 1..(nextId - 1)

\* Numbers drawn stay drawn.
LEMMA Upwards ==
    ASSUME NEW m \in Nat, NEW n \in Nat, m = 1 \/ m <= n
    PROVE  1..(m - 1) \subseteq 1..(n - 1)
OBVIOUS

\* Numbers are drawn one by one; a handler approves for the account of its session.
LEMMA NumberedStep ==
    ASSUME IInv, Numbered, nextId' = nextId \/ Fresh,
           \A c \in Clients : task'[c].pc = "approve" =>
                task'[c] = task[c] \/ task'[c].user \in Ids(users)
    PROVE  Numbered'
<1>1. nextId \in Nat /\ MaxIds \in Nat
  BY SignInAssumption DEF IInv, TypeOK
<1>2. Ids(users) \subseteq 1..(nextId - 1)
  BY DEF Ids, IInv, Tickets, Drawn
<1>3. nextId' \in Nat /\ nextId' >= nextId /\ (nextId' = 1 \/ nextId' <= MaxIds)
  BY <1>1 DEF Numbered, Fresh
<1>4. \A c \in Clients : task'[c].pc = "approve" => task'[c].user \in 1..(nextId - 1)
  BY <1>2 DEF Numbered
<1>5. 1..(nextId - 1) \subseteq 1..(nextId' - 1)
  BY <1>1, <1>3
<1> QED BY <1>3, <1>4, <1>5 DEF Numbered

\* No step leaves it.
LEMMA NumberedInv == IInv /\ Numbered /\ [Next]_vars => Numbered'
<1> SUFFICES ASSUME IInv, Numbered, [Next]_vars PROVE Numbered'
  OBVIOUS
<1> USE DEF auth, history
<1>0. task \in [Clients -> Task]
  BY DEF IInv, TypeOK
<1>1. ASSUME NEW c \in Clients, Handle(c) PROVE Numbered'
  <2>1. nextId' = nextId \/ Fresh
    BY <1>1 DEF Handle, BeginRegister, CreateRefused, StartSession, SessionFails, Identified,
                CreateUser, MarkUserLogin, Login, Approve, ApproveRefused, Poll, BeginApprove,
                ApproveNotFound, Exchange
  <2>2. \E t : /\ Goto(c, t)
               /\ t.pc = "approve" => t = task[c] \/ t.user \in Ids(users)
    <3>1. Idle.pc # "approve"
      BY DEF Idle
    <3>2. CASE \/ CreateRefused(c) \/ StartSession(c) \/ SessionFails(c) \/ ApproveNotFound(c)
               \/ \E r \in requests : Approve(c, r) \/ ApproveRefused(c, r)
      <4>1. Goto(c, Idle)
        BY <3>2 DEF CreateRefused, StartSession, SessionFails, ApproveNotFound, Approve, ApproveRefused
      <4> QED BY <3>1, <4>1
    <3>3. CASE \E name \in Names : BeginRegister(c, name)
      BY <3>1, <3>3 DEF BeginRegister
    <3>4. CASE Identified(c)
      BY <3>1, <3>4 DEF Identified
    <3>5. CASE \E ok \in BOOLEAN : CreateUser(c, ok)
      BY <3>1, <3>5 DEF CreateUser, AfterCreate
    <3>6. CASE \E ok \in BOOLEAN : MarkUserLogin(c, ok)
      BY <3>6 DEF MarkUserLogin
    <3>7. CASE \E i \in DOMAIN users, right \in BOOLEAN : Login(c, i, right)
      <4>1. UNCHANGED task => Goto(c, task[c])
        BY <1>0 DEF Goto
      <4> QED BY <3>7, <4>1 DEF Login
    <3>8. CASE \E r \in requests, s \in sessions : BeginApprove(c, s, r)
      BY <3>8 DEF BeginApprove
    <3>9. CASE \E r \in requests : Poll(c, r)
      <4>1. UNCHANGED task => Goto(c, task[c])
        BY <1>0 DEF Goto
      <4> QED BY <3>9, <4>1 DEF Poll
    <3>10. CASE \E st \in states, subject \in Subjects : Exchange(c, st, subject)
      BY <3>1, <3>10 DEF Exchange
    <3> QED BY <1>1, <3>2, <3>3, <3>4, <3>5, <3>6, <3>7, <3>8, <3>9, <3>10 DEF Handle
  <2>3. \A d \in Clients : task'[d].pc = "approve" =>
             task'[d] = task[d] \/ task'[d].user \in Ids(users)
    BY <1>0, <2>2 DEF Goto
  <2> QED BY <2>1, <2>3, NumberedStep
<1>2. CASE QRStart \/ WeChatStart
  BY <1>2, NumberedStep DEF QRStart, WeChatStart
<1>3. CASE (\E s \in sessions : EndSession(s)) \/ Flush \/ Tick \/ UNCHANGED vars
  <2>1. task' = task /\ nextId' = nextId
    BY <1>3 DEF EndSession, Flush, Tick, vars
  <2> QED BY <2>1, NumberedStep
<1>4. CASE Restart
  BY <1>4, NumberedStep DEF Restart, Idle
<1> QED BY <1>1, <1>2, <1>3, <1>4 DEF Next

\* What was drawn is within the bound of the model.
LEMMA Known ==
    ASSUME IInv, Numbered
    PROVE  1..(nextId - 1) \subseteq 1..(MaxIds - 1)
<1>1. nextId \in Nat /\ MaxIds \in Nat /\ (nextId = 1 \/ nextId <= MaxIds)
  BY SignInAssumption DEF IInv, TypeOK, Numbered
<1> QED BY <1>1, Upwards

\* What one handler's task leaves in the hands of all.
LEMMA InHandStep ==
    ASSUME TypeOK, NEW c \in Clients, NEW t, Goto(c, t)
    PROVE  InHand' = ({Held(d) : d \in Clients \ {c}} \cup {TicketOf(t)}) \ {None}
<1>1. \A d \in Clients : task'[d] = IF d = c THEN t ELSE task[d]
  BY DEF Goto, TypeOK
<1>2. \A d \in Clients : Held(d)' = IF d = c THEN TicketOf(t) ELSE Held(d)
  BY <1>1 DEF Held
<1> QED BY <1>2 DEF InHand

\* A handler that keeps its ticket or drops it, while tickets elsewhere can only expire.
LEMMA LoseStep ==
    ASSUME TypeOK, Numbered', InHand' \subseteq InHand,
           Pending' \subseteq Pending, Ready' \subseteq Ready,
           nextId' = nextId \/ Fresh, UNCHANGED <<approvals, grants>>
    PROVE  Promised!Lose
<1>1. nextId \in Nat /\ MaxIds \in Nat /\ nextId' \in Nat /\ nextId' >= nextId
  BY SignInAssumption DEF TypeOK, Fresh
<1>2. nextId' = 1 \/ nextId' <= MaxIds
  BY DEF Numbered
<1>3. 1..(nextId - 1) \subseteq 1..(nextId' - 1)
  BY <1>1, Upwards
<1>4. 1..(nextId' - 1) \subseteq 1..(MaxIds - 1)
  BY <1>1, <1>2, Upwards
<1> QED BY <1>3, <1>4 DEF Promised!Lose

\* Requests and states stay as they are, and so does what may be done with them.
LEMMA SameOpen ==
    ASSUME UNCHANGED <<requests, states, clock>>
    PROVE  UNCHANGED <<Open, Pending, Ready>>
<1>1. Open' = Open
  BY DEF Open
<1> QED BY <1>1 DEF Pending, Ready

\* The next number is new, and none of the tickets.
LEMMA NewNumber ==
    ASSUME IInv, Fresh
    PROVE  /\ nextId \in 1..(MaxIds - 1)
           /\ nextId \notin 1..(nextId - 1)
           /\ 1..(nextId' - 1) = 1..(nextId - 1) \cup {nextId}
<1>1. nextId \in Nat \ {0} /\ MaxIds \in Nat /\ nextId' = nextId + 1 /\ nextId < MaxIds
  BY SignInAssumption DEF IInv, TypeOK, Tickets, Drawn, Fresh, None
<1> QED BY <1>1

\* Handlers that leave tickets where they are, keep their own or drop it.
LEMMA HandlerLoses ==
    ASSUME IInv, Numbered', NEW c \in Clients,
           \/ \E name \in Names : BeginRegister(c, name)
           \/ CreateRefused(c) \/ SessionFails(c) \/ Identified(c) \/ ApproveNotFound(c)
           \/ \E ok \in BOOLEAN : CreateUser(c, ok) \/ MarkUserLogin(c, ok)
           \/ \E i \in DOMAIN users, right \in BOOLEAN : Login(c, i, right)
           \/ \E s \in sessions, r \in requests : BeginApprove(c, s, r)
    PROVE  Promised!Lose
<1> USE DEF auth, history
<1>1. task \in [Clients -> Task] /\ task[c] \in Task
  BY DEF IInv, TypeOK
<1>2. /\ UNCHANGED <<requests, states, clock, approvals, grants>>
      /\ nextId' = nextId \/ Fresh
  BY DEF BeginRegister, CreateRefused, SessionFails, Identified, ApproveNotFound,
         CreateUser, MarkUserLogin, Login, BeginApprove
<1>3. \E t : Goto(c, t) /\ TicketOf(t) \in {None, Held(c)}
  <2>1. TicketOf(Idle) = None
    BY DEF TicketOf, Idle
  <2>2. CASE CreateRefused(c) \/ SessionFails(c) \/ ApproveNotFound(c)
    BY <2>1, <2>2 DEF CreateRefused, SessionFails, ApproveNotFound
  <2>3. CASE \E name \in Names : BeginRegister(c, name)
    BY <2>1, <2>3 DEF BeginRegister, TicketOf
  <2>4. CASE Identified(c)
    BY <2>1, <2>4 DEF Identified, Held, TicketOf
  <2>5. CASE \E ok \in BOOLEAN : CreateUser(c, ok)
    BY <2>1, <2>5 DEF CreateUser, AfterCreate, Held, TicketOf
  <2>6. CASE \E ok \in BOOLEAN : MarkUserLogin(c, ok)
    BY <2>6 DEF MarkUserLogin, Held, TicketOf
  <2>7. CASE \E i \in DOMAIN users, right \in BOOLEAN : Login(c, i, right)
    <3>1. UNCHANGED task => Goto(c, task[c])
      BY <1>1 DEF Goto
    <3>2. \A i \in DOMAIN users : TicketOf([pc |-> "mark", user |-> users[i].id, ticket |-> None]) = None
      BY DEF TicketOf
    <3> QED BY <2>7, <3>1, <3>2 DEF Login, Held
  <2>8. CASE \E s \in sessions, r \in requests : BeginApprove(c, s, r)
    <3>1. \A s \in sessions, r \in requests :
             TicketOf([pc |-> "approve", user |-> s.user, id |-> r.id]) = None
      BY DEF TicketOf
    <3> QED BY <2>8, <3>1 DEF BeginApprove
  <2> QED BY <2>2, <2>3, <2>4, <2>5, <2>6, <2>7, <2>8
<1>4. InHand' \subseteq InHand
  BY <1>3, InHandStep DEF InHand, IInv
<1> QED BY <1>2, <1>4, SameOpen, LoseStep DEF IInv

\* Time passes, or the server restarts: tickets can only be lost.
LEMMA OthersLose ==
    ASSUME IInv, Numbered', (\E s \in sessions : EndSession(s)) \/ Flush \/ Tick \/ Restart
    PROVE  Promised!Lose
<1> USE DEF auth, history
<1>1. UNCHANGED <<nextId, approvals, grants>>
  BY DEF EndSession, Flush, Tick, Restart
<1>2. clock \in Nat /\ (\A r \in requests : r.expires \in Nat) /\ \A st \in states : st.expires \in Nat
  BY DEF IInv, TypeOK
<1>3. CASE (\E s \in sessions : EndSession(s)) \/ Flush \/ Tick
  <2>1. requests' = requests /\ states' = states /\ task' = task /\ clock' \in {clock, clock + 1}
    BY <1>3 DEF EndSession, Flush, Tick
  <2>2. Open' \subseteq Open
    BY <1>2, <2>1 DEF Open
  <2>3. Pending' \subseteq Pending /\ Ready' \subseteq Ready
    BY <1>2, <2>1, <2>2 DEF Pending, Ready
  <2>4. InHand' = InHand
    BY <2>1 DEF InHand, Held
  <2> QED BY <1>1, <2>3, <2>4, LoseStep DEF IInv
<1>4. CASE Restart
  <2>1. requests' = {} /\ states' = {} /\ \A c \in Clients : task'[c] = Idle
    BY <1>4 DEF Restart
  <2>2. Open' = {}
    BY <2>1 DEF Open
  <2>3. Pending' = {} /\ Ready' = {}
    BY <2>1, <2>2 DEF Pending, Ready
  <2>4. InHand' = {}
    BY <2>1 DEF InHand, Held, TicketOf, Idle
  <2> QED BY <1>1, <2>3, <2>4, LoseStep DEF IInv
<1> QED BY <1>3, <1>4

\* A request that has run out is marked as expired; it was no longer open.
LEMMA ExpireLoses ==
    ASSUME IInv, Numbered', NEW r \in requests, clock > r.expires,
           Replace(r, [r EXCEPT !.status = "expired"]), InHand' \subseteq InHand,
           UNCHANGED <<states, clock, nextId, approvals, grants>>
    PROVE  Promised!Lose
<1> DEFINE x == [r EXCEPT !.status = "expired"]
<1>1. x.expires = r.expires /\ clock \in Nat /\ r.expires \in Nat
  BY DEF IInv, TypeOK
<1> HIDE DEF x
<1>2. requests' = (requests \ {r}) \cup {x}
  BY DEF Replace, x
<1>3. Open' \subseteq Open
  BY <1>1, <1>2 DEF Open
<1>4. Pending' \subseteq Pending /\ Ready' \subseteq Ready
  BY <1>3 DEF Pending, Ready
<1> QED BY <1>4, LoseStep DEF IInv

\* One request is replaced: what becomes of the open ones.
LEMMA ReplaceOpen ==
    ASSUME IInv, NEW r \in Open, NEW x, x.id = r.id, x.expires = r.expires,
           Replace(r, x), UNCHANGED <<clock, states>>
    PROVE  /\ ~x.consumed /\ x.status = "approved" =>
                  Pending' = Pending \ {r.id} /\ Ready' = Ready \cup {r.id}
           /\ x.consumed /\ r.status = "approved" =>
                  r.id \in Ready /\ Pending' = Pending /\ Ready' = Ready \ {r.id}
<1>1. requests' = (requests \ {r}) \cup {x}
  BY DEF Replace
<1>2. \A q \in requests : q.id = r.id => q = r
  BY DEF IInv, Tickets, OnePlace, Open
<1>3. \A st \in states : st.id # r.id
  BY DEF IInv, Tickets, OnePlace, Open
<1>4. ASSUME ~x.consumed, x.status = "approved"
      PROVE  Pending' = Pending \ {r.id} /\ Ready' = Ready \cup {r.id}
  <2>1. Open' = (Open \ {r}) \cup {x}
    BY <1>1, <1>4 DEF Open
  <2>2. Pending' = Pending \ {r.id}
    BY <1>2, <1>4, <2>1 DEF Pending, Open
  <2>3. Ready' = Ready \cup {r.id}
    BY <1>2, <1>4, <2>1 DEF Ready, Open
  <2> QED BY <2>2, <2>3
<1>5. ASSUME x.consumed, r.status = "approved"
      PROVE  r.id \in Ready /\ Pending' = Pending /\ Ready' = Ready \ {r.id}
  <2>1. Open' = Open \ {r}
    BY <1>1, <1>5 DEF Open
  <2>2. Pending' = Pending
    BY <1>2, <1>5, <2>1 DEF Pending, Open
  <2>3. Ready' = Ready \ {r.id} /\ r.id \in Ready
    BY <1>2, <1>3, <1>5, <2>1 DEF Ready, Open
  <2> QED BY <2>2, <2>3
<1> QED BY <1>4, <1>5

\* An approval makes a ticket ready, or finds it so.
LEMMA ApproveApproves ==
    ASSUME IInv, Numbered, Numbered', NEW c \in Clients, NEW r \in requests, Approve(c, r)
    PROVE  \E t, u \in 1..(MaxIds - 1) : Promised!Approve(t, u)
<1> DEFINE u == task[c].user
           x == [r EXCEPT !.status = "approved", !.by = u]
<1>1. r \in Open /\ task[c].pc = "approve"
  BY DEF Approve, Open, IInv, TypeOK
<1>2. /\ x.id = r.id /\ x.expires = r.expires /\ x.consumed = r.consumed /\ x.status = "approved"
  BY DEF IInv, TypeOK
<1>3. /\ Replace(r, x) /\ Goto(c, Idle) /\ UNCHANGED <<states, clock, nextId, grants>>
      /\ approvals' = approvals \cup {[ticket |-> r.id, user |-> u]}
      /\ r.status = "approved" => r.by = u
  BY DEF Approve
<1>4. r.id \in 1..(MaxIds - 1) /\ u \in 1..(MaxIds - 1)
  BY <1>1, Known DEF IInv, Tickets, Drawn, Numbered
<1>5. Promised!Only(u, r.id)
  <2>1. clock \in Nat /\ r.expires \in Nat /\ clock <= r.expires
    BY <1>1 DEF Open, IInv, TypeOK
  <2> QED BY <1>3, <2>1 DEF Promised!Only, IInv, Tickets, ApproverStays
<1>6. r.id \in Pending \cup Ready
  BY <1>1 DEF Pending, Ready
<1>7. InHand' = InHand
  <2>1. Held(c) = None /\ TicketOf(Idle) = None
    BY <1>1 DEF Held, TicketOf, Idle
  <2> QED BY <1>3, <2>1, InHandStep DEF InHand, IInv
<1> HIDE DEF u, x
<1>8. Pending' = Pending \ {r.id} /\ Ready' = Ready \cup {r.id}
  <2>1. ~x.consumed
    BY <1>1, <1>2 DEF Open
  <2> QED BY <1>1, <1>2, <1>3, <2>1, ReplaceOpen
<1>9. Promised!Approve(r.id, u)
  BY <1>3, <1>5, <1>6, <1>7, <1>8 DEF Promised!Approve
<1> QED BY <1>4, <1>9

\* The poll that finds the approval takes the ticket; one that comes too late takes nothing.
LEMMA PollTakes ==
    ASSUME IInv, Numbered, Numbered', NEW c \in Clients, NEW r \in requests, Poll(c, r)
    PROVE  Promised!Lose \/ \E t \in 1..(MaxIds - 1) : Promised!Take(t)
<1>1. UNCHANGED <<states, clock, nextId, approvals, grants>> /\ task[c] = Idle
  BY DEF Poll, history
<1>2. CASE clock > r.expires
  <2>1. task' = task
    BY <1>2 DEF Poll
  <2>2. InHand' = InHand
    BY <2>1 DEF InHand, Held
  <2> QED BY <1>1, <1>2, <2>2, ExpireLoses DEF Poll
<1>3. CASE ~(clock > r.expires)
  <2> DEFINE x == Consume(r)
             t == [pc |-> "session", user |-> r.by, ticket |-> r.id, name |-> NoBody]
  <2>1. r \in Open /\ r.status = "approved" /\ Replace(r, x) /\ Goto(c, t)
    BY <1>3 DEF Poll, Approved, Open, IInv, TypeOK
  <2>2. x.id = r.id /\ x.expires = r.expires /\ x.consumed
    BY DEF Consume, IInv, TypeOK
  <2>3. TicketOf(t) = r.id /\ Held(c) = None
    BY <1>1 DEF TicketOf, Held, Idle
  <2> HIDE DEF x, t
  <2>4. r.id \in 1..(MaxIds - 1)
    BY Known DEF IInv, Tickets, Drawn
  <2>5. r.id \in Ready /\ Pending' = Pending /\ Ready' = Ready \ {r.id}
    BY <1>1, <2>1, <2>2, ReplaceOpen
  <2>6. InHand' = InHand \cup {r.id}
    <3>1. r.id # None
      BY <2>4 DEF None
    <3> QED BY <2>1, <2>3, <3>1, InHandStep DEF InHand, IInv
  <2>7. Promised!Take(r.id)
    BY <1>1, <2>5, <2>6 DEF Promised!Take
  <2> QED BY <2>4, <2>7
<1> QED BY <1>2, <1>3

\* The state of a WeChat login is taken, or lost.
LEMMA ExchangeTakes ==
    ASSUME IInv, Numbered, Numbered', NEW c \in Clients, NEW st \in states, NEW subject \in Subjects,
           Exchange(c, st, subject)
    PROVE  Promised!Lose \/ \E t \in 1..(MaxIds - 1) : Promised!Take(t)
<1>1. /\ UNCHANGED <<requests, clock, nextId, approvals, grants>>
      /\ states' = states \ {st} /\ Held(c) = None
  BY DEF Exchange, history, Held, TicketOf, Idle
<1>2. Open' = Open
  BY <1>1 DEF Open
<1>3. Pending' = Pending
  BY <1>2 DEF Pending
<1>4. CASE Goto(c, Idle)
  <2>1. Ready' \subseteq Ready
    BY <1>1, <1>2 DEF Ready
  <2>2. InHand' \subseteq InHand
    BY <1>4, InHandStep DEF InHand, IInv, TicketOf, Idle
  <2> QED BY <1>1, <1>3, <2>1, <2>2, LoseStep DEF IInv
<1>5. CASE clock <= st.expires /\ Goto(c, [pc |-> "identified", subject |-> subject, ticket |-> st.id])
  <2> DEFINE t == [pc |-> "identified", subject |-> subject, ticket |-> st.id]
  <2>1. TicketOf(t) = st.id /\ Goto(c, t)
    BY <1>5 DEF TicketOf
  <2> HIDE DEF t
  <2>2. st.id \in 1..(MaxIds - 1)
    BY Known DEF IInv, Tickets, Drawn
  <2>3. Ready' = Ready \ {st.id} /\ st.id \in Ready
    <3>1. /\ \A r \in requests : r.id # st.id
          /\ \A other \in states : other.id = st.id => other = st
      BY DEF IInv, Tickets, OnePlace
    <3> QED BY <1>1, <1>2, <1>5, <3>1 DEF Ready, Open
  <2>4. InHand' = InHand \cup {st.id}
    <3>1. st.id # None
      BY <2>2 DEF None
    <3> QED BY <1>1, <2>1, <3>1, InHandStep DEF InHand, IInv
  <2>5. Promised!Take(st.id)
    BY <1>1, <1>3, <2>3, <2>4 DEF Promised!Take
  <2> QED BY <2>2, <2>5
<1> QED BY <1>4, <1>5 DEF Exchange

\* A new request or a new state is a new ticket; what is cleaned up had run out.
LEMMA StartDraws ==
    ASSUME IInv, QRStart \/ WeChatStart
    PROVE  \E t \in 1..(MaxIds - 1) : Promised!Draw(t)
<1>1. Fresh /\ UNCHANGED <<task, clock, approvals, grants>>
  BY DEF QRStart, WeChatStart, history
<1>2. InHand' = InHand
  BY <1>1 DEF InHand, Held
<1>3. /\ clock \in Nat /\ {QRTTL, StateTTL, QRKept} \subseteq Nat
      /\ \A r \in requests : r.expires \in Nat
  BY SignInAssumption DEF IInv, TypeOK
<1>4. CASE QRStart
  <2> DEFINE x == [id |-> nextId, status |-> "pending", by |-> None,
                   expires |-> clock + QRTTL, consumed |-> FALSE]
  <2>1. /\ requests' = {r \in requests : clock <= r.expires + QRKept} \cup {x}
        /\ UNCHANGED <<states, clock>>
    BY <1>4 DEF QRStart
  <2>2. x.id = nextId /\ x.status = "pending" /\ x.expires >= clock /\ ~x.consumed
    BY <1>3
  <2> HIDE DEF x
  <2>3. \A r \in requests : clock <= r.expires => clock <= r.expires + QRKept
    BY <1>3
  <2>4. Open' = Open \cup {x}
    BY <1>3, <2>1, <2>2, <2>3 DEF Open
  <2>5. Pending' = Pending \cup {nextId} /\ Ready' = Ready
    BY <2>1, <2>2, <2>4 DEF Pending, Ready
  <2> QED BY <1>1, <1>2, <2>5, NewNumber DEF Promised!Draw
<1>5. CASE WeChatStart
  <2> DEFINE x == [id |-> nextId, expires |-> clock + StateTTL]
  <2>1. /\ states' = {st \in states : clock <= st.expires} \cup {x}
        /\ UNCHANGED <<requests, clock>>
    BY <1>5 DEF WeChatStart
  <2>2. x.id = nextId /\ clock <= x.expires
    BY <1>3
  <2> HIDE DEF x
  <2>3. Open' = Open
    BY <2>1 DEF Open
  <2>4. Pending' = Pending /\ Ready' = Ready \cup {nextId}
    BY <2>1, <2>2, <2>3 DEF Pending, Ready
  <2> QED BY <1>1, <1>2, <2>4, NewNumber DEF Promised!Draw
<1> QED BY <1>4, <1>5

\* A session is granted for the ticket at hand, to the account that approved it; without one, a
\* number is drawn for it.
LEMMA SessionGrants ==
    ASSUME IInv, Numbered, Numbered', NEW c \in Clients, StartSession(c)
    PROVE  Promised!Lose \/ \E t \in InHand : \E s, u \in 1..(MaxIds - 1) : Promised!Grant(t, s, u)
<1> DEFINE t == task[c].ticket
           u == task[c].user
<1>1. /\ task[c].pc = "session" /\ u \in Ids(users) /\ Goto(c, Idle) /\ Fresh
      /\ UNCHANGED <<requests, states, clock, approvals>>
      /\ grants' = IF t = None THEN grants
                   ELSE grants \cup {[ticket |-> t, token |-> nextId, user |-> u]}
  BY DEF StartSession
<1>2. Held(c) = t
  BY <1>1 DEF Held, TicketOf
<1>3. InHand' = {Held(d) : d \in Clients \ {c}} \ {None}
  BY <1>1, InHandStep DEF IInv, TicketOf, Idle
<1>4. UNCHANGED <<Open, Pending, Ready>>
  BY <1>1, SameOpen
<1>5. CASE t = None
  <2>1. InHand' \subseteq InHand
    BY <1>3 DEF InHand
  <2> QED BY <1>1, <1>4, <1>5, <2>1, LoseStep DEF IInv
<1>6. CASE t # None
  <2>1. InHand' = InHand \ {t} /\ t \in InHand
    <3>1. \A d \in Clients : Held(d) = t => d = c
      BY <1>2, <1>6 DEF IInv, Tickets, OnePlace
    <3> QED BY <1>2, <1>3, <1>6, <3>1 DEF InHand
  <2>2. Promised!Only(u, t)
    BY <1>2 DEF Promised!Only, IInv, Tickets, ApproverStays
  <2>3. u \in 1..(MaxIds - 1)
    BY <1>1, Known DEF IInv, Tickets, Drawn, Ids
  <2>4. Promised!Grant(t, nextId, u)
    BY <1>1, <1>4, <1>6, <2>1, <2>2, NewNumber DEF Promised!Grant
  <2> QED BY <1>1, <2>1, <2>3, <2>4, NewNumber
<1> QED BY <1>5, <1>6

\* A refusal moves no ticket; a request that has run out is marked.
LEMMA RefusalLoses ==
    ASSUME IInv, Numbered', NEW c \in Clients, NEW r \in requests, ApproveRefused(c, r)
    PROVE  Promised!Lose
<1>1. /\ task[c].pc = "approve" /\ Goto(c, Idle)
      /\ UNCHANGED <<states, clock, nextId, approvals, grants>>
  BY DEF ApproveRefused, history
<1>2. InHand' \subseteq InHand
  BY <1>1, InHandStep DEF InHand, IInv, TicketOf, Idle
<1>3. CASE clock > r.expires /\ Replace(r, [r EXCEPT !.status = "expired"])
  BY <1>1, <1>2, <1>3, ExpireLoses
<1>4. CASE UNCHANGED requests
  BY <1>1, <1>2, <1>4, SameOpen, LoseStep DEF IInv
<1> QED BY <1>3, <1>4 DEF ApproveRefused

\* Sign-in by a QR request or by WeChat implements one-time tickets, for any number of browsers,
\* accounts and tickets and any times to live: TicketsAreOneTime (device_qr.go, wechat.go and the
\* handlers that go from a ticket to a session in several locked sections).
THEOREM OneTime == Spec => TicketsAreOneTime
<1>1. Init => Promised!Init /\ Numbered
  <2> SUFFICES ASSUME Init PROVE Promised!Init /\ Numbered
    OBVIOUS
  <2>1. Open = {}
    BY DEF Init, Open
  <2>2. Pending = {} /\ Ready = {}
    BY <2>1 DEF Init, Pending, Ready
  <2>3. InHand = {} /\ Numbered
    BY DEF Init, InHand, Held, TicketOf, Idle, Numbered
  <2>4. 1..(nextId - 1) = {}
    BY DEF Init
  <2> QED BY <2>2, <2>3, <2>4 DEF Init, Promised!Init
<1>2. IInv /\ Numbered /\ Numbered' /\ [Next]_vars => [Promised!Next]_(Promised!vars)
  <2> SUFFICES ASSUME IInv, Numbered, Numbered', [Next]_vars
               PROVE  [Promised!Next]_(Promised!vars)
    OBVIOUS
  <2>1. ASSUME NEW c \in Clients, Handle(c) PROVE Promised!Next
    BY <2>1, HandlerLoses, SessionGrants, ApproveApproves, RefusalLoses, PollTakes, ExchangeTakes
       DEF Handle, Promised!Next
  <2>2. CASE QRStart \/ WeChatStart
    BY <2>2, StartDraws DEF Promised!Next
  <2>3. CASE (\E s \in sessions : EndSession(s)) \/ Flush \/ Tick \/ Restart
    BY <2>3, OthersLose DEF Promised!Next
  <2>4. CASE UNCHANGED vars
    <3>1. UNCHANGED <<requests, states, clock, task, nextId, approvals, grants>>
      BY <2>4 DEF vars
    <3>2. UNCHANGED <<Pending, Ready>>
      BY <3>1, SameOpen
    <3>3. InHand' = InHand
      BY <3>1 DEF InHand, Held
    <3> QED BY <3>1, <3>2, <3>3 DEF Promised!vars
  <2> QED BY <2>1, <2>2, <2>3, <2>4 DEF Next
<1>3. Spec => []Numbered
  <2>1. Init => Numbered
    BY <1>1
  <2> QED BY <2>1, Invariant, NumberedInv, PTL DEF Spec
<1> QED BY <1>1, <1>2, <1>3, Invariant, PTL DEF Spec, TicketsAreOneTime, Promised!Spec
=============================================================================
