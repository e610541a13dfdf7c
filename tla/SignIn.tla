------------------------------- MODULE SignIn -------------------------------
(***************************************************************************)
(* Signing in: accounts (internal/store/store.go), sessions, one-time      *)
(* tickets and attempt limits (internal/auth), and the handlers over them  *)
(* (internal/server).  A ticket is a device QR request or the state of a   *)
(* WeChat login; either may be turned into a session once.                 *)
(*                                                                         *)
(* Accounts live in the store: memory and a file.  Everything else is      *)
(* memory and gone after a restart.  Each locked section is one step.      *)
(* Passwords are left out: a check of one may go either way.  A limiter    *)
(* key stands for one address and user.  No code disables an account.      *)
(***************************************************************************)
EXTENDS Integers, Sequences

CONSTANTS Clients,           \* browsers, one request at a time each
          Names,             \* user names
          Subjects,          \* people as WeChat knows them
          WeChatName,        \* their user names here
          AllowRegistration, \* the setting of that name
          Limit, Window,     \* attempts and minutes per limiter key
          QRTTL, StateTTL, SessionTTL, \* minutes: 3, 10 and a week in the code
          QRKept,            \* minutes an expired QR request is kept: 10
          MaxClock, MaxIds   \* bounds of the model

Keys   == {"login", "register", "qr", "wechat"}
NoBody == ""   \* no WeChat subject, and no approver yet
None   == 0    \* no ticket

ASSUME SignInAssumption ==
    /\ WeChatName \in [Subjects -> Names]
    /\ AllowRegistration \in BOOLEAN
    /\ Limit \in [Keys -> Nat \ {0}] /\ Window \in [Keys -> Nat]
    /\ {QRTTL, StateTTL, SessionTTL, QRKept, MaxClock, MaxIds} \subseteq Nat

VARIABLES users,     \* Store.state.Users
          saved,     \* the accounts in the state file
          sessions,  \* SessionManager.sessions
          requests,  \* DeviceQRManager.requests
          states,    \* WeChatOAuth.states
          buckets,   \* AttemptLimiter.buckets
          task,      \* where the request of each client stands
          clock,     \* minutes
          nextId,    \* source of random ids and tokens
          registered, \* history: names whose registration was answered with 201
          approvals, \* history: (ticket, account) pairs answered as approved
          grants     \* history: (ticket, session, account) of each session opened by a ticket

vars == <<users, saved, sessions, requests, states, buckets, task, clock, nextId,
          registered, approvals, grants>>
auth    == <<sessions, requests, states, buckets>>
history == <<registered, approvals, grants>>

Account == [id : Nat, name : Names, subject : Subjects \cup {NoBody}, role : {"owner", "trader"}]
Idle    == [pc |-> "idle"]

\* Between two locked sections of a handler.
Task == {Idle}
        \cup [pc : {"create"}, name : Names, subject : Subjects \cup {NoBody}, ticket : Nat]
        \cup [pc : {"identified"}, subject : Subjects, ticket : Nat]
        \cup [pc : {"mark"}, user : Nat \ {None}, ticket : Nat]
        \cup [pc : {"session"}, user : Nat \ {None}, ticket : Nat, name : Names \cup {NoBody}]
        \cup [pc : {"approve"}, user : Nat \ {None}, id : Nat]

Goto(c, t) == task' = [task EXCEPT ![c] = t]
Fresh == nextId < MaxIds /\ nextId' = nextId + 1

Init == /\ users = <<>> /\ saved = <<>>
        /\ sessions = {} /\ requests = {} /\ states = {}
        /\ buckets = [k \in Keys |-> [count |-> 0, resetAt |-> -1]]
        /\ task = [c \in Clients |-> Idle]
        /\ clock = 0 /\ nextId = 1
        /\ registered = {} /\ approvals = {} /\ grants = {}

----------------------------------------------------------------------------
(* AttemptLimiter.Allow, as the guard of a handler and what it leaves behind *)

Expired(k) == clock > buckets[k].resetAt
Allow(k)   == Expired(k) \/ buckets[k].count < Limit[k]

\* fault: every attempt moves the end of the window
FaultyCounted(k) ==
    [buckets EXCEPT ![k] = IF Expired(k) THEN [count |-> 1, resetAt |-> clock + Window[k]]
                           ELSE [count |-> @.count + 1, resetAt |-> @.resetAt + Window[k]]]

Counted(k) ==
    [buckets EXCEPT ![k] = IF Expired(k) THEN [count |-> 1, resetAt |-> clock + Window[k]]
                           ELSE [count |-> buckets[k].count + 1, resetAt |-> buckets[k].resetAt]]

----------------------------------------------------------------------------
(* Accounts *)

Save(u, ok) == users' = u /\ saved' = IF ok THEN u ELSE saved

Ids(list) == {list[i].id : i \in DOMAIN list}
ByName(name)       == {i \in DOMAIN users : users[i].name = name}
BySubject(subject) == {i \in DOMAIN users : users[i].subject = subject}

\* Registration is open, or nobody is registered yet.
MayRegister == users = <<>> \/ AllowRegistration

\* apiRegister up to CreateUser; the request may turn out to be malformed.
BeginRegister(c, name) ==
    /\ task[c] = Idle
    /\ MayRegister
    /\ Allow("register")
    /\ buckets' = Counted("register")
    /\ \E t \in {Idle, [pc |-> "create", name |-> name, subject |-> NoBody, ticket |-> None]} : Goto(c, t)
    /\ UNCHANGED <<users, saved, sessions, requests, states, clock, nextId, history>>

\* fault: the names were looked up before the lock was taken
FaultyTaken(t) == FALSE

Taken(t) == ByName(t.name) # {} \/ (t.subject # NoBody /\ BySubject(t.subject) # {})

AfterCreate(t, id) ==
    IF t.subject = NoBody
    THEN [pc |-> "session", user |-> id, ticket |-> None, name |-> t.name]
    ELSE [pc |-> "mark", user |-> id, ticket |-> t.ticket]

\* fault: the answer does not depend on the save
FaultyCreateUser(c, ok) ==
    /\ task[c].pc = "create" /\ ~Taken(task[c])
    /\ Fresh
    /\ LET new == [id |-> nextId, name |-> task[c].name, subject |-> task[c].subject,
                   role |-> IF users = <<>> THEN "owner" ELSE "trader"]
       IN  Save(Append(users, new), ok)
    /\ Goto(c, AfterCreate(task[c], nextId))
    /\ UNCHANGED <<auth, clock, history>>

CreateUser(c, ok) ==
    /\ task[c].pc = "create" /\ ~Taken(task[c])
    /\ Fresh
    /\ LET new == [id |-> nextId, name |-> task[c].name, subject |-> task[c].subject,
                   role |-> IF users = <<>> THEN "owner" ELSE "trader"]
       IN  Save(Append(users, new), ok)
    /\ Goto(c, IF ok THEN AfterCreate(task[c], nextId) ELSE Idle)
    /\ UNCHANGED <<auth, clock, history>>

CreateRefused(c) ==
    /\ task[c].pc = "create" /\ Taken(task[c])
    /\ Goto(c, Idle)
    /\ UNCHANGED <<users, saved, auth, clock, nextId, history>>

\* MarkUserLogin, whose error is ignored.
MarkUserLogin(c, ok) ==
    /\ task[c].pc = "mark"
    /\ Save(users, ok)
    /\ Goto(c, [pc |-> "session", user |-> task[c].user, ticket |-> task[c].ticket,
                name |-> NoBody])
    /\ UNCHANGED <<auth, clock, nextId, history>>

\* RecordAudit and other changes of the store save it as a whole.
Flush == /\ saved' = users
         /\ UNCHANGED <<users, auth, task, clock, nextId, history>>

----------------------------------------------------------------------------
(* Sessions *)

Current(set) == {s \in set : clock <= s.expires}

\* startSession, which drops the sessions that have expired.  A device that signed in
\* by QR code is marked as logged in afterwards (see Flush).
StartSession(c) ==
    /\ task[c].pc = "session"
    /\ task[c].user \in Ids(users)
    /\ Fresh
    /\ sessions' = Current(sessions)
                   \cup {[token |-> nextId, user |-> task[c].user, expires |-> clock + SessionTTL]}
    /\ registered' = registered \cup ({task[c].name} \ {NoBody})
    /\ grants' = IF task[c].ticket = None THEN grants
                 ELSE grants \cup {[ticket |-> task[c].ticket, token |-> nextId, user |-> task[c].user]}
    /\ Goto(c, Idle)
    /\ UNCHANGED <<users, saved, requests, states, buckets, clock, approvals>>

\* No random token could be read, or the account is gone.
SessionFails(c) ==
    /\ task[c].pc = "session"
    /\ Goto(c, Idle)
    /\ UNCHANGED <<users, saved, auth, clock, nextId, history>>

\* apiLogin: a wrong password only counts; a right one clears the count.  An account of
\* WeChat has no password.  Allow, the check and Reset are merged into one step.
Login(c, i, right) ==
    /\ task[c] = Idle
    /\ Allow("login")
    /\ IF right /\ users[i].subject = NoBody
       THEN /\ buckets' = [buckets EXCEPT !["login"] = [count |-> 0, resetAt |-> -1]]
            /\ Goto(c, [pc |-> "mark", user |-> users[i].id, ticket |-> None])
       ELSE buckets' = Counted("login") /\ UNCHANGED task
    /\ UNCHANGED <<users, saved, sessions, requests, states, clock, nextId, history>>

\* Logout, or a visit with a session that has expired.
EndSession(s) ==
    /\ sessions' = sessions \ {s}
    /\ UNCHANGED <<users, saved, requests, states, buckets, task, clock, nextId, history>>

----------------------------------------------------------------------------
(* Device sign-in by QR code *)

QRStart ==
    /\ Allow("qr")
    /\ buckets' = Counted("qr")
    /\ Fresh
    /\ requests' = {r \in requests : clock <= r.expires + QRKept}
                   \cup {[id |-> nextId, status |-> "pending", by |-> None,
                          expires |-> clock + QRTTL, consumed |-> FALSE]}
    /\ UNCHANGED <<users, saved, sessions, states, task, clock, history>>

Replace(r, new) == requests' = (requests \ {r}) \cup {new}

\* withAuth finds the account of the session; qrApprove goes on with it.
BeginApprove(c, s, r) ==
    /\ task[c] = Idle
    /\ clock <= s.expires /\ s.user \in Ids(users)
    /\ Goto(c, [pc |-> "approve", user |-> s.user, id |-> r.id])
    /\ UNCHANGED <<users, saved, auth, clock, nextId, history>>

Approve(c, r) ==
    /\ task[c].pc = "approve" /\ r.id = task[c].id
    /\ clock <= r.expires /\ ~r.consumed
    /\ r.status = "approved" => r.by = task[c].user
    /\ Replace(r, [r EXCEPT !.status = "approved", !.by = task[c].user])
    /\ approvals' = approvals \cup {[ticket |-> r.id, user |-> task[c].user]}
    /\ Goto(c, Idle)
    /\ UNCHANGED <<users, saved, sessions, states, buckets, clock, nextId, registered, grants>>

\* Expired, consumed, or approved by somebody else.
ApproveRefused(c, r) ==
    /\ task[c].pc = "approve" /\ r.id = task[c].id
    /\ \/ clock > r.expires /\ Replace(r, [r EXCEPT !.status = "expired"])
       \/ /\ clock <= r.expires
          /\ r.consumed \/ (r.status = "approved" /\ r.by # task[c].user)
          /\ UNCHANGED requests
    /\ Goto(c, Idle)
    /\ UNCHANGED <<users, saved, sessions, states, buckets, clock, nextId, history>>

\* The request was cleaned up meanwhile.
ApproveNotFound(c) ==
    /\ task[c].pc = "approve" /\ \A r \in requests : r.id # task[c].id
    /\ Goto(c, Idle)
    /\ UNCHANGED <<users, saved, auth, clock, nextId, history>>

\* fault: the request is not marked as consumed
FaultyConsume(r) == r

Consume(r) == [r EXCEPT !.consumed = TRUE]

\* fault: any request that was not used yet will do
FaultyApproved(r) == ~r.consumed

Approved(r) == r.status = "approved" /\ ~r.consumed

\* qrStatus: the first poll that finds the approval goes on to open a session.
Poll(c, r) ==
    /\ task[c] = Idle
    /\ IF clock > r.expires
       THEN Replace(r, [r EXCEPT !.status = "expired"]) /\ UNCHANGED task
       ELSE /\ Approved(r)
            /\ Replace(r, Consume(r))
            /\ Goto(c, [pc |-> "session", user |-> r.by, ticket |-> r.id, name |-> NoBody])
    /\ UNCHANGED <<users, saved, sessions, states, buckets, clock, nextId, history>>

----------------------------------------------------------------------------
(* WeChat *)

WeChatStart ==
    /\ Allow("wechat")
    /\ buckets' = Counted("wechat")
    /\ Fresh
    /\ states' = {st \in states : clock <= st.expires}
                 \cup {[id |-> nextId, expires |-> clock + StateTTL]}
    /\ UNCHANGED <<users, saved, sessions, requests, task, clock, history>>

\* Exchange uses the state up, then asks WeChat who came, which may fail.
Exchange(c, st, subject) ==
    /\ task[c] = Idle
    /\ states' = states \ {st}
    /\ \/ Goto(c, Idle)
       \/ /\ clock <= st.expires
          /\ Goto(c, [pc |-> "identified", subject |-> subject, ticket |-> st.id])
    /\ UNCHANGED <<users, saved, sessions, requests, buckets, clock, nextId, history>>

\* wechatCallback: a known person signs in, a new one is registered if that is open.
Identified(c) ==
    /\ task[c].pc = "identified"
    /\ LET known == BySubject(task[c].subject)
       IN  Goto(c, IF known # {}
                   THEN [pc |-> "mark", user |-> users[CHOOSE i \in known : TRUE].id,
                         ticket |-> task[c].ticket]
                   ELSE IF MayRegister
                   THEN [pc |-> "create", name |-> WeChatName[task[c].subject],
                         subject |-> task[c].subject, ticket |-> task[c].ticket]
                   ELSE Idle)
    /\ UNCHANGED <<users, saved, auth, clock, nextId, history>>

----------------------------------------------------------------------------

Tick == /\ clock < MaxClock /\ clock' = clock + 1
        /\ UNCHANGED <<users, saved, auth, task, nextId, history>>

Restart ==
    /\ users' = saved
    /\ sessions' = {} /\ requests' = {} /\ states' = {}
    /\ buckets' = [k \in Keys |-> [count |-> 0, resetAt |-> -1]]
    /\ task' = [c \in Clients |-> Idle]
    /\ UNCHANGED <<saved, clock, nextId, history>>

Handle(c) ==
    \/ \E name \in Names : BeginRegister(c, name)
    \/ CreateRefused(c) \/ StartSession(c) \/ SessionFails(c) \/ Identified(c)
    \/ \E ok \in BOOLEAN : CreateUser(c, ok) \/ MarkUserLogin(c, ok)
    \/ \E i \in DOMAIN users, right \in BOOLEAN : Login(c, i, right)
    \/ \E r \in requests : \/ Approve(c, r) \/ ApproveRefused(c, r) \/ Poll(c, r)
                           \/ \E s \in sessions : BeginApprove(c, s, r)
    \/ ApproveNotFound(c)
    \/ \E st \in states, subject \in Subjects : Exchange(c, st, subject)

Next == \/ \E c \in Clients : Handle(c)
        \/ \E s \in sessions : EndSession(s)
        \/ Flush \/ QRStart \/ WeChatStart \/ Tick \/ Restart

Spec == Init /\ [][Next]_vars

----------------------------------------------------------------------------
(* Tickets as OneTimeTickets sees them *)

\* The ticket that a handler has used up and not turned into a session yet.
TicketOf(t) == IF t.pc \in {"create", "identified", "mark", "session"} THEN t.ticket ELSE None
Held(c)     == TicketOf(task[c])

Open    == {r \in requests : clock <= r.expires /\ ~r.consumed}
Pending == {r.id : r \in {x \in Open : x.status # "approved"}}
Ready   == {r.id : r \in {x \in Open : x.status = "approved"}}
           \cup {st.id : st \in {x \in states : clock <= x.expires}}
InHand  == {Held(c) : c \in Clients} \ {None}

Promised == INSTANCE OneTimeTickets WITH
    Numbers <- 1..(MaxIds - 1), drawn <- 1..(nextId - 1),
    pending <- Pending, ready <- Ready, taken <- InHand

----------------------------------------------------------------------------
(* Properties *)

TypeOK ==
    /\ users \in Seq(Account) /\ saved \in Seq(Account)
    /\ sessions \subseteq [token : Nat, user : Nat, expires : Nat]
    /\ requests \subseteq [id : Nat, status : {"pending", "approved", "expired"}, by : Nat,
                           expires : Nat, consumed : BOOLEAN]
    /\ states \subseteq [id : Nat, expires : Nat]
    /\ buckets \in [Keys -> [count : Nat, resetAt : Int]]
    /\ task \in [Clients -> Task]
    /\ clock \in Nat /\ nextId \in Nat
    /\ registered \subseteq Names
    /\ approvals \subseteq [ticket : Nat, user : Nat]
    /\ grants \subseteq [ticket : Nat, token : Nat, user : Nat]

\* However many browsers poll or call back at once, a ticket opens one session; for a
\* QR request it is the session of the account whose approval was confirmed, and no
\* second account ever had its approval of the same request confirmed.
OneSessionPerTicket ==
    /\ \A g, h \in grants : g.ticket = h.ticket => g = h
    /\ \A a, b \in approvals : a.ticket = b.ticket => a.user = b.user
    /\ \A g \in grants, a \in approvals : a.ticket = g.ticket => a.user = g.user

\* User names and WeChat subjects are unique and the first account, and only that one,
\* is the owner, in memory and in the file, although names are looked up and accounts
\* created by handlers that race.  No session outlives its account: a restart that forgets
\* an account that could not be saved forgets its sessions as well.
AccountsAreUnique ==
    /\ \A list \in {users, saved} : \A i, j \in DOMAIN list :
          /\ list[i].role = "owner" <=> i = 1
          /\ i # j => /\ list[i].name # list[j].name /\ list[i].id # list[j].id
                      /\ list[i].subject = NoBody \/ list[i].subject # list[j].subject
    /\ \A s \in sessions : s.user \in Ids(users)

\* An account whose registration was confirmed is in the file from then on: no failed
\* save and no restart takes it back.
RegisteredIsKept ==
    \A name \in registered : \E i \in DOMAIN saved : saved[i].name = name

\* Nobody is locked out for longer than a window: however the attempts fall, the
\* limiter lets one through after at most that many minutes.
LockoutEnds == \A k \in Keys : ~Allow(k) => buckets[k].resetAt <= clock + Window[k]

\* Sessions by ticket keep the promise of OneTimeTickets: nothing approves, takes or uses
\* a ticket twice or out of turn, and no session is opened by a ticket of a device that
\* nobody approved, whatever expires, fails or is forgotten on the way.
TicketsAreOneTime == Promised!Spec
=============================================================================
