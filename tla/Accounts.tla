-------------------------------- MODULE Accounts --------------------------------
(* How accounts come to be: seed_admin_if_needed at a start of the backend and  *)
(* create_user of an administrator, in transactions that overlap (auth_service, *)
(* user_repo and the unique index of the table).                                *)

\* An address as somebody spells it; addresses that differ in case only are the
\* same address in two spellings.
Email(Addresses, Spellings) == [address: Addresses, spelling: Spellings \cup {"lower"}]
Lower(email) == [email EXCEPT !.spelling = "lower"]

\* get_by_email compares both sides in lower case.
ByEmail(users, email) == {u \in users : Lower(u.email) = Lower(email)}

\* User(...) of seed_admin_if_needed and of create_user.
NewUser(email, role) == [email |-> Lower(email), role |-> role, is_active |-> TRUE]

Idle == [at |-> "idle"]
With(at, email, role) == [at |-> at, email |-> email, role |-> role]

\* The row a request has flushed.
Row(request) == NewUser(request.email, request.role)
Flushed(requests) == {r \in DOMAIN requests : requests[r].at = "flushed"}

\* The request finds nobody with that address.  A seeding that finds somebody,
\* and a creation, which is answered 409, change nothing.
LookUp(users, requests, r, email, role) ==
    /\ requests[r] = Idle
    /\ ByEmail(users, email) = {}
    /\ requests' = [requests EXCEPT ![r] = With("absent", email, role)]
    /\ users' = users

\* add flushes the row.  The unique index knows the spelling in the row: it
\* refuses a row that is there, and waits for a transaction that has put one there.
Unused(users, requests, row) ==
    /\ \A u \in users : u.email # row.email
    /\ \A r \in Flushed(requests) : Row(requests[r]).email # row.email

Flush(users, requests, r) ==
    /\ requests[r].at = "absent"
    /\ Unused(users, requests, Row(requests[r]))
    /\ requests' = [requests EXCEPT ![r] = With("flushed", requests[r].email, requests[r].role)]
    /\ users' = users

\* The commit of get_db and of the lifespan.
CommitUser(users, requests, r) ==
    /\ requests[r].at = "flushed"
    /\ users' = users \cup {Row(requests[r])}
    /\ requests' = [requests EXCEPT ![r] = Idle]

\* Any other statement or the commit fails, or the index refused: rolled back.
RollbackUser(users, requests, r) ==
    /\ requests[r].at \in {"absent", "flushed"}
    /\ requests' = [requests EXCEPT ![r] = Idle]
    /\ users' = users

ChangeAccounts(users, requests, emails, roles) ==
    \E r \in DOMAIN requests :
       \/ \E email \in emails, role \in roles : LookUp(users, requests, r, email, role)
       \/ Flush(users, requests, r)
       \/ CommitUser(users, requests, r)
       \/ RollbackUser(users, requests, r)

\* The table is new; nothing deletes or changes a user.
AccountsOf(users, requests, Requests, emails, roles) ==
    /\ users = {}
    /\ requests = [r \in Requests |-> Idle]
    /\ [][ChangeAccounts(users, requests, emails, roles)]_<<users, requests>>

-----------------------------------------------------------------------------
\* However an address is spelt, at most one account has it: scalar_one_or_none
\* of get_by_email never meets two.
OneAccount(users, emails) ==
    \A email \in emails : \A u, v \in ByEmail(users, email) : u = v

\* What a request found when it looked may be gone when it flushes; the address
\* of a row that is not committed yet is in no other.
AddressReserved(users, requests) ==
    \A r \in Flushed(requests) :
       /\ ByEmail(users, requests[r].email) = {}
       /\ \A s \in Flushed(requests) \ {r} :
             Lower(requests[s].email) # Lower(requests[r].email)
================================================================================
