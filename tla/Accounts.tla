------------------------------ MODULE Accounts ------------------------------
(***************************************************************************)
(* User accounts: the profile that authentication creates for a user, the  *)
(* trigger that makes the first one an administrator, approval, rejection  *)
(* and deletion by concurrent requests, and the deletion of the login at   *)
(* Supabase, retried by the hourly cleanup_orphaned_auth_users task from   *)
(* the Redis set pending_auth_deletions.                                   *)
(*                                                                         *)
(* A request is one database transaction (read committed): it reads rows   *)
(* as last committed, a row it wrote is locked until it ends, and get_db   *)
(* commits when the handler returns and rolls back when it raises.         *)
(***************************************************************************)
EXTENDS Integers, FiniteSets

CONSTANTS
  User,
  Request,        \* request handlers that may run at a time
  None,           \* no user, no row
  Seeded,         \* users whose profile an operator put into the table, if not empty
  Admins,         \* the administrators among them
  MaxRequests,    \* bound: requests made
  FirstUserAlone, \* nobody else makes a request before there is a profile
  DecisionsAlone, \* decisions on an account do not overlap
  SupabaseFails,  \* a call may fail, or succeed with its answer lost
  RedisFails,     \* a change of the Redis set may fail, which is ignored
  DeletionsCommit \* the commit of a deletion does not fail

ASSUME UsersAssumption == Admins \subseteq Seeded /\ Seeded \subseteq User /\ None \notin User
ASSUME BoundAssumption == MaxRequests \in Nat
ASSUME SwitchAssumption ==
  {FirstUserAlone, DecisionsAlone, SupabaseFails, RedisFails, DeletionsCommit} \subseteq BOOLEAN

VARIABLES
  profile,  \* profiles, as committed
  login,    \* Supabase auth users
  queue,    \* the Redis set pending_auth_deletions
  made,     \* requests so far
  pc, op, caller, target,  \* of a request handler
  row,      \* the caller's profile, as the request has it
  seen,     \* the target's profile, as the handler read it
  wrote,    \* the user whose row the request has written, and locked
  new,      \* the row written, None if deleted
  awaiting, \* users told to await approval by the request that created their profile
  sweep     \* users the cleanup task has yet to retry

handler == <<pc, op, caller, target, row, seen, wrote, new>>
vars    == <<profile, login, queue, made, handler, awaiting, sweep>>

Profile == [approved : BOOLEAN, rejected : BOOLEAN, admin : BOOLEAN]
NoRow   == [approved |-> FALSE, rejected |-> FALSE, admin |-> FALSE]

ASSUME NoneAssumption == None \notin Profile

\* GET /auth/me, POST .../approve and .../reject, DELETE .../accounts/{id} by an
\* administrator, DELETE /auth/account by the user.
Op       == {"me", "approve", "reject", "remove", "leave"}
Decision == {"approve", "reject"}
Deletion == {"remove", "leave"}

Exists(u)  == profile[u] # None
EmptyTable == \A u \in User : ~Exists(u)

Init ==
  /\ \E S \in {{}, Seeded} :
       profile = [u \in User |->
         IF u \in S THEN [approved |-> u \in Admins, rejected |-> FALSE, admin |-> u \in Admins]
                    ELSE None]
  /\ login = User /\ queue = {} /\ made = 0
  /\ pc = [r \in Request |-> "idle"]
  /\ op = [r \in Request |-> "me"]
  /\ caller = [r \in Request |-> None] /\ target = [r \in Request |-> None]
  /\ row = [r \in Request |-> NoRow] /\ seen = [r \in Request |-> NoRow]
  /\ wrote = [r \in Request |-> None] /\ new = [r \in Request |-> None]
  /\ awaiting = {} /\ sweep = {}

Goto(r, l) == pc' = [pc EXCEPT ![r] = l]

\* The request is over.
Finish(r) ==
  /\ Goto(r, "idle")
  /\ op' = [op EXCEPT ![r] = "me"]
  /\ caller' = [caller EXCEPT ![r] = None] /\ target' = [target EXCEPT ![r] = None]
  /\ row' = [row EXCEPT ![r] = NoRow] /\ seen' = [seen EXCEPT ![r] = NoRow]
  /\ wrote' = [wrote EXCEPT ![r] = None] /\ new' = [new EXCEPT ![r] = None]

\* No other request holds the lock on u's row, or on the key of its INSERT.
RowFree(r, u) == \A q \in Request : q # r => wrote[q] # u

-----------------------------------------------------------------------------
(* Authentication: get_or_create_profile and the checks of the profile.    *)

\* The backend checks a token by itself, so one outlives its login.
Begin(r, u, o, t) ==
  /\ pc[r] = "idle" /\ made < MaxRequests
  /\ FirstUserAlone /\ EmptyTable => \A q \in Request : caller[q] \in {u, None}
  /\ DecisionsAlone /\ o \in Decision =>
       \A q \in Request : op[q] \in Decision => target[q] # t
  /\ o \in {"me", "leave"} => t = u
  /\ made' = made + 1
  /\ op' = [op EXCEPT ![r] = o]
  /\ caller' = [caller EXCEPT ![r] = u] /\ target' = [target EXCEPT ![r] = t]
  /\ Goto(r, "profile")
  /\ UNCHANGED <<profile, login, queue, row, seen, wrote, new, awaiting, sweep>>

GetProfile(r) ==
  /\ pc[r] = "profile"
  /\ IF Exists(caller[r])
       THEN row' = [row EXCEPT ![r] = profile[caller[r]]] /\ Goto(r, "check")
       ELSE row' = row /\ Goto(r, "insert")
  /\ UNCHANGED <<profile, login, queue, made, op, caller, target, seen, wrote, new, awaiting, sweep>>

\* Before the row is inserted the trigger counts those that are committed.
Bootstrap(r) ==
  [approved |-> EmptyTable, rejected |-> FALSE, admin |-> EmptyTable]

BeforeInsert(r) ==
  /\ pc[r] = "insert"
  /\ row' = [row EXCEPT ![r] = Bootstrap(r)]
  /\ Goto(r, "flush")
  /\ UNCHANGED <<profile, login, queue, made, op, caller, target, seen, wrote, new, awaiting, sweep>>

\* Mutant: every failure of the INSERT is taken for a conflict.
ConflictAssumed(u) == TRUE

\* The row is there: the INSERT violates the primary key.
Conflict(u) == Exists(u)

\* The INSERT waits for another one of the same key, and fails if that was
\* committed; the row is then read again in a new transaction.
InsertProfile(r) ==
  LET u == caller[r]
  IN /\ pc[r] = "flush" /\ RowFree(r, u)
     /\ IF Conflict(u)
          THEN row' = [row EXCEPT ![r] = profile[u]] /\ UNCHANGED <<wrote, new>>
          ELSE /\ wrote' = [wrote EXCEPT ![r] = u]
               /\ new' = [new EXCEPT ![r] = row[r]]
               /\ row' = row
     /\ Goto(r, "check")
     /\ UNCHANGED <<profile, login, queue, made, op, caller, target, seen, awaiting, sweep>>

Admitted(r) ==
  /\ row[r].approved /\ ~row[r].rejected
  /\ op[r] \in Decision \cup {"remove"} => row[r].admin
  /\ op[r] = "remove" => target[r] # caller[r]

\* The exception passes through get_db, which rolls the transaction back.
Refuse(r) ==
  /\ pc[r] = "check" /\ ~Admitted(r)
  /\ awaiting' = IF wrote[r] # None THEN awaiting \cup {caller[r]} ELSE awaiting
  /\ Finish(r)
  /\ UNCHANGED <<profile, login, queue, made, sweep>>

Admit(r) ==
  /\ pc[r] = "check" /\ Admitted(r)
  /\ Goto(r, IF op[r] = "me" THEN "commit" ELSE "handle")
  /\ UNCHANGED <<profile, login, queue, made, op, caller, target, row, seen, wrote, new, awaiting, sweep>>

-----------------------------------------------------------------------------
(* approve_account, reject_account, delete_user_account.                   *)

\* The target's row, as the transaction sees it.
Current(r) == IF wrote[r] = target[r] THEN new[r] ELSE profile[target[r]]

\* Mutant: administrators can be deleted.
ProtectedFromReject(r) == Current(r) # None /\ op[r] = "reject" /\ Current(r).admin

Protected(r) ==
  Current(r) # None /\ op[r] \in {"reject"} \cup Deletion /\ Current(r).admin

\* Mutant: the login is deleted first.
AfterReadLogin(r) == IF op[r] \in Deletion THEN "supabase" ELSE "write"

AfterRead(r) == "write"

ReadTarget(r) ==
  /\ pc[r] = "handle"
  /\ Current(r) # None /\ ~Protected(r)
  /\ seen' = [seen EXCEPT ![r] = Current(r)]
  /\ Goto(r, AfterRead(r))
  /\ UNCHANGED <<profile, login, queue, made, op, caller, target, row, wrote, new, awaiting, sweep>>

\* "Profile not found", or the target is an administrator.
HandlerRaises(r) ==
  /\ pc[r] = "handle"
  /\ Current(r) = None \/ Protected(r)
  /\ Finish(r)
  /\ UNCHANGED <<profile, login, queue, made, awaiting, sweep>>

\* Mutant: the column of the other decision is not reset.
UpdatedOneColumn(r, p) ==
  [p EXCEPT !.approved = @ \/ op[r] = "approve", !.rejected = @ \/ op[r] = "reject"]

\* The UPDATE sets the columns that differ from what was read, and no others.
Updated(r, p) ==
  LET approve == op[r] = "approve"
  IN [p EXCEPT !.approved = IF seen[r].approved # approve THEN approve ELSE p.approved,
               !.rejected = IF seen[r].rejected = approve THEN ~approve ELSE p.rejected]

UpdateTarget(r) ==
  LET t == target[r]
  IN /\ pc[r] = "write" /\ op[r] \notin Deletion /\ RowFree(r, t)
     /\ Current(r) # None
     /\ wrote' = [wrote EXCEPT ![r] = t]
     /\ new' = [new EXCEPT ![r] = Updated(r, Current(r))]
     /\ Goto(r, "commit")
     /\ UNCHANGED <<profile, login, queue, made, op, caller, target, row, seen, awaiting, sweep>>

\* The row is gone by now: the flush raises StaleDataError.  There is nothing
\* to wait for: a row that another request has yet to commit is not seen.
UpdateRaises(r) ==
  /\ pc[r] = "write" /\ op[r] \notin Deletion
  /\ Current(r) = None
  /\ Finish(r)
  /\ UNCHANGED <<profile, login, queue, made, awaiting, sweep>>

\* A DELETE that finds no row neither waits nor writes, and succeeds as well.
DeleteTarget(r) ==
  /\ pc[r] = "write" /\ op[r] \in Deletion
  /\ \/ Current(r) = None /\ UNCHANGED <<wrote, new>>
     \/ /\ Current(r) # None /\ RowFree(r, target[r])
        /\ wrote' = [wrote EXCEPT ![r] = target[r]]
        /\ new' = [new EXCEPT ![r] = None]
  /\ Goto(r, "supabase")
  /\ UNCHANGED <<profile, login, queue, made, op, caller, target, row, seen, awaiting, sweep>>

\* A call that deletes the login of u: done, not done, or done with the answer
\* lost.  A login that is not there is an error.
CallDone(u)   == u \in login /\ login' = login \ {u}
CallFailed(u) == \/ u \notin login /\ login' = login
                 \/ SupabaseFails /\ login' \in {login, login \ {u}}

\* Mutant: a failed call is given up.
AfterFailureNothing == "commit"

AfterFailure == "queue"

\* An update of the set, or its failure, which is caught and logged.
SetQueue(Q) == queue' = Q \/ (RedisFails /\ queue' = queue)

\* Supabase is called before the transaction is committed.
DeleteLogin(r) ==
  /\ pc[r] = "supabase"
  /\ \/ CallDone(target[r]) /\ Goto(r, "commit")
     \/ CallFailed(target[r]) /\ Goto(r, AfterFailure)
  /\ UNCHANGED <<profile, queue, made, op, caller, target, row, seen, wrote, new, awaiting, sweep>>

QueueLogin(r) ==
  /\ pc[r] = "queue"
  /\ SetQueue(queue \cup {target[r]})
  /\ Goto(r, "commit")
  /\ UNCHANGED <<profile, login, made, op, caller, target, row, seen, wrote, new, awaiting, sweep>>

-----------------------------------------------------------------------------
(* get_db.                                                                 *)

Commit(r) ==
  /\ pc[r] = "commit"
  /\ profile' = [u \in User |-> IF u = wrote[r] THEN new[r] ELSE profile[u]]
  /\ Finish(r)
  /\ UNCHANGED <<login, queue, made, awaiting, sweep>>

CommitRaises(r) ==
  /\ pc[r] = "commit" /\ (DeletionsCommit => op[r] \notin Deletion)
  /\ Finish(r)
  /\ UNCHANGED <<profile, login, queue, made, awaiting, sweep>>

-----------------------------------------------------------------------------
(* cleanup_orphaned_auth_users.                                            *)

\* Beat starts the task; it reads the set once.
StartCleanup ==
  /\ sweep = {} /\ queue # {}
  /\ sweep' = queue
  /\ UNCHANGED <<profile, login, queue, made, handler, awaiting>>

RetryDone(u) ==
  /\ u \in sweep /\ CallDone(u)
  /\ SetQueue(queue \ {u}) /\ sweep' = sweep \ {u}
  /\ UNCHANGED <<profile, made, handler, awaiting>>

RetryFailed(u) ==
  /\ u \in sweep /\ CallFailed(u)
  /\ sweep' = sweep \ {u}
  /\ UNCHANGED <<profile, queue, made, handler, awaiting>>

-----------------------------------------------------------------------------
Handle(r) ==
  \/ GetProfile(r) \/ BeforeInsert(r) \/ InsertProfile(r) \/ Refuse(r) \/ Admit(r)
  \/ ReadTarget(r) \/ HandlerRaises(r) \/ UpdateTarget(r) \/ UpdateRaises(r)
  \/ DeleteTarget(r) \/ DeleteLogin(r) \/ QueueLogin(r) \/ Commit(r)

Cleanup == StartCleanup \/ \E u \in User : RetryDone(u) \/ RetryFailed(u)

Next ==
  \/ \E r \in Request :
       \/ \E u, t \in User, o \in Op : Begin(r, u, o, t)
       \/ Handle(r) \/ CommitRaises(r)
  \/ Cleanup

Spec == Init /\ [][Next]_vars

\* The server runs every request to its end, Beat starts the cleanup again and
\* again, and Supabase does not fail for ever.
Fairness ==
  /\ \A r \in Request : WF_vars(Handle(r))
  /\ WF_vars(Cleanup)
  /\ \A u \in User : SF_vars(RetryDone(u))

FairSpec == Spec /\ Fairness
-----------------------------------------------------------------------------
(* Properties.                                                             *)

\* Type invariant.
TypeOK ==
  /\ profile \in [User -> Profile \cup {None}]
  /\ login \subseteq User /\ queue \subseteq User
  /\ sweep \subseteq User /\ awaiting \subseteq User
  /\ made \in 0 .. MaxRequests
  /\ pc \in [Request -> {"idle", "profile", "insert", "flush", "check", "handle", "write",
                         "supabase", "queue", "commit"}]
  /\ op \in [Request -> Op]
  /\ caller \in [Request -> User \cup {None}] /\ target \in [Request -> User \cup {None}]
  /\ row \in [Request -> Profile] /\ seen \in [Request -> Profile]
  /\ wrote \in [Request -> User \cup {None}]
  /\ new \in [Request -> Profile \cup {None}]

Administrators == {u \in User : Exists(u) /\ profile[u].admin}

\* Once there is an administrator, nobody ceases to be one and nobody else
\* becomes one: the trigger needs an empty table, which only deletions of
\* administrators could leave.
AdministratorsAreFixed ==
  [][Administrators # {} => Administrators' = Administrators]_profile

\* Nobody is approved and rejected at the same time.
DecidedOneWay ==
  \A u \in User : Exists(u) => ~(profile[u].approved /\ profile[u].rejected)

\* A user whose deletion a request has yet to commit.
BeingDeleted(u) == \E r \in Request : wrote[r] = u /\ new[r] = None

\* The login of a user with a profile is neither deleted nor queued for it,
\* but by a request about to delete the profile.
LoginOutlivesProfile ==
  \A u \in User : u \notin login \/ u \in queue => ~Exists(u) \/ BeingDeleted(u)

\* A user whose profile is deleted loses the login, though the call to Supabase
\* may fail and its answer may be lost.
DeletedLosesLogin ==
  \A u \in User : BeingDeleted(u) ~> u \notin login

\* The profile that authentication creates for a user told to await approval
\* is there for an administrator to approve.
CreatedAwaitsApproval ==
  \A u \in awaiting : Exists(u) \/ \E r \in Request : wrote[r] = u
=============================================================================
