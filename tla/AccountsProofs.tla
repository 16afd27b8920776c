--------------------------- MODULE AccountsProofs ---------------------------
(***************************************************************************)
(* Proofs about Accounts: administrators are fixed once there is one, a    *)
(* decision leaves an account approved or rejected and not both, and a     *)
(* login goes only with its profile.                                       *)
(***************************************************************************)
EXTENDS Accounts, TLAPS

-----------------------------------------------------------------------------
(* Types.                                                                  *)

\* A request knows its caller and its target.
Addressed == \A r \in Request : pc[r] # "idle" => caller[r] \in User /\ target[r] \in User

TypeInv == TypeOK /\ Addressed

LEMMA InitTypes == Init => TypeInv
<1> SUFFICES ASSUME Init PROVE TypeInv
  OBVIOUS
<1>1. profile \in [User -> Profile \cup {None}]
  BY DEF Init, Profile
<1>2. NoRow \in Profile
  BY DEF NoRow, Profile
<1> QED
  BY <1>1, <1>2, BoundAssumption DEF Init, TypeInv, TypeOK, Addressed, Op

\* What a request leaves behind when it ends.
LEMMA FinishTypes ==
  ASSUME TypeInv, NEW r \in Request, Finish(r),
         profile' \in [User -> Profile \cup {None}], login' = login, queue' = queue,
         sweep' = sweep, awaiting' \subseteq User, made' = made
  PROVE  TypeInv'
<1>1. NoRow \in Profile
  BY DEF NoRow, Profile
<1> QED
  BY <1>1 DEF TypeInv, TypeOK, Addressed, Finish, Goto, Op

LEMMA CurrentType ==
  ASSUME TypeInv, NEW r \in Request, pc[r] # "idle"
  PROVE  Current(r) \in Profile \cup {None}
  BY DEF TypeInv, TypeOK, Addressed, Current

\* Authentication keeps every variable in its type.
LEMMA AuthenticationTypes ==
  ASSUME TypeInv, NEW r \in Request,
         GetProfile(r) \/ BeforeInsert(r) \/ InsertProfile(r) \/ Refuse(r) \/ Admit(r)
  PROVE  TypeInv'
<1>1. CASE GetProfile(r)
  <2>1. row' \in [Request -> Profile]
    BY <1>1 DEF GetProfile, Exists, TypeInv, TypeOK, Addressed
  <2> QED
    BY <1>1, <2>1 DEF GetProfile, Goto, TypeInv, TypeOK, Addressed
<1>2. CASE BeforeInsert(r)
  <2>1. Bootstrap(r) \in Profile
    BY DEF Bootstrap, EmptyTable, Profile
  <2> QED
    BY <1>2, <2>1 DEF BeforeInsert, Goto, TypeInv, TypeOK, Addressed
<1>3. CASE InsertProfile(r)
  <2>1. caller[r] \in User /\ profile[caller[r]] \in Profile \cup {None} /\ row[r] \in Profile
    BY <1>3 DEF InsertProfile, TypeInv, TypeOK, Addressed
  <2>2. row' \in [Request -> Profile]
    BY <1>3, <2>1 DEF InsertProfile, Conflict, Exists, TypeInv, TypeOK
  <2> QED
    BY <1>3, <2>1, <2>2 DEF InsertProfile, Goto, TypeInv, TypeOK, Addressed
<1>4. CASE Refuse(r)
  <2>1. awaiting' \subseteq User
    BY <1>4 DEF Refuse, TypeInv, TypeOK, Addressed
  <2> QED
    BY <1>4, <2>1, FinishTypes DEF Refuse, TypeInv, TypeOK
<1>5. CASE Admit(r)
  BY <1>5 DEF Admit, Goto, TypeInv, TypeOK, Addressed
<1> QED
  BY <1>1, <1>2, <1>3, <1>4, <1>5

\* So do the handlers.
LEMMA HandlerTypes ==
  ASSUME TypeInv, NEW r \in Request,
         \/ ReadTarget(r) \/ HandlerRaises(r) \/ UpdateTarget(r) \/ UpdateRaises(r)
         \/ DeleteTarget(r) \/ DeleteLogin(r) \/ QueueLogin(r)
  PROVE  TypeInv'
<1>1. CASE ReadTarget(r)
  <2>1. Current(r) \in Profile
    BY <1>1, CurrentType DEF ReadTarget
  <2> QED
    BY <1>1, <2>1 DEF ReadTarget, AfterRead, Goto, TypeInv, TypeOK, Addressed
<1>2. CASE HandlerRaises(r)
  BY <1>2, FinishTypes DEF HandlerRaises, TypeInv, TypeOK
<1>3. CASE UpdateTarget(r)
  <2>1. Current(r) \in Profile /\ seen[r] \in Profile
    BY <1>3, CurrentType DEF UpdateTarget, TypeInv, TypeOK
  <2>2. Updated(r, Current(r)) \in Profile
    BY <2>1 DEF Updated, Profile
  <2> QED
    BY <1>3, <2>2 DEF UpdateTarget, Goto, TypeInv, TypeOK, Addressed
<1>4. CASE UpdateRaises(r)
  BY <1>4, FinishTypes DEF UpdateRaises, TypeInv, TypeOK
<1>5. CASE DeleteTarget(r)
  BY <1>5 DEF DeleteTarget, Goto, TypeInv, TypeOK, Addressed
<1>6. CASE DeleteLogin(r)
  <2>1. login' \subseteq User
    BY <1>6 DEF DeleteLogin, CallDone, CallFailed, TypeInv, TypeOK
  <2> QED
    BY <1>6, <2>1 DEF DeleteLogin, AfterFailure, Goto, TypeInv, TypeOK, Addressed
<1>7. CASE QueueLogin(r)
  <2>1. queue' \subseteq User
    BY <1>7 DEF QueueLogin, SetQueue, TypeInv, TypeOK, Addressed
  <2> QED
    BY <1>7, <2>1 DEF QueueLogin, Goto, TypeInv, TypeOK, Addressed
<1> QED
  BY <1>1, <1>2, <1>3, <1>4, <1>5, <1>6, <1>7

LEMMA TypeStep == TypeInv /\ [Next]_vars => TypeInv'
<1> SUFFICES ASSUME TypeInv, [Next]_vars PROVE TypeInv'
  OBVIOUS
<1>1. ASSUME NEW r \in Request, NEW u \in User, NEW t \in User, NEW o \in Op, Begin(r, u, o, t)
      PROVE TypeInv'
  BY <1>1, BoundAssumption DEF Begin, Goto, TypeInv, TypeOK, Addressed
<1>2. ASSUME NEW r \in Request, Commit(r) \/ CommitRaises(r) PROVE TypeInv'
  <2>1. profile' \in [User -> Profile \cup {None}]
    BY <1>2 DEF Commit, CommitRaises, TypeInv, TypeOK
  <2> QED
    BY <1>2, <2>1, FinishTypes DEF Commit, CommitRaises, TypeInv, TypeOK
<1>3. CASE Cleanup
  BY <1>3 DEF Cleanup, StartCleanup, RetryDone, RetryFailed, CallDone, CallFailed, SetQueue,
              handler, TypeInv, TypeOK, Addressed
<1>4. CASE UNCHANGED vars
  BY <1>4 DEF vars, handler, TypeInv, TypeOK, Addressed
<1> QED
  BY <1>1, <1>2, <1>3, <1>4, AuthenticationTypes, HandlerTypes DEF Next, Handle

LEMMA TypesHold == Spec => []TypeInv
  BY InitTypes, TypeStep, PTL DEF Spec

\* Every variable keeps its type, for every set of users and requests: in
\* particular a request that reads its target's row has one.
THEOREM AccountTypes == Spec => []TypeOK
<1>1. TypeInv => TypeOK
  BY DEF TypeInv
<1> QED
  BY <1>1, TypesHold, PTL
-----------------------------------------------------------------------------
(* The invariant.                                                          *)

\* A row that is written is locked.
Locked == \A q, r \in Request : wrote[q] # None /\ wrote[q] = wrote[r] => q = r

\* While there is no profile, all requests are by one user.
OneCaller ==
  EmptyTable => \A q, r \in Request :
    caller[q] # None /\ caller[r] # None => caller[q] = caller[r]

\* There is an administrator wherever there is somebody approved.
ApprovedByAdmin ==
  \A u \in User : Exists(u) /\ profile[u].approved => Administrators # {}

\* r has inserted the caller's profile, and has not yet committed it ...
Inserting(r) == wrote[r] = caller[r] /\ new[r] # None /\ ~Exists(wrote[r])

\* ... as the first of the table.
Founding(r) == EmptyTable /\ wrote[r] # None /\ Inserting(r) /\ new[r].admin

\* What the trigger decided holds until the row is inserted.
RowFromTrigger(r) ==
  /\ row[r].approved = row[r].admin /\ ~row[r].rejected
  /\ row[r].admin => EmptyTable \/ (Exists(caller[r]) /\ profile[caller[r]].admin)

\* Only an administrator's row is inserted by a request that is not refused.
InsertedRow(r) ==
  /\ new[r].admin => EmptyTable
  /\ pc[r] = "check" => new[r] = row[r] /\ row[r].approved = row[r].admin /\ ~row[r].rejected
  /\ pc[r] # "check" => new[r].admin

\* A row that is updated or deleted keeps administrators what they are.
KeepsAdmin(r) ==
  IF new[r] = None THEN ~profile[wrote[r]].admin ELSE new[r].admin = profile[wrote[r]].admin

\* The DELETE found the row, or there was none, and none has come since.
DeletedOrGone(r) ==
  \/ wrote[r] = target[r] /\ new[r] = None
  \/ wrote[r] = None /\ ~Exists(target[r])

\* The state of a request, by its program counter.
RequestInv(r) ==
  /\ pc[r] = "idle" => caller[r] = None
  /\ pc[r] \in {"idle", "profile", "insert", "flush"} => wrote[r] = None
  /\ pc[r] = "flush" => RowFromTrigger(r)
  /\ wrote[r] # None /\ new[r] # None /\ ~Exists(wrote[r]) => Inserting(r) /\ InsertedRow(r)
  /\ pc[r] \in {"check", "handle", "write"} /\ wrote[r] # None => Inserting(r)
  /\ wrote[r] # None /\ Exists(wrote[r]) => KeepsAdmin(r)
  /\ (pc[r] = "check" /\ row[r].approved)
       \/ pc[r] \in {"handle", "write", "supabase", "queue", "commit"}
     => Administrators # {} \/ Founding(r)
  /\ pc[r] \in {"handle", "write"} => op[r] # "me"
  /\ pc[r] \in {"supabase", "queue"} => op[r] \in Deletion /\ DeletedOrGone(r)
  /\ pc[r] = "write" /\ op[r] \in Deletion =>
       Administrators # {} /\ ~(Exists(target[r]) /\ profile[target[r]].admin)
  /\ pc[r] = "write" /\ Founding(r) => target[r] = caller[r] /\ op[r] = "approve"
  /\ wrote[r] # None /\ new[r] = None =>
       op[r] \in Deletion /\ pc[r] \in {"supabase", "queue", "commit"}

AdminInv ==
  Locked /\ OneCaller /\ ApprovedByAdmin /\ \A r \in Request : RequestInv(r)

\* One decision at a time on an account.
OneDecision ==
  \A q, r \in Request :
    op[q] \in Decision /\ op[r] \in Decision /\ target[q] = target[r] /\ target[q] # None => q = r

\* A decision writes the columns it read.
DecisionInv(r) ==
  /\ ~(row[r].approved /\ row[r].rejected)
  /\ new[r] # None => ~(new[r].approved /\ new[r].rejected)
  /\ wrote[r] # None /\ new[r] # None /\ Exists(wrote[r]) =>
       op[r] \in Decision /\ wrote[r] = target[r]
  /\ pc[r] = "write" /\ op[r] \in Decision /\ Current(r) # None =>
       Current(r).approved = seen[r].approved /\ Current(r).rejected = seen[r].rejected

DecideInv == DecidedOneWay /\ OneDecision /\ \A r \in Request : DecisionInv(r)

\* A login goes, or is queued to go, only while there is an administrator.
LoginInv ==
  \A u \in User : u \notin login \/ u \in queue \/ u \in sweep =>
    Administrators # {} /\ (~Exists(u) \/ BeingDeleted(u))

-----------------------------------------------------------------------------
(* Administrators.                                                         *)

\* A step leaves q's request as it is.
Untouched(q) ==
  /\ pc'[q] = pc[q] /\ op'[q] = op[q] /\ caller'[q] = caller[q] /\ target'[q] = target[q]
  /\ row'[q] = row[q] /\ seen'[q] = seen[q] /\ wrote'[q] = wrote[q] /\ new'[q] = new[q]

LEMMA UntouchedKeeps ==
  ASSUME NEW q \in Request, RequestInv(q), Untouched(q), profile' = profile
  PROVE  RequestInv(q)'
  BY DEF RequestInv, DeletedOrGone, Untouched, RowFromTrigger, Inserting, InsertedRow, KeepsAdmin,
         Founding, EmptyTable, Exists, Administrators

\* A step of one request that commits nothing.
LEMMA LocalKeepsAdminInv ==
  ASSUME TypeInv, AdminInv, NEW r \in Request, profile' = profile,
         \A q \in Request : q # r => Untouched(q),
         RequestInv(r)',
         wrote'[r] \in {wrote[r], None} \/ RowFree(r, wrote'[r]),
         \/ caller'[r] \in {caller[r], None}
         \/ EmptyTable => \A q \in Request : caller[q] \in {caller'[r], None}
  PROVE  AdminInv'
<1>1. ASSUME NEW q \in Request PROVE RequestInv(q)'
  BY UntouchedKeeps DEF AdminInv
<1>2. Locked'
  BY DEF AdminInv, Locked, Untouched, RowFree
<1>3. OneCaller'
  BY DEF AdminInv, OneCaller, Untouched, EmptyTable, Exists
<1>4. ApprovedByAdmin'
  BY DEF AdminInv, ApprovedByAdmin, Exists, Administrators
<1> QED
  BY <1>1, <1>2, <1>3, <1>4 DEF AdminInv

LEMMA OthersUntouched ==
  ASSUME TypeInv, NEW r \in Request,
         \/ GetProfile(r) \/ BeforeInsert(r) \/ InsertProfile(r) \/ Admit(r)
         \/ ReadTarget(r) \/ UpdateTarget(r) \/ DeleteTarget(r)
         \/ DeleteLogin(r) \/ QueueLogin(r) \/ Finish(r)
         \/ \E u, t \in User, o \in Op : Begin(r, u, o, t)
  PROVE  \A q \in Request : q # r => Untouched(q)
  BY DEF TypeInv, TypeOK, Untouched, GetProfile, BeforeInsert, InsertProfile, Admit, ReadTarget,
         UpdateTarget, DeleteTarget, DeleteLogin, QueueLogin, Finish, Begin, Goto

\* A request that ends without a commit leaves nothing.
LEMMA FinishKeepsAdminInv ==
  ASSUME TypeInv, AdminInv, NEW r \in Request, Finish(r), profile' = profile
  PROVE  AdminInv'
<1>1. /\ pc'[r] = "idle" /\ caller'[r] = None /\ wrote'[r] = None /\ new'[r] = None
  BY DEF Finish, Goto, TypeInv, TypeOK
<1>2. RequestInv(r)'
  BY <1>1 DEF RequestInv
<1> QED
  BY <1>1, <1>2, OthersUntouched, LocalKeepsAdminInv

\* Authentication.
LEMMA AuthenticationKeepsAdminInv ==
  ASSUME TypeInv, AdminInv, NEW r \in Request,
         GetProfile(r) \/ BeforeInsert(r) \/ InsertProfile(r) \/ Admit(r)
  PROVE  AdminInv'
<1> USE NoneAssumption
<1>0. RequestInv(r) /\ profile' = profile /\ caller' = caller
  BY DEF AdminInv, GetProfile, BeforeInsert, InsertProfile, Admit
<1>1. CASE GetProfile(r)
  <2>1. wrote'[r] = wrote[r] /\ wrote[r] = None /\ pc'[r] \in {"check", "insert"}
    BY <1>0, <1>1 DEF GetProfile, RequestInv, Goto, TypeInv, TypeOK
  <2>2. pc'[r] = "check" /\ row'[r].approved => Administrators # {}
    BY <1>1, <2>1 DEF GetProfile, AdminInv, ApprovedByAdmin, Goto, TypeInv, TypeOK, Addressed
  <2>3. RequestInv(r)'
    BY <1>0, <2>1, <2>2 DEF RequestInv, Administrators, Exists
  <2> QED
    BY <1>0, <1>1, <2>1, <2>3, OthersUntouched, LocalKeepsAdminInv
<1>2. CASE BeforeInsert(r)
  <2>1. /\ wrote'[r] = wrote[r] /\ wrote[r] = None /\ pc'[r] = "flush"
        /\ row'[r] = Bootstrap(r)
    BY <1>0, <1>2 DEF BeforeInsert, RequestInv, Goto, TypeInv, TypeOK
  <2>2. RowFromTrigger(r)'
    BY <1>0, <2>1 DEF RowFromTrigger, Bootstrap, EmptyTable, Exists
  <2>3. RequestInv(r)'
    BY <1>0, <2>1, <2>2 DEF RequestInv
  <2> QED
    BY <1>0, <1>2, <2>1, <2>3, OthersUntouched, LocalKeepsAdminInv
<1>3. CASE InsertProfile(r)
  <2> DEFINE u == caller[r]
  <2>1. u \in User /\ pc'[r] = "check" /\ wrote[r] = None /\ RowFromTrigger(r) /\ row[r] \in Profile
    BY <1>0, <1>3 DEF InsertProfile, RequestInv, Goto, TypeInv, TypeOK, Addressed
  <2>2. CASE Exists(u)
    <3>1. row'[r] = profile[u] /\ wrote'[r] = None
      BY <1>3, <2>1, <2>2 DEF InsertProfile, Conflict, TypeInv, TypeOK
    <3>2. row'[r].approved => Administrators # {}
      BY <2>1, <2>2, <3>1 DEF AdminInv, ApprovedByAdmin
    <3>3. RequestInv(r)'
      BY <1>0, <2>1, <3>1, <3>2 DEF RequestInv, Administrators, Exists
    <3> QED
      BY <1>0, <1>3, <3>1, <3>3, OthersUntouched, LocalKeepsAdminInv
  <2>3. CASE ~Exists(u)
    <3>1. row'[r] = row[r] /\ wrote'[r] = u /\ new'[r] = row[r] /\ RowFree(r, u)
      BY <1>3, <2>1, <2>3 DEF InsertProfile, Conflict, TypeInv, TypeOK
    <3>2. (Inserting(r) /\ InsertedRow(r))'
      BY <1>0, <2>1, <2>3, <3>1
         DEF Inserting, InsertedRow, RowFromTrigger, Exists, EmptyTable
    <3>3. row'[r].approved => Founding(r)'
      BY <1>0, <2>1, <3>1, <3>2, UsersAssumption DEF Founding, RowFromTrigger, InsertedRow, EmptyTable, Exists
    <3>4. RequestInv(r)'
      BY <1>0, <2>1, <2>3, <3>1, <3>2, <3>3 DEF RequestInv, Exists
    <3> QED
      BY <1>0, <1>3, <3>1, <3>4, OthersUntouched, LocalKeepsAdminInv
  <2> QED
    BY <2>2, <2>3
<1>4. CASE Admit(r)
  <2>1. /\ pc[r] = "check" /\ row[r].approved /\ row'[r] = row[r]
        /\ wrote'[r] = wrote[r] /\ new'[r] = new[r] /\ op'[r] = op[r]
        /\ pc'[r] = IF op[r] = "me" THEN "commit" ELSE "handle"
    BY <1>4 DEF Admit, Admitted, Goto, TypeInv, TypeOK
  <2>2. Administrators' = Administrators /\ Founding(r)' = Founding(r)
    BY <1>0, <2>1 DEF Administrators, Founding, Inserting, EmptyTable, Exists
  <2>3. (Inserting(r) /\ InsertedRow(r))' <=> Inserting(r) /\ (InsertedRow(r)')
    BY <1>0, <2>1 DEF Inserting, Exists
  <2>4. wrote[r] # None => (Inserting(r) /\ InsertedRow(r))'
    BY <1>0, <2>1, <2>2, <2>3 DEF RequestInv, Inserting, InsertedRow, Founding, EmptyTable, Exists
  <2>5. RequestInv(r)'
    BY <1>0, <2>1, <2>2, <2>4 DEF RequestInv, Inserting, Exists
  <2> QED
    BY <1>0, <1>4, <2>1, <2>5, OthersUntouched, LocalKeepsAdminInv
<1> QED
  BY <1>1, <1>2, <1>3, <1>4

\* A row with other columns.
Changed(p, a, b) == [p EXCEPT !.approved = a, !.rejected = b]

LEMMA ChangedRow ==
  ASSUME NEW p \in Profile, NEW a \in BOOLEAN, NEW b \in BOOLEAN
  PROVE  /\ Changed(p, a, b) \in Profile /\ Changed(p, a, b).admin = p.admin
         /\ Changed(p, a, b).approved = a /\ Changed(p, a, b).rejected = b
  BY DEF Profile, Changed

LEMMA UpdatedRow ==
  ASSUME NEW r \in Request, NEW p \in Profile, seen[r] \in Profile
  PROVE  /\ Updated(r, p) # None /\ Updated(r, p).admin = p.admin
         /\ p.approved = seen[r].approved /\ p.rejected = seen[r].rejected =>
              ~(Updated(r, p).approved /\ Updated(r, p).rejected)
<1>1. PICK approve \in BOOLEAN : approve = (op[r] = "approve")
  OBVIOUS
<1>2. PICK a \in BOOLEAN : a = IF seen[r].approved # approve THEN approve ELSE p.approved
  BY DEF Profile
<1>3. PICK b \in BOOLEAN : b = IF seen[r].rejected = approve THEN ~approve ELSE p.rejected
  BY DEF Profile
<1>4. Updated(r, p) = Changed(p, a, b)
  BY Zenon, <1>1, <1>2, <1>3 DEF Updated, Changed
<1>5. /\ Updated(r, p) \in Profile /\ Updated(r, p).admin = p.admin
      /\ Updated(r, p).approved = a /\ Updated(r, p).rejected = b
  BY <1>4, ChangedRow
<1>6. p.approved = seen[r].approved /\ p.rejected = seen[r].rejected => ~(a /\ b)
  BY <1>1, <1>2, <1>3 DEF Profile
<1> QED
  BY <1>5, <1>6, NoneAssumption

\* The handlers, up to the commit.
LEMMA HandlerKeepsAdminInv ==
  ASSUME TypeInv, AdminInv, NEW r \in Request,
         ReadTarget(r) \/ UpdateTarget(r) \/ DeleteTarget(r) \/ DeleteLogin(r) \/ QueueLogin(r)
  PROVE  AdminInv'
<1> USE NoneAssumption
<1> DEFINE t == target[r]
<1>0. /\ RequestInv(r) /\ profile' = profile /\ caller' = caller /\ t \in User
      /\ target' = target /\ op' = op /\ row' = row /\ op[r] \in Op
  BY DEF AdminInv, ReadTarget, UpdateTarget, DeleteTarget, DeleteLogin, QueueLogin,
         TypeInv, TypeOK, Addressed
<1>a. Administrators' = Administrators /\ EmptyTable' = EmptyTable
  BY <1>0 DEF Administrators, EmptyTable, Exists
<1>1. CASE ReadTarget(r)
  <2>1. /\ pc[r] = "handle" /\ pc'[r] = "write" /\ Current(r) # None /\ ~Protected(r)
        /\ wrote'[r] = wrote[r] /\ new'[r] = new[r]
    BY <1>1 DEF ReadTarget, AfterRead, Goto, TypeInv, TypeOK
  <2>2. Founding(r)' = Founding(r) /\ Inserting(r)' = Inserting(r)
    BY <1>0, <1>a, <2>1 DEF Founding, Inserting, Exists
  <2>3. wrote[r] # None => Inserting(r) /\ InsertedRow(r) /\ (InsertedRow(r)') /\ new[r].admin
    BY <1>0, <1>a, <2>1 DEF RequestInv, Inserting, InsertedRow
  <2>4. Founding(r) => t = caller[r] /\ op[r] = "approve"
    <3>1. Founding(r) => wrote[r] = t /\ t = caller[r] /\ Current(r).admin
      BY <1>0, <2>1 DEF Founding, Inserting, Current, EmptyTable, Exists
    <3> QED
      BY <1>0, <2>1, <3>1 DEF RequestInv, Protected, Op, Deletion
  <2>5. op[r] \in Deletion => Administrators # {} /\ ~(Exists(t) /\ profile[t].admin)
    <3> SUFFICES ASSUME op[r] \in Deletion
                 PROVE  Administrators # {} /\ ~(Exists(t) /\ profile[t].admin)
      OBVIOUS
    <3>1. ~Current(r).admin
      BY <2>1 DEF Protected
    <3>2. Current(r) = profile[t]
      BY <1>0, <2>1, <2>3, <3>1, UsersAssumption DEF Current
    <3> QED
      BY <1>0, <2>1, <2>4, <3>1, <3>2 DEF RequestInv, Deletion
  <2>6. RequestInv(r)'
    <3>1. (wrote[r] # None /\ Exists(wrote[r]) => KeepsAdmin(r))'
      BY <1>0, <2>1, <2>3 DEF Inserting, Exists
    <3>2. (wrote[r] # None /\ new[r] = None =>
             op[r] \in Deletion /\ pc[r] \in {"supabase", "queue", "commit"})'
      BY <1>0, <2>1 DEF RequestInv
    <3> QED
      BY <1>0, <1>a, <2>1, <2>2, <2>3, <2>4, <2>5, <3>1, <3>2 DEF RequestInv, Exists
  <2> QED
    BY <1>0, <1>1, <2>1, <2>6, OthersUntouched, LocalKeepsAdminInv
<1>2. CASE UpdateTarget(r)
  <2>1. /\ pc[r] = "write" /\ op[r] \notin Deletion /\ RowFree(r, t) /\ Current(r) # None
        /\ pc'[r] = "commit" /\ wrote'[r] = t /\ new'[r] = Updated(r, Current(r))
    BY <1>2 DEF UpdateTarget, Goto, TypeInv, TypeOK
  <2>2. Current(r) \in Profile /\ seen[r] \in Profile
    BY <2>1, CurrentType DEF TypeInv, TypeOK
  <2>3. new'[r] # None /\ new'[r].admin = Current(r).admin
    BY <2>1, <2>2, UpdatedRow
  <2>4. CASE wrote[r] = None
    <3>1. t # None /\ Current(r) = profile[t] /\ Exists(t)
      BY <1>0, <2>1, <2>4, UsersAssumption DEF Current, Exists
    <3>2. Administrators # {}
      BY <1>0, <2>1, <2>4 DEF RequestInv, Founding
    <3> QED
      <4>1. RequestInv(r)'
        BY <1>0, <1>a, <2>1, <2>3, <3>1, <3>2 DEF RequestInv, KeepsAdmin, Exists
      <4> QED
        BY <1>0, <1>2, <2>1, <4>1, OthersUntouched, LocalKeepsAdminInv
  <2>5. CASE wrote[r] # None
    <3>1. Inserting(r) /\ new[r].admin /\ EmptyTable
      BY <1>0, <2>1, <2>5 DEF RequestInv, Inserting, InsertedRow
    <3>2. t = caller[r] /\ t = wrote[r]
      BY <1>0, <2>1, <2>5, <3>1 DEF RequestInv, Founding, Inserting
    <3>3. new'[r].admin
      BY <2>3, <3>1, <3>2 DEF Current
    <3>4. (Inserting(r) /\ InsertedRow(r) /\ Founding(r))'
      BY <1>0, <1>a, <2>1, <2>3, <2>5, <3>1, <3>2, <3>3
         DEF Inserting, InsertedRow, Founding, Exists
    <3>5. RequestInv(r)'
      BY <1>0, <2>1, <2>3, <3>4 DEF RequestInv, Inserting
    <3> QED
      BY <1>0, <1>2, <2>1, <3>5, OthersUntouched, LocalKeepsAdminInv
  <2> QED
    BY <2>4, <2>5
<1>3. CASE DeleteTarget(r)
  <2>1. pc[r] = "write" /\ op[r] \in Deletion /\ pc'[r] = "supabase"
    BY <1>3 DEF DeleteTarget, Goto, TypeInv, TypeOK
  <2>2. CASE Current(r) = None
    <3>1. wrote'[r] = wrote[r] /\ new'[r] = new[r]
      BY <1>3, <2>2 DEF DeleteTarget
    <3>2. wrote[r] = None
      BY <1>0, <2>1 DEF RequestInv, Inserting, InsertedRow, EmptyTable, Administrators
    <3>3. ~Exists(t) /\ Administrators # {}
      BY <1>0, <2>1, <2>2, <3>2, UsersAssumption DEF Current, Exists, RequestInv
    <3>4. RequestInv(r)'
      BY <1>0, <1>a, <2>1, <3>1, <3>2, <3>3 DEF RequestInv, DeletedOrGone, Exists
    <3> QED
      BY <1>0, <1>3, <3>1, <3>4, OthersUntouched, LocalKeepsAdminInv
  <2>3. CASE Current(r) # None
    <3>1. RowFree(r, t) /\ wrote'[r] = t /\ new'[r] = None
      BY <1>3, <2>3 DEF DeleteTarget, TypeInv, TypeOK
    <3>2. RequestInv(r)'
      BY <1>0, <1>a, <2>1, <3>1 DEF RequestInv, DeletedOrGone, KeepsAdmin, Exists
    <3> QED
      BY <1>0, <1>3, <3>1, <3>2, OthersUntouched, LocalKeepsAdminInv
  <2> QED
    BY <2>2, <2>3
<1>4. CASE DeleteLogin(r) \/ QueueLogin(r)
  <2>1. /\ pc[r] \in {"supabase", "queue"} /\ pc'[r] \in {"queue", "commit"}
        /\ wrote'[r] = wrote[r] /\ new'[r] = new[r]
    BY <1>4 DEF DeleteLogin, QueueLogin, AfterFailure, Goto, TypeInv, TypeOK
  <2>2. Administrators # {} /\ t # None
    BY <1>0, <2>1, UsersAssumption DEF RequestInv, DeletedOrGone, Founding, Inserting
  <2>3. RequestInv(r)'
    BY <1>0, <1>a, <2>1, <2>2 DEF RequestInv, DeletedOrGone, KeepsAdmin, Exists
  <2> QED
    BY <1>0, <1>4, <2>1, <2>3, OthersUntouched, LocalKeepsAdminInv
<1> QED
  BY <1>1, <1>2, <1>3, <1>4

LEMMA BeginKeepsAdminInv ==
  ASSUME FirstUserAlone, TypeInv, AdminInv, NEW r \in Request,
         NEW u \in User, NEW t \in User, NEW o \in Op, Begin(r, u, o, t)
  PROVE  AdminInv'
<1>1. /\ pc[r] = "idle" /\ pc'[r] = "profile" /\ caller'[r] = u /\ profile' = profile
      /\ wrote' = wrote /\ new' = new
      /\ EmptyTable => \A q \in Request : caller[q] \in {caller'[r], None}
  BY DEF Begin, Goto, TypeInv, TypeOK
<1>2. RequestInv(r)'
  BY <1>1 DEF AdminInv, RequestInv
<1> QED
  BY <1>1, <1>2, OthersUntouched, LocalKeepsAdminInv

\* A commit leaves the administrators, or makes the first.
LEMMA CommitAdministrators ==
  ASSUME TypeInv, AdminInv, NEW r \in Request, Commit(r), wrote[r] # None
  PROVE  /\ Administrators' # {}
         /\ Administrators # {} => Administrators' = Administrators
<1> USE NoneAssumption
<1> DEFINE u == wrote[r]
<1>1. /\ RequestInv(r) /\ pc[r] = "commit" /\ u \in User
      /\ profile' = [v \in User |-> IF v = u THEN new[r] ELSE profile[v]]
  BY DEF AdminInv, Commit, TypeInv, TypeOK
<1>2. CASE Administrators = {}
  <2>1. EmptyTable /\ new[r] # None /\ new[r].admin
    BY <1>1, <1>2 DEF RequestInv, Founding, Inserting
  <2> QED
    BY <1>1, <1>2, <2>1 DEF Administrators, Exists
<1>3. CASE Administrators # {}
  <2>1. ~EmptyTable
    BY <1>3 DEF Administrators, EmptyTable
  <2>2. Exists(u) => KeepsAdmin(r)
    BY <1>1 DEF RequestInv
  <2>3. ~Exists(u) => new[r] = None
    BY <1>1, <2>1 DEF RequestInv, InsertedRow
  <2>4. u \in Administrators' <=> u \in Administrators
    BY <1>1, <2>2, <2>3 DEF KeepsAdmin, Administrators, Exists
  <2>5. \A v \in User : v # u => (v \in Administrators' <=> v \in Administrators)
    BY <1>1 DEF Administrators, Exists
  <2>6. Administrators' \subseteq User /\ Administrators \subseteq User
    BY DEF Administrators
  <2> QED
    BY <1>1, <1>3, <2>4, <2>5, <2>6
<1> QED
  BY <1>2, <1>3

LEMMA CommitKeepsAdminInv ==
  ASSUME TypeInv, AdminInv, NEW r \in Request, Commit(r)
  PROVE  AdminInv'
<1> USE NoneAssumption
<1> DEFINE u == wrote[r]
<1>1. /\ RequestInv(r) /\ pc[r] = "commit" /\ Finish(r)
      /\ profile' = [v \in User |-> IF v = u THEN new[r] ELSE profile[v]]
  BY DEF AdminInv, Commit
<1>2. CASE u = None
  <2>1. profile' = profile
    BY <1>1, <1>2, UsersAssumption DEF TypeInv, TypeOK
  <2> QED
    BY <1>1, <2>1, FinishKeepsAdminInv
<1>3. CASE u # None
  <2>1. /\ Administrators' # {}
        /\ Administrators # {} => Administrators' = Administrators
    BY <1>3, CommitAdministrators
  <2>2. ~EmptyTable'
    BY <2>1 DEF Administrators, EmptyTable
  <2>3. /\ u \in User
        /\ EmptyTable => Inserting(r) /\ new[r] # None /\ new[r].admin
    <3>1. EmptyTable => Administrators = {}
      BY DEF EmptyTable, Administrators
    <3> QED
      BY <1>1, <1>3, <3>1 DEF RequestInv, Founding, Inserting, TypeInv, TypeOK
  <2>4. ASSUME NEW q \in Request PROVE RequestInv(q)'
    <3>1. CASE q = r
      <4>1. pc'[r] = "idle" /\ caller'[r] = None /\ wrote'[r] = None
        BY <1>1 DEF Finish, Goto, TypeInv, TypeOK
      <4> QED
        BY <3>1, <4>1 DEF RequestInv
    <3>2. CASE q # r
      <4>1. RequestInv(q) /\ Untouched(q) /\ (wrote[q] # None => wrote[q] # u /\ wrote[q] \in User)
        BY <1>1, <1>3, <3>2, OthersUntouched DEF AdminInv, Locked, TypeInv, TypeOK
      <4>2. EmptyTable /\ caller[q] # None => caller[q] = u
        BY <1>3, <2>3 DEF AdminInv, OneCaller, Inserting
      <4>3. wrote[q] # None => profile'[wrote[q]] = profile[wrote[q]]
        BY <1>1, <4>1
      <4>4. wrote[q] # None => Inserting(q)' = Inserting(q) /\ KeepsAdmin(q)' = KeepsAdmin(q)
        BY <4>1, <4>3 DEF Inserting, KeepsAdmin, Untouched, Exists
      <4>5. pc[q] = "flush" /\ RowFromTrigger(q) => RowFromTrigger(q)'
        <5> SUFFICES ASSUME pc[q] = "flush", RowFromTrigger(q), row[q].admin
                     PROVE  Exists(caller[q])' /\ (profile[caller[q]].admin)'
          BY <4>1 DEF RowFromTrigger, Untouched
        <5>1. caller[q] \in User /\ caller[q] # None
          BY UsersAssumption DEF TypeInv, Addressed
        <5>2. CASE EmptyTable
          BY <1>1, <2>3, <4>1, <4>2, <5>1, <5>2 DEF Untouched, Exists
        <5>3. CASE Exists(caller[q]) /\ profile[caller[q]].admin
          <6>1. caller[q] \in Administrators
            BY <5>1, <5>3 DEF Administrators
          <6>2. caller[q] \in Administrators'
            BY <2>1, <6>1
          <6> QED
            BY <4>1, <6>2 DEF Administrators, Untouched
        <5> QED
          BY <5>2, <5>3 DEF RowFromTrigger
      <4>6. wrote[q] # None /\ Inserting(q) /\ InsertedRow(q) => InsertedRow(q)'
        <5>1. wrote[q] # None /\ Inserting(q) /\ InsertedRow(q) => ~new[q].admin
          BY <4>1, <4>2 DEF InsertedRow, Inserting
        <5> QED
          BY <4>1, <5>1 DEF InsertedRow, Untouched
      <4>7. ~Founding(q)'
        BY <2>2 DEF Founding
      <4>8. pc[q] = "write" /\ op[q] \in Deletion => ~(Exists(target[q]) /\ profile[target[q]].admin)'
        <5> SUFFICES ASSUME pc[q] = "write", op[q] \in Deletion,
                            (Exists(target[q]) /\ profile[target[q]].admin)'
                     PROVE  FALSE
          OBVIOUS
        <5>1. target[q] \in User /\ target'[q] = target[q]
          BY <4>1 DEF TypeInv, Addressed, Untouched
        <5>2. target[q] \in Administrators'
          BY <5>1 DEF Administrators
        <5> QED
          BY <2>1, <4>1, <5>2 DEF RequestInv, Administrators
      <4>9. pc[q] \in {"supabase", "queue"} => DeletedOrGone(q)'
        <5> SUFFICES ASSUME pc[q] \in {"supabase", "queue"}, wrote[q] = None, ~Exists(target[q])
                     PROVE  ~Exists(target[q])'
          BY <4>1 DEF RequestInv, DeletedOrGone, Untouched
        <5>1. Administrators # {} /\ target[q] \in User /\ target'[q] = target[q]
          BY <4>1, UsersAssumption DEF RequestInv, Founding, TypeInv, Addressed, Untouched
        <5>2. ~EmptyTable
          BY <5>1 DEF Administrators, EmptyTable
        <5>3. ~Exists(u) => new[r] = None
          BY <1>1, <1>3, <5>2 DEF RequestInv, InsertedRow
        <5> QED
          BY <1>1, <5>1, <5>3 DEF Exists
      <4> QED
        BY <2>1, <4>1, <4>3, <4>4, <4>5, <4>6, <4>7, <4>8, <4>9 DEF RequestInv, Untouched, Exists
    <3> QED
      BY <3>1, <3>2
  <2>5. Locked'
    <3>1. \A q \in Request : wrote'[q] \in {wrote[q], None}
      BY <1>1 DEF Finish, TypeInv, TypeOK
    <3> QED
      BY <3>1 DEF AdminInv, Locked
  <2> QED
    BY <2>1, <2>2, <2>4, <2>5 DEF AdminInv, OneCaller, ApprovedByAdmin
<1> QED
  BY <1>2, <1>3

LEMMA InitAdminInv == Init => AdminInv
<1> SUFFICES ASSUME Init PROVE AdminInv
  OBVIOUS
<1>1. Locked /\ OneCaller
  BY DEF Init, Locked, OneCaller
<1>2. ApprovedByAdmin
  <2> SUFFICES ASSUME NEW u \in User, Exists(u), profile[u].approved PROVE Administrators # {}
    BY DEF ApprovedByAdmin
  <2>1. profile[u].admin
    BY DEF Init, Exists
  <2> QED
    BY <2>1 DEF Administrators
<1>3. ASSUME NEW r \in Request PROVE RequestInv(r)
  BY DEF Init, RequestInv
<1> QED
  BY <1>1, <1>2, <1>3 DEF AdminInv

LEMMA AdminStep ==
  ASSUME FirstUserAlone, TypeInv, AdminInv, [Next]_vars
  PROVE  AdminInv'
<1>1. ASSUME NEW r \in Request, Refuse(r) \/ HandlerRaises(r) \/ UpdateRaises(r) \/ CommitRaises(r)
      PROVE AdminInv'
  BY <1>1, FinishKeepsAdminInv DEF Refuse, HandlerRaises, UpdateRaises, CommitRaises
<1>2. CASE UNCHANGED <<profile, handler>>
  BY <1>2 DEF handler, AdminInv, Locked, OneCaller, ApprovedByAdmin, RequestInv, DeletedOrGone,
              RowFromTrigger, Inserting, InsertedRow, KeepsAdmin, Founding, EmptyTable, Exists, Administrators
<1>3. Cleanup \/ UNCHANGED vars => UNCHANGED <<profile, handler>>
  BY DEF Cleanup, StartCleanup, RetryDone, RetryFailed, vars
<1> QED
  BY <1>1, <1>2, <1>3, AuthenticationKeepsAdminInv, HandlerKeepsAdminInv, BeginKeepsAdminInv,
     CommitKeepsAdminInv DEF Next, Handle

LEMMA AdminInvHolds == FirstUserAlone => (Spec => [](TypeInv /\ AdminInv))
<1> SUFFICES ASSUME FirstUserAlone PROVE Spec => [](TypeInv /\ AdminInv)
  OBVIOUS
<1>1. Init => TypeInv /\ AdminInv
  BY InitTypes, InitAdminInv
<1>2. TypeInv /\ AdminInv /\ [Next]_vars => (TypeInv /\ AdminInv)'
  BY TypeStep, AdminStep
<1> QED
  BY <1>1, <1>2, PTL DEF Spec

\* If the first user is alone at first, whoever is an administrator once there
\* is one stays so, and nobody else becomes one, by whatever requests of
\* whatever users, interleaved in any order.
THEOREM AdministratorsStay == FirstUserAlone => (Spec => AdministratorsAreFixed)
<1> SUFFICES ASSUME FirstUserAlone PROVE Spec => AdministratorsAreFixed
  OBVIOUS
<1>1. TypeInv /\ AdminInv /\ [Next]_vars =>
        [Administrators # {} => Administrators' = Administrators]_profile
  <2> SUFFICES ASSUME TypeInv, AdminInv, [Next]_vars, profile' # profile, Administrators # {}
               PROVE  Administrators' = Administrators
    OBVIOUS
  <2>1. PICK r \in Request : Commit(r)
    BY DEF Next, Handle, Begin, GetProfile, BeforeInsert, InsertProfile, Refuse, Admit, ReadTarget,
           HandlerRaises, UpdateTarget, UpdateRaises, DeleteTarget, DeleteLogin, QueueLogin,
           CommitRaises, Cleanup, StartCleanup, RetryDone, RetryFailed, vars
  <2>2. wrote[r] # None
    BY <2>1, UsersAssumption DEF Commit, TypeInv, TypeOK
  <2> QED
    BY <2>1, <2>2, CommitAdministrators
<1> QED
  BY <1>1, AdminInvHolds, PTL DEF Spec, AdministratorsAreFixed

-----------------------------------------------------------------------------
(* Decisions.                                                              *)

\* The other requests keep the columns they read, whatever r commits.
LEMMA CommitKeepsDecisionInv ==
  ASSUME TypeInv, AdminInv, DecideInv, NEW r \in Request, Commit(r),
         NEW q \in Request, q # r
  PROVE  DecisionInv(q)'
<1> USE NoneAssumption
<1> DEFINE u == wrote[r]
<1>1. /\ RequestInv(r) /\ RequestInv(q) /\ DecisionInv(r) /\ DecisionInv(q) /\ Untouched(q)
      /\ profile' = [v \in User |-> IF v = u THEN new[r] ELSE profile[v]] /\ pc[r] = "commit"
  BY OthersUntouched DEF AdminInv, DecideInv, Commit
<1>2. wrote[q] # None => wrote[q] \in User /\ profile'[wrote[q]] = profile[wrote[q]]
  BY <1>1 DEF AdminInv, Locked, TypeInv, TypeOK
<1>3. ASSUME pc[q] = "write", op[q] \in Decision, (Current(q) # None)'
      PROVE  Current(q)' = Current(q)
  <2>1. target[q] \in User /\ target[q] # None
    BY <1>3, UsersAssumption DEF TypeInv, Addressed
  <2> SUFFICES ASSUME wrote[q] # target[q], target[q] = u
               PROVE  FALSE
    BY <1>1, <2>1 DEF Current, Untouched
  <2>2. new[r] # None
    BY <1>1, <1>3, <2>1 DEF Current, Untouched
  <2>3. CASE Exists(u)
    <3>1. op[r] \in Decision /\ target[r] = u
      BY <1>1, <2>1, <2>2, <2>3 DEF DecisionInv
    <3> QED
      BY <1>3, <2>1, <3>1 DEF DecideInv, OneDecision
  <2>4. CASE ~Exists(u)
    <3>1. EmptyTable
      BY <1>1, <2>1, <2>2, <2>4 DEF RequestInv, InsertedRow
    <3>2. Founding(q)
      BY <1>1, <1>3, <3>1 DEF RequestInv, EmptyTable, Administrators
    <3>3. target[q] = wrote[q]
      BY <1>1, <1>3, <3>2 DEF RequestInv, Founding, Inserting
    <3> QED
      BY <3>3
  <2> QED
    BY <2>3, <2>4
<1> QED
  BY <1>1, <1>2, <1>3 DEF DecisionInv, Untouched, Exists

\* What a request that commits nothing does to its own columns.
LEMMA LocalKeepsDecisionInv ==
  ASSUME TypeInv, AdminInv, DecideInv, NEW r \in Request,
         \/ GetProfile(r) \/ BeforeInsert(r) \/ InsertProfile(r) \/ Admit(r)
         \/ ReadTarget(r) \/ UpdateTarget(r) \/ DeleteTarget(r)
         \/ DeleteLogin(r) \/ QueueLogin(r)
  PROVE  DecisionInv(r)'
<1> USE NoneAssumption
<1>0. /\ RequestInv(r) /\ DecisionInv(r) /\ profile' = profile /\ caller' = caller
      /\ target' = target /\ op' = op /\ op[r] \in Op /\ caller[r] \in User /\ target[r] \in User
  BY DEF AdminInv, DecideInv, GetProfile, BeforeInsert, InsertProfile, Admit, ReadTarget,
         UpdateTarget, DeleteTarget, DeleteLogin, QueueLogin, TypeInv, TypeOK, Addressed
<1>1. CASE GetProfile(r)
  <2>1. pc'[r] \in {"check", "insert"} /\ wrote'[r] = wrote[r] /\ new'[r] = new[r]
    BY <1>1 DEF GetProfile, Goto, TypeInv, TypeOK
  <2>2. row'[r] = row[r] \/ (Exists(caller[r]) /\ row'[r] = profile[caller[r]])
    BY <1>1 DEF GetProfile, TypeInv, TypeOK
  <2>3. ~(row'[r].approved /\ row'[r].rejected)
    BY <1>0, <2>2 DEF DecideInv, DecidedOneWay, DecisionInv
  <2> QED
    BY <1>0, <2>1, <2>3 DEF DecisionInv, Exists
<1>2. CASE BeforeInsert(r)
  <2>1. /\ pc'[r] = "flush" /\ wrote'[r] = wrote[r] /\ new'[r] = new[r]
        /\ row'[r] = Bootstrap(r)
    BY <1>2 DEF BeforeInsert, Goto, TypeInv, TypeOK
  <2>2. ~row'[r].rejected
    BY <2>1 DEF Bootstrap
  <2> QED
    BY <1>0, <2>1, <2>2 DEF DecisionInv, Exists
<1>3. CASE InsertProfile(r)
  <2>1. pc'[r] = "check"
    BY <1>3 DEF InsertProfile, Goto, TypeInv, TypeOK
  <2>2. CASE Exists(caller[r])
    <3>1. row'[r] = profile[caller[r]] /\ wrote'[r] = wrote[r] /\ new'[r] = new[r]
      BY <1>3, <2>2 DEF InsertProfile, Conflict, TypeInv, TypeOK
    <3>2. ~(row'[r].approved /\ row'[r].rejected)
      BY <1>0, <2>2, <3>1 DEF DecideInv, DecidedOneWay
    <3> QED
      BY <1>0, <2>1, <3>1, <3>2 DEF DecisionInv, Exists
  <2>3. CASE ~Exists(caller[r])
    <3>1. row'[r] = row[r] /\ wrote'[r] = caller[r] /\ new'[r] = row[r]
      BY <1>3, <2>3 DEF InsertProfile, Conflict, TypeInv, TypeOK
    <3> QED
      BY <1>0, <2>1, <2>3, <3>1 DEF DecisionInv, Exists
  <2> QED
    BY <2>2, <2>3
<1>4. CASE Admit(r)
  <2>1. /\ pc'[r] \in {"commit", "handle"} /\ row'[r] = row[r] /\ wrote'[r] = wrote[r]
        /\ new'[r] = new[r]
    BY <1>4 DEF Admit, Goto, TypeInv, TypeOK
  <2> QED
    BY <1>0, <2>1 DEF DecisionInv, Exists
<1>5. CASE ReadTarget(r)
  <2>1. /\ pc'[r] = "write" /\ row'[r] = row[r] /\ wrote'[r] = wrote[r] /\ new'[r] = new[r]
        /\ seen'[r] = Current(r)
    BY <1>5 DEF ReadTarget, AfterRead, Goto, TypeInv, TypeOK
  <2>2. Current(r)' = Current(r)
    BY <1>0, <2>1 DEF Current
  <2> QED
    BY <1>0, <2>1, <2>2 DEF DecisionInv, Exists
<1>6. CASE UpdateTarget(r)
  <2>1. /\ pc[r] = "write" /\ op[r] \in Decision /\ Current(r) # None
        /\ pc'[r] = "commit" /\ row'[r] = row[r] /\ wrote'[r] = target[r]
        /\ new'[r] = Updated(r, Current(r))
    BY <1>0, <1>6 DEF UpdateTarget, Goto, TypeInv, TypeOK, RequestInv, Op, Deletion, Decision
  <2>2. Current(r) \in Profile /\ seen[r] \in Profile
    BY <2>1, CurrentType DEF TypeInv, TypeOK
  <2>3. ~(new'[r].approved /\ new'[r].rejected)
    BY <1>0, <2>1, <2>2, UpdatedRow DEF DecisionInv
  <2> QED
    BY <1>0, <2>1, <2>3 DEF DecisionInv
<1>7. CASE DeleteTarget(r)
  <2>1. /\ pc'[r] = "supabase" /\ row'[r] = row[r]
        /\ new'[r] = None \/ (wrote'[r] = wrote[r] /\ new'[r] = new[r])
    BY <1>7 DEF DeleteTarget, Goto, TypeInv, TypeOK
  <2> QED
    BY <1>0, <2>1 DEF DecisionInv, Exists
<1>8. CASE DeleteLogin(r) \/ QueueLogin(r)
  <2>1. /\ pc'[r] \in {"queue", "commit"} /\ row'[r] = row[r] /\ wrote'[r] = wrote[r]
        /\ new'[r] = new[r]
    BY <1>8 DEF DeleteLogin, QueueLogin, AfterFailure, Goto, TypeInv, TypeOK
  <2> QED
    BY <1>0, <2>1 DEF DecisionInv, Exists
<1> QED
  BY <1>1, <1>2, <1>3, <1>4, <1>5, <1>6, <1>7, <1>8

LEMMA UntouchedKeepsDecision ==
  ASSUME NEW q \in Request, DecisionInv(q), Untouched(q), profile' = profile
  PROVE  DecisionInv(q)'
  BY DEF DecisionInv, Untouched, Current, Exists

LEMMA FinishedDecision ==
  ASSUME TypeInv, NEW r \in Request, Finish(r)
  PROVE  DecisionInv(r)'
<1>1. pc'[r] = "idle" /\ row'[r] = NoRow /\ new'[r] = None
  BY DEF Finish, Goto, TypeInv, TypeOK
<1> QED
  BY <1>1 DEF DecisionInv, NoRow

LEMMA DecideStep ==
  ASSUME DecisionsAlone, TypeInv, AdminInv, DecideInv, [Next]_vars
  PROVE  DecideInv'
<1>1. ASSUME NEW r \in Request,
             \/ GetProfile(r) \/ BeforeInsert(r) \/ InsertProfile(r) \/ Admit(r)
             \/ ReadTarget(r) \/ UpdateTarget(r) \/ DeleteTarget(r)
             \/ DeleteLogin(r) \/ QueueLogin(r)
      PROVE DecideInv'
  <2>1. profile' = profile /\ op' = op /\ target' = target
    BY <1>1 DEF GetProfile, BeforeInsert, InsertProfile, Admit, ReadTarget,
                UpdateTarget, DeleteTarget, DeleteLogin, QueueLogin
  <2>2. \A q \in Request : q # r => Untouched(q)
    BY <1>1, OthersUntouched
  <2>3. \A q \in Request : DecisionInv(q)'
    BY <1>1, <2>1, <2>2, UntouchedKeepsDecision, LocalKeepsDecisionInv DEF DecideInv
  <2> QED
    BY <2>1, <2>3 DEF DecideInv, DecidedOneWay, OneDecision, Exists
<1>2. ASSUME NEW r \in Request,
             Refuse(r) \/ HandlerRaises(r) \/ UpdateRaises(r) \/ CommitRaises(r) \/ Commit(r)
      PROVE DecideInv'
  <2>1. Finish(r) /\ (profile' = profile \/ Commit(r))
    BY <1>2 DEF Refuse, HandlerRaises, UpdateRaises, CommitRaises, Commit
  <2>2. \A q \in Request : q # r => Untouched(q)
    BY <2>1, OthersUntouched
  <2>3. \A q \in Request : DecisionInv(q)'
    BY <2>1, <2>2, UntouchedKeepsDecision, FinishedDecision, CommitKeepsDecisionInv DEF DecideInv
  <2>4. OneDecision'
    <3>1. op'[r] = "me"
      BY <2>1 DEF Finish, TypeInv, TypeOK
    <3> QED
      BY <2>2, <3>1 DEF DecideInv, OneDecision, Untouched, Decision
  <2>5. DecidedOneWay'
    <3>1. CASE profile' = profile
      BY <3>1 DEF DecideInv, DecidedOneWay, Exists
    <3>2. CASE Commit(r)
      BY <3>2 DEF Commit, DecideInv, DecisionInv, DecidedOneWay, Exists
    <3> QED
      BY <2>1, <3>1, <3>2
  <2> QED
    BY <2>3, <2>4, <2>5 DEF DecideInv
<1>3. ASSUME NEW r \in Request, NEW u \in User, NEW t \in User, NEW o \in Op, Begin(r, u, o, t)
      PROVE DecideInv'
  <2>1. /\ pc[r] = "idle" /\ pc'[r] = "profile" /\ profile' = profile
        /\ row' = row /\ wrote' = wrote /\ new' = new
        /\ op'[r] = o /\ target'[r] = t
        /\ o \in Decision => \A q \in Request : op[q] \in Decision => target[q] # t
    BY <1>3 DEF Begin, Goto, TypeInv, TypeOK
  <2>2. \A q \in Request : q # r => Untouched(q)
    BY <1>3, OthersUntouched
  <2>3. DecisionInv(r)'
    BY <2>1 DEF DecideInv, DecisionInv, AdminInv, RequestInv
  <2>4. \A q \in Request : DecisionInv(q)'
    BY <2>1, <2>2, <2>3, UntouchedKeepsDecision DEF DecideInv
  <2>5. OneDecision'
    BY <2>1, <2>2 DEF DecideInv, OneDecision, Untouched
  <2> QED
    BY <2>1, <2>4, <2>5 DEF DecideInv, DecidedOneWay, Exists
<1>4. CASE UNCHANGED <<profile, handler>>
  BY <1>4 DEF handler, DecideInv, DecidedOneWay, OneDecision, DecisionInv, Current, Exists
<1>5. Cleanup \/ UNCHANGED vars => UNCHANGED <<profile, handler>>
  BY DEF Cleanup, StartCleanup, RetryDone, RetryFailed, vars
<1> QED
  BY <1>1, <1>2, <1>3, <1>4, <1>5 DEF Next, Handle

LEMMA InitDecideInv == Init => DecideInv
  BY DEF Init, DecideInv, DecidedOneWay, OneDecision, DecisionInv, NoRow, Exists, Decision

\* If besides the decisions on an account do not overlap, nobody is approved
\* and rejected at the same time, though an UPDATE sets only the columns that
\* differ from what the request read.
THEOREM DecisionsAreOneWay ==
  FirstUserAlone /\ DecisionsAlone => (Spec => []DecidedOneWay)
<1> SUFFICES ASSUME FirstUserAlone, DecisionsAlone PROVE Spec => []DecidedOneWay
  OBVIOUS
<1>1. TypeInv /\ AdminInv /\ DecideInv /\ [Next]_vars => DecideInv'
  BY DecideStep
<1>2. DecideInv => DecidedOneWay
  BY DEF DecideInv
<1> QED
  BY <1>1, <1>2, InitDecideInv, AdminInvHolds, PTL DEF Spec

-----------------------------------------------------------------------------
(* Logins.                                                                 *)

\* A step of a request that has not deleted a profile.
LEMMA LocalKeepsLoginInv ==
  ASSUME TypeInv, AdminInv, LoginInv, NEW r \in Request, profile' = profile,
         \A q \in Request : q # r => Untouched(q),
         ~(wrote[r] # None /\ new[r] = None),
         login' = login, queue' = queue, sweep' = sweep
  PROVE  LoginInv'
<1> SUFFICES ASSUME NEW u \in User, u \notin login \/ u \in queue \/ u \in sweep
             PROVE  Administrators' # {} /\ (~Exists(u)' \/ BeingDeleted(u)')
  BY DEF LoginInv
<1>1. Administrators # {} /\ (~Exists(u) \/ BeingDeleted(u))
  BY DEF LoginInv
<1>2. BeingDeleted(u) => BeingDeleted(u)'
  <2> SUFFICES ASSUME NEW q \in Request, wrote[q] = u, new[q] = None PROVE BeingDeleted(u)'
    BY DEF BeingDeleted
  <2>1. q # r
    BY UsersAssumption
  <2> QED
    BY <2>1 DEF Untouched, BeingDeleted
<1> QED
  BY <1>1, <1>2 DEF Administrators, Exists

\* A step that takes logins, or queues them, of users who are deleted or being so.
LEMMA TakenLogins ==
  ASSUME LoginInv, UNCHANGED <<profile, wrote, new>>,
         \A u \in User :
           u \notin login' \/ u \in queue' \/ u \in sweep' =>
             \/ u \notin login \/ u \in queue \/ u \in sweep
             \/ Administrators # {} /\ (~Exists(u) \/ BeingDeleted(u))
  PROVE  LoginInv'
  BY DEF LoginInv, BeingDeleted, Administrators, Exists

LEMMA CommitKeepsLoginInv ==
  ASSUME TypeInv, AdminInv, LoginInv, NEW r \in Request, Commit(r)
  PROVE  LoginInv'
<1> USE NoneAssumption
<1>1. /\ RequestInv(r) /\ pc[r] = "commit" /\ login' = login /\ queue' = queue /\ sweep' = sweep
      /\ profile' = [v \in User |-> IF v = wrote[r] THEN new[r] ELSE profile[v]]
      /\ \A q \in Request : q # r => Untouched(q)
  BY OthersUntouched DEF AdminInv, Commit
<1> SUFFICES ASSUME NEW u \in User, u \notin login \/ u \in queue \/ u \in sweep
             PROVE  Administrators' # {} /\ (~Exists(u)' \/ BeingDeleted(u)')
  BY <1>1 DEF LoginInv
<1>2. Administrators # {} /\ (~Exists(u) \/ BeingDeleted(u)) /\ ~EmptyTable /\ u # None
  BY UsersAssumption DEF LoginInv, Administrators, EmptyTable
<1>3. Administrators' # {}
  <2>1. CASE wrote[r] = None
    BY <1>1, <1>2, <2>1, UsersAssumption DEF Administrators, Exists
  <2> QED
    BY <2>1, CommitAdministrators
<1>4. CASE wrote[r] = u
  <2>1. new[r] = None
    <3>1. CASE Exists(u)
      BY <1>2, <1>4, <3>1 DEF BeingDeleted, AdminInv, Locked
    <3>2. CASE ~Exists(u)
      BY <1>1, <1>2, <1>4, <3>2 DEF RequestInv, InsertedRow
    <3> QED
      BY <3>1, <3>2
  <2> QED
    BY <1>1, <1>3, <1>4, <2>1 DEF Exists
<1>5. CASE wrote[r] # u
  <2>1. profile'[u] = profile[u]
    BY <1>1, <1>5
  <2>2. BeingDeleted(u) => BeingDeleted(u)'
    BY <1>1, <1>5 DEF BeingDeleted, Untouched
  <2> QED
    BY <1>2, <1>3, <2>1, <2>2 DEF Exists
<1> QED
  BY <1>4, <1>5

LEMMA LoginStep ==
  ASSUME DeletionsCommit, TypeInv, AdminInv, LoginInv, [Next]_vars
  PROVE  LoginInv'
<1>1. ASSUME NEW r \in Request,
             \/ GetProfile(r) \/ BeforeInsert(r) \/ InsertProfile(r) \/ Refuse(r) \/ Admit(r)
             \/ ReadTarget(r) \/ HandlerRaises(r) \/ UpdateTarget(r) \/ UpdateRaises(r)
             \/ DeleteTarget(r) \/ CommitRaises(r)
             \/ \E u, t \in User, o \in Op : Begin(r, u, o, t)
      PROVE LoginInv'
  <2>1. profile' = profile /\ login' = login /\ queue' = queue /\ sweep' = sweep
    BY <1>1 DEF GetProfile, BeforeInsert, InsertProfile, Refuse, Admit, ReadTarget, HandlerRaises,
                UpdateTarget, UpdateRaises, DeleteTarget, CommitRaises, Begin
  <2>2. \A q \in Request : q # r => Untouched(q)
    BY <1>1, OthersUntouched DEF Refuse, HandlerRaises, UpdateRaises, CommitRaises
  <2>3. \/ pc[r] \notin {"supabase", "queue", "commit"}
        \/ pc[r] = "commit" /\ op[r] \notin Deletion
    BY <1>1 DEF GetProfile, BeforeInsert, InsertProfile, Refuse, Admit, ReadTarget, HandlerRaises,
                UpdateTarget, UpdateRaises, DeleteTarget, CommitRaises, Begin
  <2>4. ~(wrote[r] # None /\ new[r] = None)
    BY <2>3 DEF AdminInv, RequestInv
  <2> QED
    BY <2>1, <2>2, <2>4, LocalKeepsLoginInv
<1>2. ASSUME NEW r \in Request, DeleteLogin(r) \/ QueueLogin(r) PROVE LoginInv'
  <2>1. /\ RequestInv(r) /\ pc[r] \in {"supabase", "queue"} /\ target[r] \in User
        /\ UNCHANGED <<profile, wrote, new, sweep>>
    BY <1>2 DEF AdminInv, DeleteLogin, QueueLogin, TypeInv, Addressed
  <2>2. Administrators # {} /\ (~Exists(target[r]) \/ BeingDeleted(target[r]))
    BY <2>1, UsersAssumption DEF RequestInv, DeletedOrGone, Founding, Inserting, BeingDeleted
  <2>3. login \ {target[r]} \subseteq login' /\ queue' \subseteq queue \cup {target[r]}
    BY <1>2 DEF DeleteLogin, QueueLogin, CallDone, CallFailed, SetQueue
  <2> QED
    BY <2>1, <2>2, <2>3, TakenLogins
<1>3. CASE Cleanup
  <2>1. UNCHANGED <<profile, wrote, new>>
    BY <1>3 DEF Cleanup, StartCleanup, RetryDone, RetryFailed, handler
  <2>2. /\ login \ sweep \subseteq login' /\ queue' \subseteq queue
        /\ sweep' \subseteq queue \cup sweep
    BY <1>3 DEF Cleanup, StartCleanup, RetryDone, RetryFailed, CallDone, CallFailed, SetQueue
  <2> QED
    BY <2>1, <2>2, TakenLogins
<1>4. CASE UNCHANGED vars
  BY <1>4 DEF vars, handler, LoginInv, BeingDeleted, Administrators, Exists
<1> QED
  BY <1>1, <1>2, <1>3, <1>4, CommitKeepsLoginInv DEF Next, Handle

LEMMA InitLoginInv == Init => LoginInv
  BY DEF Init, LoginInv

\* If deletions are committed, a user keeps the login as long as the profile,
\* though Supabase is called before the commit, the answer may be lost and the
\* cleanup task retries on its own.
THEOREM LoginIsKept ==
  FirstUserAlone /\ DeletionsCommit => (Spec => []LoginOutlivesProfile)
<1> SUFFICES ASSUME FirstUserAlone, DeletionsCommit PROVE Spec => []LoginOutlivesProfile
  OBVIOUS
<1>1. TypeInv /\ AdminInv /\ LoginInv /\ [Next]_vars => LoginInv'
  BY LoginStep
<1>2. LoginInv => LoginOutlivesProfile
  BY DEF LoginInv, LoginOutlivesProfile
<1> QED
  BY <1>1, <1>2, InitLoginInv, AdminInvHolds, PTL DEF Spec
=============================================================================
