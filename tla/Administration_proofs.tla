----------------------- MODULE Administration_proofs -----------------------
(***************************************************************************)
(* Facts about Administration for any people, addresses, roles and requests.*)
(***************************************************************************)
EXTENDS Administration, FiniteSetTheorems, TLAPS

(***************************************************************************)
(* The inductive invariant.  While requests come one at a time, the row     *)
(* that a request is to adopt carries its placeholder until it does.  What  *)
(* the guards counted was never the target alone, however the requests      *)
(* overlap; so as long as the count is still true, an administrator is left.*)
(***************************************************************************)
RowsStay ==
    \A q \in Requests :
        /\ ~At(q, "idle") => request[q].me \in Rows
        /\ At(q, "checked") /\ request[q].op \in {"role", "active"} => request[q].target \in Rows

OneAtATime ==
    calm => \A q, r \in Requests : ~At(q, "idle") /\ ~At(r, "idle") => q = r

StillPending ==
    calm => \A q \in Requests :
        At(q, "identified") /\ request[q].who # None =>
            users[request[q].me].oid = None /\ users[request[q].me].active

Removes(q) == \/ request[q].op = "role" /\ request[q].role \notin AdminRoles
              \/ request[q].op = "active" /\ ~request[q].active
NeverTheOnly ==
    \A q \in Requests :
        At(q, "checked") /\ Removes(q) => request[q].counted # {request[q].target}

AInv == TypeOK /\ RowsStay /\ OneAtATime /\ StillPending /\ NeverTheOnly

\* The constants: the default row of a request, and that None is no row.
LEMMA Defaults ==
    /\ IdleRequest \in Request /\ IdleRequest.step = "idle"
    /\ None \notin User /\ None \notin People
    /\ \A r \in Roles : Invited(r) \in User
<1>1. (CHOOSE r \in AdminRoles : TRUE) \in Roles
  BY AdministrationAssumption
<1>2. None \notin User /\ None \notin People
  <2>1. User \subseteq [oid : People \cup {None}, role : Roles, active : BOOLEAN, seen : BOOLEAN]
    BY DEF User
  <2>2. QED
    BY <2>1, AdministrationAssumption
<1>3. QED
  BY <1>1, <1>2, AdministrationAssumption DEF IdleRequest, Request, Invited, User

\* What the two guards say: the target is not the only administrator.
LEMMA NotTheLast ==
    ASSUME NEW e \in Emails, ~IsLastActiveAdmin(e)
    PROVE  ActiveAdmins # {e}
<1> SUFFICES ASSUME ActiveAdmins = {e} PROVE FALSE
  OBVIOUS
<1>1. Cardinality(ActiveAdmins) = 1
  BY FS_Singleton
<1>2. QED
  BY <1>1 DEF IsLastActiveAdmin, ActiveAdmins

\* Nobody has asked for anything.
LEMMA AdminInitially == Init => AInv
<1> SUFFICES ASSUME Init PROVE AInv
  OBVIOUS
<1>1. PICK r \in AdminRoles : users = [e \in Emails |-> IF e = Founder THEN Invited(r) ELSE None]
  BY DEF Init
<1>2. TypeOK
  BY <1>1, Defaults, AdministrationAssumption DEF Init, TypeOK
<1>3. \A q \in Requests : At(q, "idle")
  BY Defaults DEF Init, At
<1>4. QED
  BY <1>2, <1>3 DEF AInv, RowsStay, OneAtATime, StillPending, NeverTheOnly, At

(***************************************************************************)
(* One step at a time.                                                      *)
(***************************************************************************)
\* The script keeps every row but for its role, and touches no request.
LEMMA SeedUserKeeps ==
    ASSUME AInv, NEW e \in Emails, NEW r \in Roles, SeedUser(e, r)
    PROVE  AInv'
<1> DEFINE new == IF users[e] = None THEN Invited(r) ELSE [users[e] EXCEPT !.role = r]
<1>1. /\ users \in [Emails -> User \cup {None}] /\ request \in [Requests -> Request]
      /\ made \in Nat
  BY DEF AInv, TypeOK
<1>2. users' = [users EXCEPT ![e] = new]
  BY <1>1 DEF SeedUser
<1>3. /\ new \in User /\ new # None /\ new.role = r
      /\ users[e] # None => new.oid = users[e].oid /\ new.active = users[e].active
  <2>1. CASE users[e] = None
    BY <1>1, <2>1, Defaults DEF Invited
  <2>2. CASE users[e] # None
    <3>1. users[e] \in User /\ new = [users[e] EXCEPT !.role = r]
      BY <1>1, <2>2
    <3>2. QED
      BY <1>1, <3>1, Defaults DEF User
  <2>3. QED
    BY <2>1, <2>2
<1> HIDE DEF new
<1>4. /\ users' \in [Emails -> User \cup {None}]
      /\ \A x \in Emails : users'[x] = IF x = e THEN new ELSE users[x]
  BY <1>1, <1>2, <1>3
<1>5. TypeOK'
  BY <1>4 DEF AInv, TypeOK, SeedUser, Ask
<1>6. Rows \subseteq Rows'
  BY <1>3, <1>4 DEF Rows
<1>7. request' = request /\ calm' = calm
  BY DEF SeedUser
<1>8. RowsStay' /\ OneAtATime' /\ NeverTheOnly'
  BY <1>6, <1>7 DEF AInv, RowsStay, OneAtATime, NeverTheOnly, Removes, At
<1>9. StillPending'
  <2> SUFFICES ASSUME calm', NEW q \in Requests, At(q, "identified"), request[q].who # None
               PROVE  users'[request[q].me].oid = None /\ users'[request[q].me].active
    BY <1>7 DEF StillPending, At
  <2>1. request[q].me \in Rows /\ users[request[q].me].oid = None /\ users[request[q].me].active
    BY <1>7 DEF AInv, RowsStay, StillPending, At
  <2>2. QED
    BY <1>3, <1>4, <2>1 DEF Rows
<1>10. QED
  BY <1>5, <1>8, <1>9 DEF AInv

\* A session is identified: the placeholder that it saw is there.
LEMMA IdentifiedKeeps ==
    ASSUME AInv, NEW q \in Requests, NEW x \in Rows, NEW who \in People \cup {None},
           who # None => users[x].oid = None, Identified(q, x, who)
    PROVE  AInv'
<1> DEFINE new == [IdleRequest EXCEPT !.step = "identified", !.me = x, !.who = who]
<1>1. /\ users' = users /\ local' = local /\ calm' = (calm /\ \A r \in Requests : At(r, "idle"))
      /\ users[x].active
  BY DEF Identified
<1>2. new \in Request /\ new.step = "identified" /\ new.me = x /\ new.who = who
  BY Defaults DEF Request, Rows
<1> HIDE DEF new
<1>3. /\ request' \in [Requests -> Request]
      /\ \A r \in Requests : request'[r] = IF r = q THEN new ELSE request[r]
  BY <1>2 DEF AInv, TypeOK, new, Identified
<1>4. TypeOK'
  BY <1>1, <1>3 DEF AInv, TypeOK, Identified, Ask
<1>5. Rows' = Rows
  BY <1>1 DEF Rows
<1>6. RowsStay'
  BY <1>2, <1>3, <1>5 DEF AInv, RowsStay, At
<1>7. OneAtATime'
  BY <1>1, <1>3 DEF AInv, OneAtATime, At
<1>8. StillPending'
  BY <1>1, <1>2, <1>3 DEF AInv, StillPending, At
<1>9. NeverTheOnly'
  BY <1>2, <1>3 DEF AInv, NeverTheOnly, At, Removes
<1>10. QED
  BY <1>4, <1>6, <1>7, <1>8, <1>9 DEF AInv

\* By a token, a row of its person or a placeholder; by the header, any row.
LEMMA IdentifyKeeps ==
    ASSUME AInv, NEW q \in Requests,
           \/ \E p \in People : \E e \in ClaimedBy[p] : Identify(q, p, e)
           \/ \E e \in Emails : IdentifyByHeader(q, e)
    PROVE  AInv'
<1> DEFINE Found == \E x \in Rows, who \in People \cup {None} :
               (who # None => users[x].oid = None) /\ Identified(q, x, who)
<1>1. Found
  <2>1. ASSUME NEW p \in People, NEW e \in ClaimedBy[p], Identify(q, p, e) PROVE Found
    <3>1. PICK x \in RowOf(p, e) : Identified(q, x, IF users[x].oid # p THEN p ELSE None)
      BY <2>1 DEF Identify
    <3>2. x \in Rows /\ (users[x].oid # p => users[x].oid = None)
      BY DEF RowOf, BoundTo, Rows
    <3>3. QED
      BY <3>1, <3>2
  <2>2. QED
    BY <2>1 DEF IdentifyByHeader
<1>2. QED
  BY <1>1, IdentifiedKeeps

\* Signing in keeps role and activity of every row.
LEMMA SignInKeeps ==
    ASSUME AInv, NEW q \in Requests, SignIn(q)
    PROVE  AInv'
<1> DEFINE me == request[q].me
           who == request[q].who
           new == [users[me] EXCEPT !.seen = TRUE,
                                    !.oid = IF who = None THEN users[me].oid ELSE who]
<1>1. /\ request \in [Requests -> Request] /\ users \in [Emails -> User \cup {None}]
      /\ me \in Emails /\ users[me] \in User /\ who \in People \cup {None}
  BY DEF AInv, TypeOK, RowsStay, SignIn, At, Rows, Request
<1>2. users' = [users EXCEPT ![me] = new]
  BY <1>1 DEF SignIn, User
<1>3. /\ new \in User /\ new.role = users[me].role /\ new.active = users[me].active
      /\ new # None
  BY <1>1, Defaults DEF User
<1> HIDE DEF new
<1>4. /\ users' \in [Emails -> User \cup {None}]
      /\ \A x \in Emails : users'[x] = IF x = me THEN new ELSE users[x]
  BY <1>1, <1>2, <1>3
<1>5. /\ request' \in [Requests -> Request] /\ calm' = calm
      /\ \A r \in Requests : request'[r] = IF r = q THEN [request[q] EXCEPT !.step = "admitted"]
                                           ELSE request[r]
  BY <1>1 DEF SignIn, Goes, Request
<1>6. TypeOK'
  BY <1>4, <1>5 DEF AInv, TypeOK, SignIn
<1>7. Rows' = Rows
  BY <1>1, <1>3, <1>4, Defaults DEF Rows
<1>8. request'[q].step = "admitted" /\ request'[q].me = me
  BY <1>1, <1>5 DEF Request
<1>9. RowsStay'
  BY <1>5, <1>7, <1>8 DEF AInv, RowsStay, At, SignIn
<1>10. OneAtATime'
  BY <1>5, <1>8 DEF AInv, OneAtATime, At, SignIn
<1>11. StillPending'
  BY <1>5, <1>8, <1>10 DEF AInv, OneAtATime, StillPending, At, SignIn
<1>12. NeverTheOnly'
  BY <1>5, <1>8 DEF AInv, NeverTheOnly, At, Removes, SignIn
<1>13. QED
  BY <1>6, <1>9, <1>10, <1>11, <1>12 DEF AInv

\* A request that ends without a commit leaves the others as they were.
LEMMA AbandonKeeps ==
    ASSUME AInv, NEW q \in Requests, Abandon(q)
    PROVE  AInv'
<1>1. /\ users' = users /\ calm' = calm /\ request' \in [Requests -> Request]
      /\ \A r \in Requests : request'[r] = IF r = q THEN IdleRequest ELSE request[r]
  BY Defaults DEF AInv, TypeOK, Abandon, Finish
<1>2. TypeOK'
  BY <1>1 DEF AInv, TypeOK, Abandon
<1>3. Rows' = Rows
  BY <1>1 DEF Rows
<1>4. QED
  BY <1>1, <1>2, <1>3, Defaults
     DEF AInv, RowsStay, OneAtATime, StillPending, NeverTheOnly, At, Removes

\* A check that was passed says of the target what the write relies on.
LEMMA CheckKeeps ==
    ASSUME AInv, NEW q \in Requests, Check(q)
    PROVE  AInv'
<1>1. /\ request[q].step = "admitted" /\ request[q] \in Request /\ users' = users /\ calm' = calm
      /\ request[q].me \in Rows /\ UNCHANGED <<local, made>>
  BY DEF Check, CheckOnboard, CheckRole, CheckActive, Allowed, Checked, At, AInv, RowsStay, TypeOK
<1>2. \E op \in {"onboard", "role", "active"}, e \in Emails, r \in Roles, active \in BOOLEAN :
        /\ Checked(q, op, e, r, active)
        /\ op # "onboard" => e \in Rows
        /\ (op = "role" /\ r \notin AdminRoles) \/ (op = "active" /\ ~active)
              => ~IsLastActiveAdmin(e)
  <2>1. CASE \E e \in Emails, r \in Roles : CheckOnboard(q, e, r)
    BY <2>1 DEF CheckOnboard
  <2>2. CASE \E e \in Emails, r \in Roles : CheckRole(q, e, r)
    BY <2>2 DEF CheckRole
  <2>3. CASE \E e \in Emails, active \in BOOLEAN : CheckActive(q, e, active)
    <3>1. PICK e \in Emails, active \in BOOLEAN : CheckActive(q, e, active)
      BY <2>3
    <3>2. users[e].role \in Roles
      BY <3>1, Defaults DEF CheckActive, AInv, TypeOK, User, Rows
    <3>3. QED
      BY <3>1, <3>2 DEF CheckActive
  <2>4. QED
    BY <2>1, <2>2, <2>3 DEF Check
<1>3. PICK op \in {"onboard", "role", "active"}, e \in Emails, r \in Roles, active \in BOOLEAN :
        /\ Checked(q, op, e, r, active)
        /\ op # "onboard" => e \in Rows
        /\ (op = "role" /\ r \notin AdminRoles) \/ (op = "active" /\ ~active)
              => ~IsLastActiveAdmin(e)
  BY <1>2
<1> DEFINE new == [request[q] EXCEPT !.step = "checked", !.op = op, !.target = e,
                                     !.role = r, !.active = active, !.counted = ActiveAdmins]
<1>4. request' = [request EXCEPT ![q] = new]
  BY <1>1, <1>3 DEF Checked, AInv, TypeOK
<1>5. /\ new \in Request /\ new.step = "checked" /\ new.op = op /\ new.target = e
      /\ new.role = r /\ new.active = active /\ new.me = request[q].me
      /\ new.counted = ActiveAdmins
  BY <1>1 DEF Request, ActiveAdmins, Rows
<1> HIDE DEF new
<1>6. /\ request' \in [Requests -> Request]
      /\ \A p \in Requests : request'[p] = IF p = q THEN new ELSE request[p]
  BY <1>4, <1>5 DEF AInv, TypeOK
<1>7. TypeOK'
  BY <1>1, <1>6 DEF AInv, TypeOK
<1>8. Rows' = Rows
  BY <1>1 DEF Rows
<1>9. RowsStay' /\ OneAtATime' /\ StillPending'
  BY <1>1, <1>3, <1>5, <1>6, <1>8 DEF AInv, RowsStay, OneAtATime, StillPending, At
<1>10. NeverTheOnly'
  <2> SUFFICES ASSUME NEW p \in Requests, At(p, "checked")', Removes(p)'
               PROVE  request'[p].counted # {request'[p].target}
    BY DEF NeverTheOnly
  <2>1. CASE p = q
    BY <1>3, <1>5, <1>6, <2>1, NotTheLast DEF Removes
  <2>2. CASE p # q
    BY <1>6, <2>2 DEF AInv, NeverTheOnly, At, Removes
  <2>3. QED
    BY <2>1, <2>2
<1>11. QED
  BY <1>7, <1>9, <1>10 DEF AInv

\* A write changes one row, the target's, and takes an administrator away only
\* where it was checked for that.
LEMMA Written ==
    ASSUME AInv, NEW q \in Requests, Write(q)
    PROVE  /\ request[q].step = "checked" /\ request[q] \in Request
           /\ \E new \in User :
               /\ \A x \in Emails : users'[x] = IF x = request[q].target THEN new ELSE users[x]
               /\ users' \in [Emails -> User \cup {None}]
               /\ request[q].target \in Rows => new.oid = users[request[q].target].oid
               /\ request[q].target \in ActiveAdmins /\ ~Removes(q)
                     => new.role \in AdminRoles /\ new.active
<1> DEFINE e == request[q].target
<1>1. /\ request[q].step = "checked" /\ request[q] \in Request /\ e \in Emails
      /\ users \in [Emails -> User \cup {None}]
  BY DEF Write, At, AInv, TypeOK, Request
<1>2. PICK new \in User :
        /\ users' = [users EXCEPT ![e] = new]
        /\ e \in Rows => new.oid = users[e].oid
        /\ e \in ActiveAdmins /\ ~Removes(q) => new.role \in AdminRoles /\ new.active
  <2>1. CASE Onboard(q)
    BY <1>1, <2>1, Defaults DEF Onboard, Request, ActiveAdmins
  <2>2. CASE ChangeRole(q)
    <3>1. users[e] \in User
      BY <1>1, <2>2 DEF ChangeRole, AInv, RowsStay, At, Rows
    <3>2. [users[e] EXCEPT !.role = request[q].role] \in User
      BY <1>1, <3>1 DEF User, Request
    <3>3. QED
      BY <1>1, <2>2, <3>1, <3>2 DEF ChangeRole, ActiveAdmins, Removes, User, Request
  <2>3. CASE SetActive(q)
    <3>1. users[e] \in User
      BY <1>1, <2>3 DEF SetActive, AInv, RowsStay, At, Rows
    <3>2. [users[e] EXCEPT !.active = request[q].active] \in User
      BY <1>1, <3>1 DEF User, Request
    <3>3. QED
      BY <1>1, <2>3, <3>1, <3>2 DEF SetActive, ActiveAdmins, Removes, User, Request
  <2>4. QED
    BY <2>1, <2>2, <2>3 DEF Write
<1>3. QED
  BY <1>1, <1>2

\* The other requests go on as they were.
LEMMA WriteKeeps ==
    ASSUME AInv, NEW q \in Requests, Write(q)
    PROVE  AInv'
<1>1. /\ calm' = calm /\ UNCHANGED <<local, made>>
      /\ request' \in [Requests -> Request]
      /\ \A r \in Requests : request'[r] = IF r = q THEN IdleRequest ELSE request[r]
  BY Defaults DEF Write, AInv, TypeOK, Finish
<1>2. ~At(q, "idle") /\ users' \in [Emails -> User \cup {None}] /\ Rows \subseteq Rows'
  BY Written, Defaults DEF At, Rows
<1>3. TypeOK'
  BY <1>1, <1>2 DEF AInv, TypeOK
<1>4. RowsStay'
  BY <1>1, <1>2, Defaults DEF AInv, RowsStay, At
<1>5. OneAtATime'
  BY <1>1, Defaults DEF AInv, OneAtATime, At
<1>6. ASSUME calm' PROVE \A r \in Requests : ~At(r, "idle")' => FALSE
  BY <1>1, <1>2, <1>6, Defaults DEF AInv, OneAtATime, At
<1>7. StillPending'
  BY <1>6 DEF StillPending, At
<1>8. NeverTheOnly'
  BY <1>1, Defaults DEF AInv, NeverTheOnly, At, Removes
<1>9. QED
  BY <1>3, <1>4, <1>5, <1>7, <1>8 DEF AInv

LEMMA AdminStepKeeps == AInv /\ [Next]_vars => AInv'
<1> SUFFICES ASSUME AInv, [Next]_vars PROVE AInv'
  OBVIOUS
<1>1. CASE UNCHANGED vars
  BY <1>1 DEF vars, AInv, TypeOK, RowsStay, OneAtATime, StillPending, NeverTheOnly,
              Removes, At, Rows
<1>2. CASE Next
  BY <1>2, SeedUserKeeps, IdentifyKeeps, SignInKeeps, CheckKeeps, WriteKeeps, AbandonKeeps
     DEF Next
<1>3. QED
  BY <1>1, <1>2

LEMMA AdminInvariance == Spec => []AInv
  BY AdminInitially, AdminStepKeeps, PTL DEF Spec

\* Users, requests and their references stay well-formed, whoever asks for what.
THEOREM AdministrationTypeCorrect == Spec => []TypeOK
<1>1. AInv => TypeOK
  BY DEF AInv
<1>2. QED
  BY <1>1, AdminInvariance, PTL

\* Whatever the overlap, a request takes the last active administrator away only
\* after a count that no longer holds: the guards of update_user and
\* set_user_active are enough for one request, and the script has none.
THEOREM SomeAdminAlways == Spec => SomeAdmin
<1>1. ASSUME AInv, [Next]_vars
      PROVE  [LocksOut => ByScript \/ StaleCount]_vars
  <2> SUFFICES ASSUME Next, LocksOut, ~ByScript
               PROVE  StaleCount
    BY <1>1
  <2>1. users' # users
    BY DEF LocksOut, ActiveAdmins, Rows
  <2>2. ASSUME NEW q \in Requests, SignIn(q) PROVE FALSE
    <3> DEFINE me == request[q].me
    <3>1. users \in [Emails -> User \cup {None}] /\ users[me] \in User /\ me \in Emails
      BY <1>1, <2>2 DEF AInv, TypeOK, RowsStay, SignIn, At, Rows
    <3> DEFINE new == [users[me] EXCEPT !.seen = TRUE,
                           !.oid = IF request[q].who = None THEN users[me].oid ELSE request[q].who]
    <3>2. users' = [users EXCEPT ![me] = new]
      BY <2>2, <3>1 DEF SignIn, User
    <3>3. /\ users'[me].role = users[me].role /\ users'[me].active = users[me].active
          /\ users'[me] # None
      <4>1. request[q].who \in People \cup {None}
        BY <1>1 DEF AInv, TypeOK, Request
      <4>2. new \in User /\ new.role = users[me].role /\ new.active = users[me].active
        BY <3>1, <4>1 DEF User
      <4>3. QED
        BY <3>1, <3>2, <4>2, Defaults
    <3>4. \A x \in Emails : x # me => users'[x] = users[x]
      BY <3>1, <3>2
    <3>5. ActiveAdmins \subseteq ActiveAdmins'
      BY <3>3, <3>4, Defaults DEF ActiveAdmins, Rows
    <3>6. QED
      BY <3>5 DEF LocksOut
  <2>3. ASSUME NEW q \in Requests, Write(q), request[q].counted = ActiveAdmins PROVE FALSE
    <3>1. /\ request[q].step = "checked" /\ request[q] \in Request
          /\ \E new \in User :
              /\ \A x \in Emails : users'[x] = IF x = request[q].target THEN new ELSE users[x]
              /\ request[q].target \in ActiveAdmins /\ ~Removes(q)
                    => new.role \in AdminRoles /\ new.active
      BY <1>1, <2>3, Written
    <3>2. PICK new \in User :
              /\ \A x \in Emails : users'[x] = IF x = request[q].target THEN new ELSE users[x]
              /\ request[q].target \in ActiveAdmins /\ ~Removes(q)
                    => new.role \in AdminRoles /\ new.active
      BY <3>1
    <3>3. ActiveAdmins \ {request[q].target} \subseteq ActiveAdmins'
      BY <3>2 DEF ActiveAdmins, Rows
    <3>4. ActiveAdmins = {request[q].target}
      BY <3>3 DEF LocksOut
    <3>5. CASE Removes(q)
      BY <1>1, <2>3, <3>1, <3>4, <3>5 DEF AInv, NeverTheOnly, At
    <3>6. CASE ~Removes(q)
      <4>1. request[q].target \in ActiveAdmins'
        BY <3>2, <3>4, <3>6, Defaults DEF ActiveAdmins, Rows
      <4>2. QED
        BY <4>1 DEF LocksOut
    <3>7. QED
      BY <3>5, <3>6
  <2>4. ASSUME NEW q \in Requests, Check(q) \/ Abandon(q) PROVE FALSE
    BY <2>1, <2>4 DEF Check, CheckOnboard, CheckRole, CheckActive, Checked, Abandon
  <2>5. ASSUME NEW q \in Requests,
               \/ \E p \in People : \E e \in ClaimedBy[p] : Identify(q, p, e)
               \/ \E e \in Emails : IdentifyByHeader(q, e)
        PROVE  FALSE
    BY <2>1, <2>5 DEF Identify, IdentifyByHeader, Identified
  <2>6. QED
    BY <2>2, <2>3, <2>4, <2>5 DEF Next, ByScript, StaleCount
<1>2. QED
  BY <1>1, AdminInvariance, PTL DEF Spec, SomeAdmin

\* As long as requests come one at a time, a row is bound to one person, once, and
\* only while it is active.  When they overlap it may be bound twice (NeverRebound).
THEOREM BoundForGoodAlways == Spec => BoundForGood
<1>1. ASSUME AInv, [Next]_vars
      PROVE  [calm' => \A e \in Rows : Adoption(e) => users[e].oid = None /\ users[e].active]_vars
  <2> SUFFICES ASSUME Next, calm', NEW e \in Rows, Adoption(e)
               PROVE  users[e].oid = None /\ users[e].active
    BY <1>1
  <2>1. users \in [Emails -> User \cup {None}] /\ request \in [Requests -> Request]
    BY <1>1 DEF AInv, TypeOK
  <2>2. users[e] \in User /\ users'[e] # None /\ users'[e].oid # users[e].oid
    BY <2>1 DEF Adoption, Rows
  <2>3. CASE \E x \in Emails, r \in Roles : SeedUser(x, r)
    BY <2>1, <2>2, <2>3 DEF SeedUser, User, Rows
  <2>4. ASSUME NEW q \in Requests, SignIn(q) PROVE users[e].oid = None /\ users[e].active
    <3>1. At(q, "identified") /\ calm /\ request[q].me \in Emails /\ users[request[q].me] \in User
      BY <1>1, <2>1, <2>4 DEF SignIn, AInv, RowsStay, At, Rows
    <3>2. e = request[q].me /\ request[q].who # None
      BY <2>1, <2>2, <2>4, <3>1 DEF SignIn, User, Rows
    <3>3. QED
      BY <1>1, <3>1, <3>2 DEF AInv, StillPending
  <2>5. ASSUME NEW q \in Requests, Write(q) PROVE FALSE
    <3>1. request[q].target \in Emails /\ At(q, "checked") /\ request[q] \in Request
      BY <2>1, <2>5 DEF Write, Request
    <3>2. CASE Onboard(q)
      BY <2>1, <2>2, <3>1, <3>2 DEF Onboard, Rows
    <3>3. CASE ChangeRole(q)
      BY <2>1, <2>2, <3>1, <3>3 DEF ChangeRole, Rows, User
    <3>4. CASE SetActive(q)
      BY <2>1, <2>2, <3>1, <3>4 DEF SetActive, Rows, User
    <3>5. QED
      BY <2>5, <3>2, <3>3, <3>4 DEF Write
  <2>6. ASSUME NEW q \in Requests, Check(q) \/ Abandon(q) PROVE FALSE
    BY <2>2, <2>6 DEF Check, CheckOnboard, CheckRole, CheckActive, Checked, Abandon
  <2>7. ASSUME NEW q \in Requests,
               \/ \E p \in People : \E x \in ClaimedBy[p] : Identify(q, p, x)
               \/ \E x \in Emails : IdentifyByHeader(q, x)
        PROVE  FALSE
    BY <2>2, <2>7 DEF Identify, IdentifyByHeader, Identified
  <2>8. QED
    BY <2>3, <2>4, <2>5, <2>6, <2>7 DEF Next
<1>2. QED
  BY <1>1, AdminInvariance, PTL DEF Spec, BoundForGood
=============================================================================
