--------------------------- MODULE IdentityProofs ---------------------------
(***************************************************************************)
(* Accounts, families and invitations are correct for any number of        *)
(* concurrent requests, users, families and invitations.  Local says what  *)
(* a request may rely on at each of its statements, because of the rows it *)
(* has locked.  A step of the request itself establishes the next part of  *)
(* it; a step of another request leaves it alone, because two transactions *)
(* never hold the same row.                                                *)
(***************************************************************************)
EXTENDS Identity, FiniteSetTheorems, TLAPS

-----------------------------------------------------------------------------
(* Rows and locks                                                          *)

RowIds ==
    {UserRow(u) : u \in Users} \cup {FamilyRow(f) : f \in Families}
        \cup {MemberRow(f, u) : f \in Families, u \in Users} \cup {InvRow(i) : i \in Invitations}

\* The rows a thread waits for, and those together with the ones it has.
Pending(t) == UNION {want[t][n] : n \in DOMAIN want[t]}
Asked(t)   == held[t] \cup Pending(t)

\* A statement locks one batch of rows, except where delete_account locks families in
\* the order of their ids.
OneBatch(t) ==
    want[t] # <<>> =>
        \E rows \in SUBSET RowIds : want[t] = <<rows>> /\ rows # {} /\ rows \cap held[t] = {}

LockTypes ==
    /\ held \in [Threads -> SUBSET RowIds]
    /\ want \in [Threads -> Seq(SUBSET RowIds)]

-----------------------------------------------------------------------------
(* What a request knows where it stands                                    *)

\* The requests that lock their family, and those of them that change members.
FamilyOps == FamilyFirst \cup {"accept_invitation"}
OwnerOps  == {"change_member_role", "remove_member", "delete_family"}

\* Which request passes through which stage, and with which parameters.
Shape(t) ==
    LET r == req[t]
    IN  /\ r.at \in {"idle", "insert_user", "route"} =>
              held[t] = {} /\ want[t] = <<>> /\ r.op = "none"
        /\ r.at = "insert_user" => r.subject \in Subjects
        /\ r.at = "family"    => r.op \in FamilyOps
        /\ r.at = "requester" => r.op = "delete_family"
        /\ r.at = "owners"    => r.op \in OwnerOps
        /\ r.at = "reference" => r.op \in {"revoke_invitation", "accept_invitation"}
        /\ r.at = "inv"       => r.op = "accept_invitation"
        /\ r.at \in {"user", "families", "memberships", "member", "creators"} => r.op = "delete_account"
        /\ r.at = "commit"    =>
              r.op \in FamilyOps \cup {"delete_account", "list_invitations", "preview"}
        /\ r.at \notin {"idle", "insert_user"} /\ r.op # "preview" => r.user \in Users
        /\ r.op \in FamilyOps /\ r.at # "inv" => r.family \in Families
        /\ r.op \in {"change_member_role", "remove_member"} => r.target \in Users
        /\ r.op = "change_member_role" => r.role \in Roles
        /\ r.op = "create_invitation" => r.role \in {"editor", "viewer"}
        /\ r.op \in {"revoke_invitation", "accept_invitation", "preview"} => r.inv \in Invitations
        /\ r.at # "families" => OneBatch(t)

\* Past _lock_family a request has its family's row, and the family is there.
HasFamily(t) ==
    LET r == req[t]
    IN  \/ r.at \in {"requester", "owners", "reference"}
        \/ r.at = "commit" /\ r.op \in FamilyOps

FamilyLocked(t) ==
    LET r == req[t]
    IN  /\ r.at = "family" => FamilyRow(r.family) \in Asked(t)
        /\ HasFamily(t) => FamilyRow(r.family) \in held[t] /\ r.family \in LiveFamilies

\* The count of owners is still right when the request commits.
Counted(t) ==
    LET r == req[t]
    IN  /\ r.at = "commit" /\ r.op \in OwnerOps => r.owners = Cardinality(Owners(r.family))
        /\ r.op = "delete_family" /\ r.at \in {"owners", "commit"} => role[r.family][r.user] = "owner"
        /\ r.op = "delete_family" /\ r.at = "commit" => r.owners = 1

\* A request that settles an invitation has its row and has seen its status.
Settling(t) ==
    LET r == req[t]
        i == r.inv
    IN  /\ r.op \in {"accept_invitation", "preview"} => inv[i].status # "unused"
        /\ r.op = "accept_invitation" =>
              /\ r.at = "inv" => InvRow(i) \in Asked(t)
              /\ r.at # "inv" =>
                    /\ InvRow(i) \in held[t] /\ family[r.family] # "unused"
                    /\ r.family \in LiveFamilies => inv[i].status = "pending" /\ inv[i].family = r.family
              /\ r.at = "commit" => UserRow(r.user) \in Asked(t)
        /\ r.op = "revoke_invitation" =>
              /\ r.at = "reference" => InvRow(i) \in Asked(t)
              /\ r.at = "commit" => /\ InvRow(i) \in held[t]
                                    /\ i \in Rows(r.family)
                                    /\ inv[i].status \in {"pending", "expired"}
        /\ r.op = "preview" => InvRow(i) \in Asked(t)

\* delete_account has the account's row, so that it joins nothing meanwhile, and then
\* the rows of all families the account is a member of.
Leaving(t) ==
    LET r == req[t]
        u == r.user
        known == {f \in Families : r.seen[f] # "none"}
    IN  r.op = "delete_account" =>
            /\ r.at = "user" => UserRow(u) \in Asked(t) /\ known = {}
            /\ r.at # "user" => UserRow(u) \in held[t]
            /\ r.at = "families" =>
                  Memberships(u) \subseteq known /\ \A f \in known : FamilyRow(f) \in Asked(t)
            /\ r.at \notin {"user", "families"} =>
                  \A f \in Memberships(u) \cup known : FamilyRow(f) \in held[t]
            /\ r.at \in {"creators", "commit"} =>
                  \A f \in Families : r.seen[f] = "owner" => Cardinality(Owners(f)) > 1

\* The rows a request that locks its family first can hold or wait for.
Members(f) == {MemberRow(f, u) : u \in Users}

Ordered(t) ==
    LET r == req[t]
        f == r.family
    IN  r.op \in FamilyFirst =>
            /\ r.at = "family" =>
                  /\ Pending(t) \subseteq {FamilyRow(f)} /\ held[t] \subseteq {FamilyRow(f)}
                  /\ want[t] # <<>> => held[t] = {}
            /\ (\/ r.at \in {"requester", "owners"}
                \/ r.at = "commit" /\ r.op \in {"change_member_role", "remove_member"}) =>
                  Pending(t) \subseteq Members(f) /\ held[t] \subseteq {FamilyRow(f)} \cup Members(f)
            /\ r.at = "commit" /\ r.op = "delete_family" =>
                  /\ Pending(t) \subseteq Members(f) \cup {InvRow(i) : i \in Rows(f)}
                  /\ held[t] \subseteq {FamilyRow(f)} \cup Members(f) \cup {InvRow(i) : i \in Rows(f)}
            /\ r.at = "commit" /\ r.op = "create_invitation" =>
                  Pending(t) \subseteq {UserRow(r.user)} /\ (want[t] # <<>> => held[t] = {FamilyRow(f)})
            /\ r.at = "reference" =>
                  /\ Pending(t) \subseteq {InvRow(r.inv)} /\ held[t] \subseteq {FamilyRow(f), InvRow(r.inv)}
                  /\ want[t] # <<>> => held[t] = {FamilyRow(f)}
            /\ r.at = "commit" /\ r.op = "revoke_invitation" =>
                  /\ Pending(t) \subseteq {UserRow(r.user)}
                  /\ want[t] # <<>> => held[t] = {FamilyRow(f), InvRow(r.inv)}

Local(t) ==
    Shape(t) /\ FamilyLocked(t) /\ Counted(t) /\ Settling(t) /\ Leaving(t) /\ Ordered(t)

IInv ==
    /\ TypeOK /\ LockTypes
    /\ OneAccountPerSubject /\ ReferencesLive
    /\ \A t \in Threads : Local(t)

-----------------------------------------------------------------------------
(* Locks                                                                   *)

\* The four tables have different rows.
LEMMA RowsDiffer ==
    /\ \A u, v : UserRow(u) = UserRow(v) <=> u = v
    /\ \A f, g : FamilyRow(f) = FamilyRow(g) <=> f = g
    /\ \A f, g, u, v : MemberRow(f, u) = MemberRow(g, v) <=> f = g /\ u = v
    /\ \A i, j : InvRow(i) = InvRow(j) <=> i = j
    /\ \A u, f : UserRow(u) # FamilyRow(f)
    /\ \A u, f, v : UserRow(u) # MemberRow(f, v)
    /\ \A u, i : UserRow(u) # InvRow(i)
    /\ \A f, g, u : FamilyRow(f) # MemberRow(g, u)
    /\ \A f, i : FamilyRow(f) # InvRow(i)
    /\ \A f, u, i : MemberRow(f, u) # InvRow(i)
BY DEF UserRow, FamilyRow, MemberRow, InvRow

LEMMA RowsAreIds ==
    /\ \A u \in Users : UserRow(u) \in RowIds
    /\ \A f \in Families : FamilyRow(f) \in RowIds
    /\ \A f \in Families, u \in Users : MemberRow(f, u) \in RowIds
    /\ \A i \in Invitations : InvRow(i) \in RowIds
BY DEF RowIds

\* No row is held by two transactions.
Disjoint == \A s, t \in Threads : s # t => held[s] \cap held[t] = {}

\* A statement in no particular order, and the end of a transaction.
LEMMA AnyOrderBatch ==
    ASSUME LockTypes, NEW t \in Threads, NEW rows \in SUBSET RowIds,
           Statement(t, AnyOrder(t, rows))
    PROVE  /\ LockTypes' /\ OneBatch(t)' /\ held' = held
           /\ Pending(t)' = rows \ held[t]
           /\ Asked(t)' = held[t] \cup rows
           /\ \A s \in Threads \ {t} : want'[s] = want[s]
<1>1. want' = [want EXCEPT ![t] = AnyOrder(t, rows)] /\ held' = held
  BY DEF Statement
<1>2. want'[t] = AnyOrder(t, rows) /\ \A s \in Threads \ {t} : want'[s] = want[s]
  BY <1>1 DEF LockTypes
<1>3. CASE rows \subseteq held[t]
  <2>1. want'[t] = <<>>
    BY <1>2, <1>3 DEF AnyOrder
  <2>2. Pending(t)' = {}
    BY <2>1 DEF Pending
  <2>3. <<>> \in Seq(SUBSET RowIds)
    OBVIOUS
  <2> QED
    BY <1>1, <1>2, <1>3, <2>1, <2>2, <2>3 DEF LockTypes, OneBatch, Asked
<1>4. CASE ~(rows \subseteq held[t])
  <2>1. want'[t] = <<rows \ held[t]>>
    BY <1>2, <1>4 DEF AnyOrder
  <2>2. Pending(t)' = rows \ held[t]
    BY <2>1 DEF Pending
  <2>3. <<rows \ held[t]>> \in Seq(SUBSET RowIds)
    OBVIOUS
  <2>4. LockTypes'
    BY <1>1, <1>2, <2>1, <2>3 DEF LockTypes
  <2>5. OneBatch(t)'
    BY <1>1, <1>4, <2>1 DEF OneBatch
  <2> QED
    BY <1>1, <1>2, <2>2, <2>4, <2>5 DEF Asked
<1> QED BY <1>3, <1>4

LEMMA ReleaseLocks ==
    ASSUME LockTypes, Disjoint, NEW t \in Threads, ReleaseAll(t)
    PROVE  /\ LockTypes' /\ Disjoint' /\ held'[t] = {} /\ want'[t] = <<>>
           /\ \A s \in Threads \ {t} : held'[s] = held[s] /\ want'[s] = want[s]
<1>1. <<>> \in Seq(SUBSET RowIds)
  OBVIOUS
<1> QED BY <1>1 DEF LockTypes, Disjoint, ReleaseAll

\* A statement that waits for one row is done once it has a lock.
LEMMA LastLock ==
    ASSUME NEW t \in Threads, NEW x, LockTypes, Pending(t) \subseteq {x}, OneBatch(t)',
           NEW row \in Pending(t), held'[t] = held[t] \cup {row}, Pending(t)' \subseteq Pending(t)
    PROVE  want'[t] = <<>>
<1> SUFFICES ASSUME want'[t] # <<>> PROVE FALSE
  OBVIOUS
<1>1. PICK rows \in SUBSET RowIds : want'[t] = <<rows>> /\ rows # {} /\ rows \cap held'[t] = {}
  BY DEF OneBatch
<1>2. rows \subseteq Pending(t)'
  BY <1>1 DEF Pending
<1> QED BY <1>1, <1>2

LEMMA NothingPending ==
    ASSUME NEW t \in Threads, want[t] = <<>>
    PROVE  Pending(t) = {} /\ Asked(t) = held[t]
BY DEF Pending, Asked

\* A lock granted is one of the rows waited for, and nobody else's.
LEMMA LockRowStep ==
    ASSUME LockTypes, Disjoint, NEW t \in Threads, LockRow(t)
    PROVE  /\ LockTypes' /\ Disjoint'
           /\ held[t] \subseteq held'[t] /\ Asked(t)' = Asked(t) /\ Pending(t)' \subseteq Pending(t)
           /\ want[t] # <<>>
           /\ OneBatch(t) => OneBatch(t)'
           /\ \E row \in Pending(t) : held'[t] = held[t] \cup {row}
           /\ \A s \in Threads \ {t} : held'[s] = held[s] /\ want'[s] = want[s]
<1>1. PICK row \in NextRows(t) :
          /\ Free(t, row)
          /\ held' = [held EXCEPT ![t] = @ \cup {row}]
          /\ want' = [want EXCEPT ![t] = IF Head(@) = {row} THEN Tail(@)
                                         ELSE <<Head(@) \ {row}>> \o Tail(@)]
  BY DEF LockRow
<1>2. want[t] # <<>> /\ row \in Head(want[t]) /\ want[t] \in Seq(SUBSET RowIds)
  BY <1>1 DEF NextRows, LockTypes
<1>3. /\ Len(want[t]) \in Nat \ {0} /\ Head(want[t]) = want[t][1]
      /\ 1 \in DOMAIN want[t] /\ want[t][1] \in SUBSET RowIds
      /\ Tail(want[t]) \in Seq(SUBSET RowIds)
      /\ DOMAIN want[t] = 1 .. Len(want[t])
  BY <1>2
<1>4. row \in RowIds /\ row \in Pending(t)
  BY <1>2, <1>3 DEF Pending
<1>5. /\ held'[t] = held[t] \cup {row}
      /\ \A s \in Threads \ {t} : held'[s] = held[s] /\ want'[s] = want[s]
  BY <1>1 DEF LockTypes
<1>6. Disjoint'
  BY <1>1, <1>5 DEF Disjoint, Free
<1>7. CASE want[t][1] = {row}
  <2>1. want'[t] = Tail(want[t])
    BY <1>1, <1>3, <1>7 DEF LockTypes
  <2>2. LockTypes'
    BY <1>1, <1>3, <1>4, <1>7 DEF LockTypes
  <2>3. /\ DOMAIN Tail(want[t]) = 1 .. Len(want[t]) - 1
        /\ \A n \in 1 .. Len(want[t]) - 1 : Tail(want[t])[n] = want[t][n + 1]
    BY <1>3
  <2>4. Pending(t)' \subseteq Pending(t)
    <3> SUFFICES ASSUME NEW n \in 1 .. Len(want[t]) - 1 PROVE want[t][n + 1] \subseteq Pending(t)
      BY <2>1, <2>3 DEF Pending
    <3>1. n + 1 \in DOMAIN want[t]
      BY <1>3
    <3> QED BY <3>1 DEF Pending
  <2>5. Pending(t) \subseteq Pending(t)' \cup {row}
    <3> SUFFICES ASSUME NEW n \in 1 .. Len(want[t]) PROVE want[t][n] \subseteq Pending(t)' \cup {row}
      BY <1>3 DEF Pending
    <3>1. CASE n = 1
      BY <1>7, <3>1
    <3>2. CASE n # 1
      <4>1. n - 1 \in 1 .. Len(want[t]) - 1 /\ Tail(want[t])[n - 1] = want[t][n]
        BY <1>3, <2>3, <3>2
      <4> QED BY <2>1, <2>3, <4>1 DEF Pending
    <3> QED BY <3>1, <3>2
  <2>6. OneBatch(t) => OneBatch(t)'
    <3> SUFFICES ASSUME OneBatch(t) PROVE want'[t] = <<>>
      BY DEF OneBatch
    <3>1. PICK rows \in SUBSET RowIds : want[t] = <<rows>>
      BY <1>2 DEF OneBatch
    <3> QED BY <2>1, <3>1
  <2> QED BY <1>2, <1>4, <1>5, <1>6, <2>2, <2>4, <2>5, <2>6 DEF Asked
<1>8. CASE want[t][1] # {row}
  <2>1. want'[t] = <<want[t][1] \ {row}>> \o Tail(want[t])
    BY <1>1, <1>3, <1>8 DEF LockTypes
  <2>2. want'[t] \in Seq(SUBSET RowIds) /\ DOMAIN want'[t] = DOMAIN want[t]
    BY <1>2, <1>3, <2>1
  <2>3. LockTypes'
    BY <1>1, <1>4, <1>5, <2>2 DEF LockTypes
  <2>4. /\ want'[t][1] = want[t][1] \ {row}
        /\ \A n \in DOMAIN want[t] : n # 1 => want'[t][n] = want[t][n]
    BY <1>3, <2>1
  <2>5. Pending(t)' \subseteq Pending(t)
    BY <1>3, <2>2, <2>4 DEF Pending
  <2>6. Pending(t) \subseteq Pending(t)' \cup {row}
    BY <1>3, <2>2, <2>4 DEF Pending
  <2>7. OneBatch(t) => OneBatch(t)'
    <3> SUFFICES ASSUME OneBatch(t) PROVE OneBatch(t)'
      OBVIOUS
    <3>1. PICK rows \in SUBSET RowIds : want[t] = <<rows>> /\ rows # {} /\ rows \cap held[t] = {}
      BY <1>2 DEF OneBatch
    <3>2. want'[t] = <<rows \ {row}>> /\ rows # {row} /\ row \in rows
      BY <1>2, <1>3, <1>8, <2>1, <3>1
    <3> QED BY <1>5, <3>1, <3>2 DEF OneBatch
  <2> QED BY <1>2, <1>4, <1>5, <1>6, <2>3, <2>5, <2>6, <2>7 DEF Asked
<1> QED BY <1>7, <1>8

\* Locking families in the order of their ids asks for each of them.
LEMMA ByKeyCovers ==
    ASSUME NEW keys \in SUBSET Families
    PROVE  /\ ByKey(keys, FamilyRow) \in Seq(SUBSET RowIds)
           /\ \A f \in keys :
                 \E n \in DOMAIN ByKey(keys, FamilyRow) : FamilyRow(f) \in ByKey(keys, FamilyRow)[n]
<1>1. IsFiniteSet(keys) /\ Cardinality(keys) \in Nat
  <2>1. IsFiniteSet(1..NumFamilies)
    BY FS_Interval, IdentityAssumption
  <2>2. IsFiniteSet(keys)
    BY <2>1, FS_Subset DEF Families
  <2> QED BY <2>2, FS_CardinalityType
<1> DEFINE batches == [n \in 1..Cardinality(keys) |->
               {FamilyRow(k) : k \in {j \in keys : Cardinality({i \in keys : i < j}) = n - 1}}]
<1>2. ByKey(keys, FamilyRow) = batches
  BY DEF ByKey
<1>3. batches \in Seq(SUBSET RowIds)
  <2>1. batches \in [1..Cardinality(keys) -> SUBSET RowIds]
    BY RowsAreIds
  <2> HIDE DEF batches
  <2> QED BY <1>1, <2>1
<1>4. ASSUME NEW f \in keys
      PROVE  \E n \in DOMAIN batches : FamilyRow(f) \in batches[n]
  <2> DEFINE below == {i \in keys : i < f}
             c == Cardinality(below)
  <2>1. below \subseteq keys \ {f}
    BY DEF Families
  <2>2. IsFiniteSet(keys \ {f}) /\ Cardinality(keys \ {f}) = Cardinality(keys) - 1
    BY <1>1, FS_RemoveElement
  <2>3. IsFiniteSet(below) /\ c <= Cardinality(keys) - 1
    BY <2>1, <2>2, FS_Subset
  <2>4. c \in Nat
    BY <2>3, FS_CardinalityType
  <2>5. c + 1 \in 1..Cardinality(keys) /\ c = (c + 1) - 1
    BY <1>1, <2>3, <2>4
  <2> HIDE DEF c
  <2>6. FamilyRow(f) \in {FamilyRow(k) : k \in {j \in keys : Cardinality({i \in keys : i < j}) = (c + 1) - 1}}
    BY <2>5 DEF c
  <2> QED BY <2>5, <2>6
<1> QED BY <1>2, <1>3, <1>4

-----------------------------------------------------------------------------
(* Rows, requests and the threads a step leaves alone                      *)

RowTypes ==
    /\ account \in [Users -> Subjects \cup {"unused", "deleted"}]
    /\ family \in [Families -> {"unused", "live", "deleted"}]
    /\ creator \in [Families -> Users \cup {NoUser}]
    /\ role \in [Families -> [Users -> Roles \cup {"none"}]]
    /\ inv \in [Invitations -> InvitationRow]
    /\ late \subseteq Invitations

ReqTypes == req \in [Threads -> Request]

LEMMA TypeParts ==
    /\ TypeOK <=> RowTypes /\ ReqTypes /\ Disjoint
    /\ TypeOK' <=> RowTypes' /\ ReqTypes' /\ Disjoint'
BY DEF TypeOK, RowTypes, ReqTypes, Disjoint

LEMMA NoRequestType == NoRequest \in Request
<1>1. 0 \in 0..Cardinality(Users)
  BY IdentityAssumption, FS_CardinalityType
<1> QED BY <1>1 DEF NoRequest, Request, Ops, Stages

\* The state of the other threads is theirs.
Others(t) ==
    \A s \in Threads \ {t} : req'[s] = req[s] /\ held'[s] = held[s] /\ want'[s] = want[s]

\* The next statement of a request: where it stands, and what it asks for.
LEMMA ProceedStep ==
    ASSUME LockTypes, ReqTypes, Disjoint, NEW t \in Threads, NEW r \in Request, NEW s \in Stages,
           NEW rows \in SUBSET RowIds, Proceed(t, r, s, rows)
    PROVE  /\ LockTypes' /\ ReqTypes' /\ Disjoint' /\ Others(t) /\ OneBatch(t)'
           /\ held'[t] = held[t] /\ Pending(t)' = rows \ held[t] /\ Asked(t)' = held[t] \cup rows
           /\ req'[t].at = s /\ req'[t].op = r.op /\ req'[t].user = r.user
           /\ req'[t].family = r.family /\ req'[t].target = r.target /\ req'[t].role = r.role
           /\ req'[t].inv = r.inv /\ req'[t].owners = r.owners /\ req'[t].seen = r.seen
<1> DEFINE x == [r EXCEPT !.at = s]
<1>1. /\ x \in Request
      /\ x.at = s /\ x.op = r.op /\ x.user = r.user /\ x.family = r.family /\ x.target = r.target
      /\ x.role = r.role /\ x.inv = r.inv /\ x.owners = r.owners /\ x.seen = r.seen
  BY DEF Request
<1>2. req' = [req EXCEPT ![t] = x] /\ Statement(t, AnyOrder(t, rows))
  BY DEF Proceed
<1> HIDE DEF x
<1>3. /\ ReqTypes' /\ req'[t] = x
      /\ \A o \in Threads \ {t} : req'[o] = req[o]
  BY <1>1, <1>2 DEF ReqTypes
<1>4. /\ LockTypes' /\ OneBatch(t)' /\ held' = held
      /\ Pending(t)' = rows \ held[t] /\ Asked(t)' = held[t] \cup rows
      /\ \A o \in Threads \ {t} : want'[o] = want[o]
  BY <1>2, AnyOrderBatch
<1>5. Disjoint'
  BY <1>4 DEF Disjoint
<1> QED BY <1>1, <1>3, <1>4, <1>5 DEF Others

\* The end of a transaction leaves a thread nothing to rely on.
LEMMA FinishStep ==
    ASSUME LockTypes, ReqTypes, Disjoint, NEW t \in Threads, Finish(t)
    PROVE  LockTypes' /\ ReqTypes' /\ Disjoint' /\ Others(t) /\ Local(t)'
<1>1. /\ LockTypes' /\ Disjoint' /\ held'[t] = {} /\ want'[t] = <<>>
      /\ \A s \in Threads \ {t} : held'[s] = held[s] /\ want'[s] = want[s]
  BY ReleaseLocks DEF Finish
<1>2. /\ ReqTypes' /\ req'[t] = NoRequest
      /\ \A s \in Threads \ {t} : req'[s] = req[s]
  BY NoRequestType DEF Finish, ReqTypes
<1>3. req'[t].at = "idle" /\ req'[t].op = "none"
  BY <1>2 DEF NoRequest
<1>4. Shape(t)'
  BY <1>1, <1>3 DEF Shape, OneBatch, FamilyOps, FamilyFirst
<1>5. FamilyLocked(t)' /\ Counted(t)' /\ Settling(t)' /\ Leaving(t)' /\ Ordered(t)'
  BY <1>3 DEF FamilyLocked, HasFamily, Counted, OwnerOps, Settling, Leaving, Ordered, FamilyFirst
<1> QED BY <1>1, <1>2, <1>4, <1>5 DEF Others, Local

\* What a request that is granted its rows has of them.
LEMMA GrantedHolds ==
    ASSUME NEW t \in Threads, NEW s, Runs(t, s)
    PROVE  req[t].at = s /\ want[t] = <<>> /\ Pending(t) = {} /\ Asked(t) = held[t]
BY DEF Runs, Granted, Pending, Asked

-----------------------------------------------------------------------------
(* What a request does to the rows another one relies on                   *)

\* Families come, and go under their lock.
FamiliesKept(s) ==
    \A f \in Families : family'[f] # family[f] =>
        \/ family[f] = "unused" /\ family'[f] = "live"
        \/ FamilyRow(f) \in held[s] /\ family'[f] = "deleted"

\* The members of a family change under its lock, but for a user who joins, and whose
\* account's row no other request has.
RolesKept(s) ==
    /\ \A f \in Families : family[f] # "unused" /\ FamilyRow(f) \notin held[s] => role'[f] = role[f]
    /\ \A f \in Families, u \in Users :
          role[f][u] = "none" /\ role'[f][u] # "none" => Free(s, UserRow(u))

\* An invitation changes under its own lock or under its family's.
InvitationsKept(s) ==
    \A i \in Invitations :
        /\ inv[i].status # "unused" => inv'[i].status # "unused"
        /\ \A f \in Families : i \in Rows(f) /\ FamilyRow(f) \notin held[s] => i \in Rows(f)'
        /\ inv[i].status \in InvitationStatus /\ inv'[i].status # inv[i].status =>
              InvRow(i) \in held[s] \/ (FamilyRow(inv[i].family) \in held[s] /\ family'[inv[i].family] # "live")
        /\ inv[i].status \in InvitationStatus /\ inv'[i].family # inv[i].family =>
              FamilyRow(inv[i].family) \in held[s] /\ family'[inv[i].family] # "live"

Kept(s) == FamiliesKept(s) /\ RolesKept(s) /\ InvitationsKept(s)

LEMMA UnchangedKept ==
    ASSUME NEW s \in Threads, UNCHANGED rowVars
    PROVE  Kept(s)
BY DEF Kept, FamiliesKept, RolesKept, InvitationsKept, rowVars, Rows

\* So it leaves alone what another one relies on.
LEMMA Stable ==
    ASSUME IInv, NEW s \in Threads, NEW t \in Threads, s # t, Others(s), Kept(s)
    PROVE  Local(t)'
<1>1. /\ RowTypes /\ ReqTypes /\ Disjoint /\ LockTypes /\ ReferencesLive
      /\ Shape(t) /\ FamilyLocked(t) /\ Counted(t) /\ Settling(t) /\ Leaving(t) /\ Ordered(t)
  BY TypeParts DEF IInv, Local
<1>2. req'[t] = req[t] /\ held'[t] = held[t] /\ want'[t] = want[t]
  BY DEF Others
<1>3. Pending(t)' = Pending(t) /\ Asked(t)' = Asked(t) /\ (OneBatch(t) => OneBatch(t)')
  BY <1>2 DEF Pending, Asked, OneBatch
<1>4. \A row : row \in held[t] => row \notin held[s]
  BY <1>1 DEF Disjoint
<1>5. req[t] \in Request
  BY <1>1 DEF ReqTypes
<1>6. Shape(t)'
  BY <1>1, <1>2, <1>3 DEF Shape
<1>7. \A f \in Families : FamilyRow(f) \in held[t] /\ f \in LiveFamilies => f \in LiveFamilies'
  BY <1>4 DEF Kept, FamiliesKept, LiveFamilies
<1>8. \A f \in Families : FamilyRow(f) \in held[t] /\ family[f] # "unused" =>
         role'[f] = role[f] /\ Owners(f)' = Owners(f)
  BY <1>4 DEF Kept, RolesKept, Owners
<1>9. \A f \in Families, i \in Invitations : FamilyRow(f) \in held[t] /\ i \in Rows(f) => i \in Rows(f)'
  BY <1>4 DEF Kept, InvitationsKept
<1>10. HasFamily(t)' <=> HasFamily(t)
  BY <1>2 DEF HasFamily
<1>11. FamilyLocked(t)'
  BY <1>1, <1>2, <1>3, <1>7, <1>10 DEF FamilyLocked, LiveFamilies
<1>12. Counted(t)'
  <2>1. CASE req[t].op \in OwnerOps /\ req[t].at \in {"owners", "commit"}
    <3>1. HasFamily(t)
      BY <2>1 DEF HasFamily, OwnerOps, FamilyOps, FamilyFirst
    <3>2. FamilyRow(req[t].family) \in held[t] /\ req[t].family \in Families /\ family[req[t].family] # "unused"
      BY <1>1, <3>1 DEF FamilyLocked, LiveFamilies
    <3>3. role'[req[t].family] = role[req[t].family] /\ Owners(req[t].family)' = Owners(req[t].family)
      BY <1>2, <1>8, <3>2
    <3> QED BY <1>1, <1>2, <3>3 DEF Counted
  <2>2. CASE ~(req[t].op \in OwnerOps /\ req[t].at \in {"owners", "commit"})
    BY <1>2, <2>2 DEF Counted, OwnerOps
  <2> QED BY <2>1, <2>2
<1>13. Settling(t)'
  <2> DEFINE r == req[t]
             i == req[t].inv
  <2>1. CASE r.op = "accept_invitation"
    <3>1. i \in Invitations /\ inv[i].status # "unused"
      BY <1>1, <2>1 DEF Shape, Settling
    <3>2. inv'[i].status # "unused"
      BY <3>1 DEF Kept, InvitationsKept
    <3>3. ASSUME r.at # "inv"
          PROVE  /\ InvRow(i) \in held[t] /\ family'[r.family] # "unused"
                 /\ r.family \in LiveFamilies' => inv'[i].status = "pending" /\ inv'[i].family = r.family
      <4>1. InvRow(i) \in held[t] /\ family[r.family] # "unused" /\ r.family \in Families
        BY <1>1, <2>1, <3>3 DEF Settling, Shape, FamilyOps
      <4>2. family'[r.family] # "unused"
        BY <4>1 DEF Kept, FamiliesKept
      <4>3. ASSUME r.family \in LiveFamilies'
            PROVE  inv'[i].status = "pending" /\ inv'[i].family = r.family
        <5>1. family'[r.family] = "live"
          BY <4>3 DEF LiveFamilies
        <5>2. r.family \in LiveFamilies
          BY <1>1, <4>1, <5>1 DEF Kept, FamiliesKept, LiveFamilies, RowTypes
        <5>3. inv[i].status = "pending" /\ inv[i].family = r.family
          BY <1>1, <2>1, <3>3, <5>2 DEF Settling
        <5>4. InvRow(i) \notin held[s]
          BY <1>4, <4>1
        <5> QED BY <3>1, <5>1, <5>3, <5>4 DEF Kept, InvitationsKept, InvitationStatus
      <4> QED BY <4>1, <4>2, <4>3
    <3> QED BY <1>1, <1>2, <1>3, <2>1, <3>1, <3>2, <3>3 DEF Settling
  <2>2. CASE r.op = "revoke_invitation"
    <3>1. ASSUME r.at = "commit"
          PROVE  /\ InvRow(i) \in held[t] /\ i \in Rows(r.family)'
                 /\ inv'[i].status \in {"pending", "expired"}
      <4>1. /\ InvRow(i) \in held[t] /\ i \in Rows(r.family)
            /\ inv[i].status \in {"pending", "expired"}
        BY <1>1, <2>2, <3>1 DEF Settling
      <4>2. i \in Invitations /\ r.family \in Families /\ inv[i].family = r.family
        BY <1>1, <2>2, <3>1, <4>1 DEF Shape, FamilyOps, FamilyFirst, Rows
      <4>3. FamilyRow(r.family) \in held[t]
        BY <1>1, <2>2, <3>1 DEF FamilyLocked, HasFamily, FamilyOps, FamilyFirst
      <4>4. FamilyRow(r.family) \notin held[s] /\ InvRow(i) \notin held[s]
        BY <1>4, <4>1, <4>3
      <4>5. inv'[i].status = inv[i].status
        BY <4>1, <4>2, <4>4 DEF Kept, InvitationsKept, InvitationStatus
      <4> QED BY <1>2, <1>9, <4>1, <4>2, <4>3, <4>5
    <3> QED BY <1>1, <1>2, <1>3, <2>2, <3>1 DEF Settling
  <2>3. CASE r.op = "preview"
    <3>1. i \in Invitations /\ inv[i].status # "unused"
      BY <1>1, <2>3 DEF Shape, Settling
    <3>2. inv'[i].status # "unused"
      BY <3>1 DEF Kept, InvitationsKept
    <3> QED BY <1>1, <1>2, <1>3, <2>3, <3>2 DEF Settling
  <2>4. CASE r.op \notin {"accept_invitation", "revoke_invitation", "preview"}
    BY <1>2, <2>4 DEF Settling
  <2> QED BY <2>1, <2>2, <2>3, <2>4
<1>14. Leaving(t)'
  <2> DEFINE r == req[t]
             u == req[t].user
  <2> SUFFICES ASSUME r.op = "delete_account" PROVE Leaving(t)'
    BY <1>2 DEF Leaving
  <2>1. r.at = "user" => Leaving(t)'
    BY <1>1, <1>2, <1>3 DEF Leaving
  <2>2. ASSUME r.at # "user"
        PROVE  UserRow(u) \in held[t] /\ Memberships(u)' \subseteq Memberships(u)
    <3>1. UserRow(u) \in held[t]
      BY <1>1, <2>2 DEF Leaving
    <3>2. ~ Free(s, UserRow(u))
      BY <3>1 DEF Free
    <3>3. u \in Users
      BY <1>1, <2>2 DEF Shape
    <3> QED BY <1>2, <3>1, <3>2, <3>3 DEF Kept, RolesKept, Memberships
  <2>3. ASSUME r.at \in {"creators", "commit"}, NEW f \in Families, r.seen[f] = "owner"
        PROVE  Cardinality(Owners(f))' > 1
    <3>1. FamilyRow(f) \in held[t] /\ Cardinality(Owners(f)) > 1
      BY <1>1, <2>3 DEF Leaving
    <3>2. Owners(f) # {}
      BY <3>1, FS_EmptySet
    <3>3. family[f] = "live"
      BY <1>1, <3>2 DEF Owners, ReferencesLive, LiveFamilies
    <3> QED BY <1>8, <3>1, <3>3
  <2> QED BY <1>1, <1>2, <1>3, <2>1, <2>2, <2>3 DEF Leaving
<1>15. Ordered(t)'
  <2> DEFINE f == req[t].family
             i == req[t].inv
  <2>1. CASE req[t].at = "commit" /\ req[t].op = "delete_family"
    <3>1. FamilyRow(f) \in held[t] /\ f \in Families
      BY <1>1, <2>1 DEF FamilyLocked, HasFamily, FamilyOps, FamilyFirst, LiveFamilies
    <3>2. {InvRow(j) : j \in Rows(f)} \subseteq {InvRow(j) : j \in Rows(f)}'
      BY <1>2, <1>9, <3>1 DEF Rows
    <3> QED BY <1>1, <1>2, <1>3, <2>1, <3>2 DEF Ordered, Members
  <2>2. CASE ~(req[t].at = "commit" /\ req[t].op = "delete_family")
    BY <1>1, <1>2, <1>3, <2>2 DEF Ordered, Members
  <2> QED BY <2>1, <2>2
<1> QED BY <1>6, <1>11, <1>12, <1>13, <1>14, <1>15 DEF Local

-----------------------------------------------------------------------------
(* The steps of a request that only lock and read                          *)

\* What such a step leaves the thread that takes it, and the others.
OwnStep(t) == LockTypes' /\ ReqTypes' /\ Disjoint' /\ Others(t) /\ Local(t)'

LEMMA Facts ==
    ASSUME IInv, NEW t \in Threads
    PROVE  /\ RowTypes /\ ReqTypes /\ Disjoint /\ LockTypes /\ ReferencesLive /\ OneAccountPerSubject
           /\ req[t] \in Request
           /\ Shape(t) /\ FamilyLocked(t) /\ Counted(t) /\ Settling(t) /\ Leaving(t) /\ Ordered(t)
BY TypeParts DEF IInv, Local, ReqTypes

LEMMA RowsSame ==
    ASSUME UNCHANGED rowVars
    PROVE  /\ account' = account /\ family' = family /\ creator' = creator
           /\ role' = role /\ inv' = inv
           /\ LiveFamilies' = LiveFamilies /\ LiveUsers' = LiveUsers
BY DEF rowVars, LiveFamilies, LiveUsers

\* A routed request that locks its family first.
LEMMA EnterFamily ==
    ASSUME IInv, NEW t \in Threads, NEW r \in Request, req[t].at = "route",
           r.op \in FamilyFirst, r.family \in Families,
           r.op \in {"change_member_role", "remove_member"} => r.target \in Users,
           r.op = "change_member_role" => r.role \in Roles,
           r.op = "create_invitation" => r.role \in {"editor", "viewer"},
           r.op = "revoke_invitation" => r.inv \in Invitations,
           Enter(t, r, "family", {FamilyRow(r.family)})
    PROVE  OwnStep(t)
<1>1. /\ LockTypes /\ ReqTypes /\ Disjoint /\ req[t] \in Request
      /\ held[t] = {} /\ req[t].user \in Users
  BY Facts DEF Shape
<1> DEFINE x == [r EXCEPT !.user = req[t].user]
<1>2. /\ x \in Request /\ x.user \in Users
      /\ x.op = r.op /\ x.family = r.family /\ x.target = r.target /\ x.role = r.role /\ x.inv = r.inv
  BY <1>1 DEF Request
<1>3. Proceed(t, x, "family", {FamilyRow(r.family)})
  BY DEF Enter
<1> HIDE DEF x
<1>4. {FamilyRow(r.family)} \in SUBSET RowIds /\ "family" \in Stages
  BY RowsAreIds DEF Stages
<1>5. /\ LockTypes' /\ ReqTypes' /\ Disjoint' /\ Others(t) /\ OneBatch(t)'
      /\ held'[t] = {} /\ Pending(t)' = {FamilyRow(r.family)} /\ Asked(t)' = {FamilyRow(r.family)}
      /\ req'[t].at = "family" /\ req'[t].op = r.op /\ req'[t].user = x.user
      /\ req'[t].family = r.family /\ req'[t].target = r.target /\ req'[t].role = r.role
      /\ req'[t].inv = r.inv
  BY <1>1, <1>2, <1>3, <1>4, ProceedStep
<1>6. Shape(t)'
  BY <1>2, <1>5 DEF Shape, FamilyOps, FamilyFirst
<1>7. FamilyLocked(t)' /\ Counted(t)' /\ Settling(t)' /\ Leaving(t)' /\ Ordered(t)'
  BY <1>5 DEF FamilyLocked, HasFamily, Counted, Settling, Leaving, Ordered, FamilyFirst
<1> QED BY <1>5, <1>6, <1>7 DEF OwnStep, Local

LEMMA RouteFamilyStep ==
    ASSUME IInv, NEW t \in Threads, NEW f \in Families, req[t].at = "route",
           \/ RouteDeleteFamily(t, f)
           \/ \E u \in Users : RouteRemoveMember(t, f, u)
           \/ \E u \in Users, r \in Roles : RouteChangeRole(t, f, u, r)
           \/ \E r \in Roles : RouteCreateInvitation(t, f, r)
           \/ \E i \in Invitations : RouteRevokeInvitation(t, f, i)
    PROVE  OwnStep(t) /\ UNCHANGED <<rowVars, late>>
<1>1. CASE RouteDeleteFamily(t, f)
  <2> DEFINE r == [NoRequest EXCEPT !.op = "delete_family", !.family = f]
  <2>1. r \in Request /\ r.op = "delete_family" /\ r.family = f
    BY NoRequestType DEF Request, Ops
  <2>2. Enter(t, r, "family", {FamilyRow(f)})
    BY <1>1 DEF RouteDeleteFamily
  <2> HIDE DEF r
  <2>3. OwnStep(t)
    BY <2>1, <2>2, EnterFamily DEF FamilyFirst
  <2> QED BY <2>2, <2>3 DEF Enter
<1>2. ASSUME NEW u \in Users, RouteRemoveMember(t, f, u)
      PROVE  OwnStep(t) /\ UNCHANGED <<rowVars, late>>
  <2> DEFINE r == [NoRequest EXCEPT !.op = "remove_member", !.family = f, !.target = u]
  <2>1. r \in Request /\ r.op = "remove_member" /\ r.family = f /\ r.target = u
    BY NoRequestType DEF Request, Ops
  <2>2. Enter(t, r, "family", {FamilyRow(f)})
    BY <1>2 DEF RouteRemoveMember
  <2> HIDE DEF r
  <2>3. OwnStep(t)
    BY <2>1, <2>2, EnterFamily DEF FamilyFirst
  <2> QED BY <2>2, <2>3 DEF Enter
<1>3. ASSUME NEW u \in Users, NEW x \in Roles, RouteChangeRole(t, f, u, x)
      PROVE  OwnStep(t) /\ UNCHANGED <<rowVars, late>>
  <2> DEFINE r == [NoRequest EXCEPT !.op = "change_member_role", !.family = f,
                                    !.target = u, !.role = x]
  <2>1. r \in Request /\ r.op = "change_member_role" /\ r.family = f /\ r.target = u /\ r.role = x
    BY NoRequestType DEF Request, Ops
  <2>2. Enter(t, r, "family", {FamilyRow(f)})
    BY <1>3 DEF RouteChangeRole
  <2> HIDE DEF r
  <2>3. OwnStep(t)
    BY <2>1, <2>2, EnterFamily DEF FamilyFirst
  <2> QED BY <2>2, <2>3 DEF Enter
<1>4. ASSUME NEW x \in Roles, RouteCreateInvitation(t, f, x)
      PROVE  OwnStep(t) /\ UNCHANGED <<rowVars, late>>
  <2> DEFINE r == [NoRequest EXCEPT !.op = "create_invitation", !.family = f, !.role = x]
  <2>1. r \in Request /\ r.op = "create_invitation" /\ r.family = f /\ r.role = x
    BY NoRequestType DEF Request, Ops
  <2>2. Enter(t, r, "family", {FamilyRow(f)}) /\ x \in {"editor", "viewer"}
    BY <1>4 DEF RouteCreateInvitation
  <2> HIDE DEF r
  <2>3. OwnStep(t)
    BY <2>1, <2>2, EnterFamily DEF FamilyFirst
  <2> QED BY <2>2, <2>3 DEF Enter
<1>5. ASSUME NEW i \in Invitations, RouteRevokeInvitation(t, f, i)
      PROVE  OwnStep(t) /\ UNCHANGED <<rowVars, late>>
  <2> DEFINE r == [NoRequest EXCEPT !.op = "revoke_invitation", !.family = f, !.inv = i]
  <2>1. r \in Request /\ r.op = "revoke_invitation" /\ r.family = f /\ r.inv = i
    BY NoRequestType DEF Request, Ops
  <2>2. Enter(t, r, "family", {FamilyRow(f)})
    BY <1>5 DEF RouteRevokeInvitation
  <2> HIDE DEF r
  <2>3. OwnStep(t)
    BY <2>1, <2>2, EnterFamily DEF FamilyFirst
  <2> QED BY <2>2, <2>3 DEF Enter
<1> QED BY <1>1, <1>2, <1>3, <1>4, <1>5

\* A request that locks something else first.
LEMMA EnterOther ==
    ASSUME IInv, NEW t \in Threads, NEW r \in Request, NEW s \in Stages, NEW rows \in SUBSET RowIds,
           req[t].at = "route", UNCHANGED rowVars,
           \/ r.op = "list_invitations" /\ s = "commit"
           \/ r.op = "delete_account" /\ s = "user" /\ rows = {UserRow(req[t].user)}
                /\ \A f \in Families : r.seen[f] = "none"
           \/ r.op = "accept_invitation" /\ s = "inv" /\ rows = {InvRow(r.inv)}
                /\ r.inv \in Invitations /\ inv[r.inv].status # "unused",
           Enter(t, r, s, rows)
    PROVE  OwnStep(t)
<1>1. /\ LockTypes /\ ReqTypes /\ Disjoint /\ req[t] \in Request
      /\ held[t] = {} /\ req[t].user \in Users
  BY Facts DEF Shape
<1> DEFINE x == [r EXCEPT !.user = req[t].user]
<1>2. /\ x \in Request /\ x.user = req[t].user
      /\ x.op = r.op /\ x.inv = r.inv /\ x.seen = r.seen
  BY <1>1 DEF Request
<1>3. Proceed(t, x, s, rows)
  BY DEF Enter
<1> HIDE DEF x
<1>4. /\ LockTypes' /\ ReqTypes' /\ Disjoint' /\ Others(t) /\ OneBatch(t)'
      /\ held'[t] = {} /\ Asked(t)' = rows
      /\ req'[t].at = s /\ req'[t].op = r.op /\ req'[t].user = req[t].user
      /\ req'[t].inv = r.inv /\ req'[t].seen = r.seen
  <2>1. /\ LockTypes' /\ ReqTypes' /\ Disjoint' /\ Others(t) /\ OneBatch(t)'
        /\ held'[t] = held[t] /\ Asked(t)' = held[t] \cup rows
        /\ req'[t].at = s /\ req'[t].op = x.op /\ req'[t].user = x.user
        /\ req'[t].inv = x.inv /\ req'[t].seen = x.seen
    <3>1. s \in Stages /\ rows \in SUBSET RowIds /\ Proceed(t, x, s, rows)
      BY <1>3
    <3>2. LockTypes /\ ReqTypes /\ Disjoint /\ x \in Request
      BY <1>1, <1>2
    <3> QED BY ONLY <3>1, <3>2, ProceedStep, t \in Threads
  <2> QED BY <1>1, <1>2, <2>1
<1>5. inv' = inv
  BY RowsSame
<1>6. Shape(t)'
  BY <1>1, <1>4 DEF Shape, FamilyOps, FamilyFirst
<1>7. FamilyLocked(t)' /\ Counted(t)' /\ Settling(t)' /\ Leaving(t)' /\ Ordered(t)'
  BY <1>1, <1>4, <1>5 DEF FamilyLocked, HasFamily, FamilyOps, Counted, OwnerOps, Settling, Leaving,
                          Ordered, FamilyFirst
<1> QED BY <1>4, <1>6, <1>7 DEF OwnStep, Local

LEMMA RouteOtherStep ==
    ASSUME IInv, NEW t \in Threads, req[t].at = "route",
           \/ \E f \in Families : RouteListInvitations(t, f)
           \/ RouteDeleteAccount(t)
           \/ \E i \in Invitations : RouteAcceptInvitation(t, i)
    PROVE  OwnStep(t) /\ UNCHANGED <<rowVars, late>>
<1>1. req[t].user \in Users
  BY Facts DEF Shape
<1>2. ASSUME NEW f \in Families, RouteListInvitations(t, f)
      PROVE  OwnStep(t) /\ UNCHANGED <<rowVars, late>>
  <2> DEFINE r == [NoRequest EXCEPT !.op = "list_invitations", !.family = f]
             rows == {InvRow(i) : i \in {j \in Rows(f) : inv[j].status = "pending" /\ j \in late}}
  <2>1. r \in Request /\ r.op = "list_invitations"
    BY NoRequestType DEF Request, Ops
  <2>2. rows \in SUBSET RowIds /\ "commit" \in Stages
    BY RowsAreIds DEF Rows, Stages
  <2>3. Enter(t, r, "commit", rows)
    BY <1>2 DEF RouteListInvitations
  <2> HIDE DEF r, rows
  <2>4. UNCHANGED <<rowVars, late>>
    BY <2>3 DEF Enter
  <2>5. OwnStep(t)
    BY <2>1, <2>2, <2>3, <2>4, EnterOther
  <2> QED BY <2>4, <2>5
<1>3. CASE RouteDeleteAccount(t)
  <2> DEFINE r == [NoRequest EXCEPT !.op = "delete_account"]
  <2>1. r \in Request /\ r.op = "delete_account" /\ \A f \in Families : r.seen[f] = "none"
    BY NoRequestType DEF Request, Ops, NoRequest
  <2>2. {UserRow(req[t].user)} \in SUBSET RowIds /\ "user" \in Stages
    BY <1>1, RowsAreIds DEF Stages
  <2>3. Enter(t, r, "user", {UserRow(req[t].user)})
    BY <1>3 DEF RouteDeleteAccount
  <2> HIDE DEF r
  <2>4. UNCHANGED <<rowVars, late>>
    BY <2>3 DEF Enter
  <2>5. OwnStep(t)
    BY <2>1, <2>2, <2>3, <2>4, EnterOther
  <2> QED BY <2>4, <2>5
<1>4. ASSUME NEW i \in Invitations, RouteAcceptInvitation(t, i)
      PROVE  OwnStep(t) /\ UNCHANGED <<rowVars, late>>
  <2> DEFINE r == [NoRequest EXCEPT !.op = "accept_invitation", !.inv = i]
  <2>1. r \in Request /\ r.op = "accept_invitation" /\ r.inv = i
    BY NoRequestType DEF Request, Ops
  <2>2. {InvRow(i)} \in SUBSET RowIds /\ "inv" \in Stages
    BY RowsAreIds DEF Stages
  <2>3. Enter(t, r, "inv", {InvRow(i)}) /\ inv[i].status # "unused"
    BY <1>4 DEF RouteAcceptInvitation
  <2> HIDE DEF r
  <2>4. UNCHANGED <<rowVars, late>>
    BY <2>3 DEF Enter
  <2>5. OwnStep(t)
    BY <2>1, <2>2, <2>3, <2>4, EnterOther
  <2> QED BY <2>4, <2>5
<1> QED BY <1>2, <1>3, <1>4

LEMMA PreviewReadStep ==
    ASSUME IInv, NEW t \in Threads, NEW i \in Invitations, PreviewRead(t, i)
    PROVE  OwnStep(t)
<1>1. /\ LockTypes /\ ReqTypes /\ Disjoint
      /\ req[t].at = "idle" /\ held[t] = {} /\ inv[i].status = "pending" /\ UNCHANGED rowVars
  BY Facts DEF PreviewRead, Shape
<1> DEFINE r == [NoRequest EXCEPT !.op = "preview", !.inv = i]
<1>2. r \in Request /\ r.op = "preview" /\ r.inv = i
  BY NoRequestType DEF Request, Ops
<1>3. {InvRow(i)} \in SUBSET RowIds /\ "commit" \in Stages
  BY RowsAreIds DEF Stages
<1>4. Proceed(t, r, "commit", {InvRow(i)})
  BY DEF PreviewRead
<1> HIDE DEF r
<1>5. /\ LockTypes' /\ ReqTypes' /\ Disjoint' /\ Others(t) /\ OneBatch(t)'
      /\ Asked(t)' = {InvRow(i)}
      /\ req'[t].at = "commit" /\ req'[t].op = "preview" /\ req'[t].inv = i
  BY <1>1, <1>2, <1>3, <1>4, ProceedStep
<1>6. inv' = inv
  BY <1>1, RowsSame
<1>7. Shape(t)'
  BY <1>5 DEF Shape, FamilyOps, FamilyFirst
<1>8. FamilyLocked(t)' /\ Counted(t)' /\ Settling(t)' /\ Leaving(t)' /\ Ordered(t)'
  BY <1>1, <1>5, <1>6 DEF FamilyLocked, HasFamily, FamilyOps, Counted, OwnerOps, Settling, Leaving,
                          Ordered, FamilyFirst
<1> QED BY <1>5, <1>7, <1>8 DEF OwnStep, Local

\* A lock that is granted.
LEMMA LockNextStep ==
    ASSUME IInv, NEW t \in Threads, LockNext(t)
    PROVE  OwnStep(t) /\ UNCHANGED <<rowVars, late>>
<1>1. /\ LockTypes /\ Disjoint /\ ReqTypes
      /\ Shape(t) /\ FamilyLocked(t) /\ Counted(t) /\ Settling(t) /\ Leaving(t) /\ Ordered(t)
  BY Facts
<1>2. LockRow(t) /\ req' = req /\ UNCHANGED <<rowVars, late>>
  BY DEF LockNext
<1>3. /\ LockTypes' /\ Disjoint' /\ ReqTypes'
      /\ held[t] \subseteq held'[t] /\ Asked(t)' = Asked(t) /\ Pending(t)' \subseteq Pending(t)
      /\ want[t] # <<>>
      /\ OneBatch(t) => OneBatch(t)'
      /\ \A s \in Threads \ {t} : held'[s] = held[s] /\ want'[s] = want[s]
  BY <1>1, <1>2, LockRowStep DEF ReqTypes
<1>4. PICK row \in Pending(t) : held'[t] = held[t] \cup {row}
  BY <1>1, <1>2, LockRowStep
<1>5. /\ family' = family /\ role' = role /\ inv' = inv /\ LiveFamilies' = LiveFamilies
  BY <1>2, RowsSame
<1>6. Others(t)
  BY <1>2, <1>3 DEF Others
<1>7. Shape(t)'
  BY <1>1, <1>2, <1>3 DEF Shape
<1>8. FamilyLocked(t)'
  BY <1>1, <1>2, <1>3, <1>5 DEF FamilyLocked, HasFamily
<1>9. Counted(t)'
  BY <1>1, <1>2, <1>5 DEF Counted, Owners
<1>10. Settling(t)'
  BY <1>1, <1>2, <1>3, <1>5 DEF Settling, Rows
<1>11. Leaving(t)'
  BY <1>1, <1>2, <1>3, <1>5 DEF Leaving, Memberships, Owners
<1>12. Ordered(t)'
  <2> DEFINE r == req[t]
             f == req[t].family
  <2> SUFFICES ASSUME r.op \in FamilyFirst PROVE Ordered(t)'
    BY <1>2 DEF Ordered
  <2>1. OneBatch(t)'
    BY <1>1, <1>3 DEF Shape, FamilyFirst
  <2>2. \A x : Pending(t) \subseteq {x} => want'[t] = <<>>
    BY <1>1, <1>3, <1>4, <2>1, LastLock
  <2>3. CASE r.at \in {"family", "reference"} \/ (r.at = "commit" /\ r.op \in {"create_invitation", "revoke_invitation"})
    <3>1. want'[t] = <<>>
      BY <1>1, <2>2, <2>3 DEF Ordered
    <3>2. Pending(t)' = {}
      BY <3>1 DEF Pending
    <3>3. held'[t] \subseteq held[t] \cup Pending(t)
      BY <1>4
    <3> QED BY <1>1, <1>2, <2>3, <3>1, <3>2, <3>3 DEF Ordered
  <2>4. CASE r.at \in {"requester", "owners"} \/ (r.at = "commit" /\ r.op \in OwnerOps)
    <3>1. held'[t] \subseteq held[t] \cup Pending(t)
      BY <1>4
    <3> QED BY <1>1, <1>2, <1>3, <1>5, <2>4, <3>1 DEF Ordered, OwnerOps, Members, Rows
  <2>5. CASE r.at \notin {"family", "reference", "requester", "owners", "commit"}
    BY <1>2, <2>5 DEF Ordered
  <2> QED BY <2>3, <2>4, <2>5 DEF FamilyFirst, OwnerOps
<1> QED BY <1>2, <1>3, <1>6, <1>7, <1>8, <1>9, <1>10, <1>11, <1>12 DEF OwnStep, Local

\* A refusal.
LEMMA RefuseStep ==
    ASSUME IInv, NEW t \in Threads, Refuse(t)
    PROVE  OwnStep(t) /\ UNCHANGED <<rowVars, late>>
BY Facts, FinishStep DEF Refuse, OwnStep

\* The statement after _lock_family.
LEMMA LockedFamilyStep ==
    ASSUME IInv, NEW t \in Threads, LockedFamily(t)
    PROVE  OwnStep(t) /\ UNCHANGED <<rowVars, late>>
<1> DEFINE r == req[t]
           f == req[t].family
<1>1. /\ LockTypes /\ ReqTypes /\ Disjoint /\ RowTypes /\ r \in Request
      /\ Shape(t) /\ FamilyLocked(t) /\ Counted(t) /\ Settling(t) /\ Leaving(t) /\ Ordered(t)
  BY Facts
<1>2. Runs(t, "family") /\ UNCHANGED <<rowVars, late>>
  BY DEF LockedFamily
<1>3. r.at = "family" /\ want[t] = <<>> /\ Pending(t) = {} /\ Asked(t) = held[t]
  BY <1>2, GrantedHolds
<1>4. /\ r.op \in FamilyOps /\ r.user \in Users /\ f \in Families
      /\ r.op \in {"change_member_role", "remove_member"} => r.target \in Users
      /\ r.op = "change_member_role" => r.role \in Roles
      /\ r.op = "create_invitation" => r.role \in {"editor", "viewer"}
      /\ r.op \in {"revoke_invitation", "accept_invitation"} => r.inv \in Invitations
  BY <1>1, <1>3 DEF Shape, FamilyOps, FamilyFirst
<1>5. FamilyRow(f) \in held[t]
  BY <1>1, <1>3 DEF FamilyLocked
<1>6. CASE f \notin LiveFamilies
  <2>1. Finish(t)
    BY <1>6 DEF LockedFamily
  <2> QED BY <1>1, <1>2, <2>1, FinishStep DEF OwnStep
<1>7. CASE f \in LiveFamilies
  <2>1. /\ family' = family /\ role' = role /\ inv' = inv /\ LiveFamilies' = LiveFamilies
    BY <1>2, RowsSame
  <2> DEFINE Goes(s, rows) ==
                 \/ r.op \in {"change_member_role", "remove_member"} /\ s = "owners" /\ rows \subseteq Members(f)
                 \/ r.op = "delete_family" /\ s = "requester" /\ rows \subseteq Members(f)
                 \/ r.op = "create_invitation" /\ s = "commit" /\ rows = {UserRow(r.user)}
                 \/ r.op = "revoke_invitation" /\ s = "reference" /\ rows = {InvRow(r.inv)}
                 \/ r.op = "accept_invitation" /\ s = "reference"
  <2>2. PICK s \in Stages, rows \in SUBSET RowIds : Proceed(t, r, s, rows) /\ Goes(s, rows)
    <3>1. CASE r.op \in {"change_member_role", "remove_member"}
      <4>1. Proceed(t, r, "owners", OwnerRows(f))
        BY <1>7, <3>1 DEF LockedFamily
      <4>2. OwnerRows(f) \in SUBSET RowIds /\ OwnerRows(f) \subseteq Members(f) /\ "owners" \in Stages
        BY <1>4, RowsAreIds DEF OwnerRows, Owners, Members, Stages
      <4> QED BY <3>1, <4>1, <4>2
    <3>2. CASE r.op = "delete_family"
      <4>1. Proceed(t, r, "requester", {MemberRow(f, r.user)})
        BY <1>7, <3>2 DEF LockedFamily
      <4>2. /\ {MemberRow(f, r.user)} \in SUBSET RowIds /\ {MemberRow(f, r.user)} \subseteq Members(f)
            /\ "requester" \in Stages
        BY <1>4, RowsAreIds DEF Members, Stages
      <4> QED BY <3>2, <4>1, <4>2
    <3>3. CASE r.op = "create_invitation"
      <4>1. Proceed(t, r, "commit", {UserRow(r.user)})
        BY <1>7, <3>3 DEF LockedFamily
      <4>2. {UserRow(r.user)} \in SUBSET RowIds /\ "commit" \in Stages
        BY <1>4, RowsAreIds DEF Stages
      <4> QED BY <3>3, <4>1, <4>2
    <3>4. CASE r.op = "revoke_invitation"
      <4>1. Proceed(t, r, "reference", {InvRow(r.inv)})
        BY <1>7, <3>4 DEF LockedFamily
      <4>2. {InvRow(r.inv)} \in SUBSET RowIds /\ "reference" \in Stages
        BY <1>4, <3>4, RowsAreIds DEF Stages
      <4> QED BY <3>4, <4>1, <4>2
    <3>5. CASE r.op = "accept_invitation"
      <4>1. Proceed(t, r, "reference", {MemberRow(f, r.user)})
        BY <1>7, <3>5 DEF LockedFamily
      <4>2. {MemberRow(f, r.user)} \in SUBSET RowIds /\ "reference" \in Stages
        BY <1>4, RowsAreIds DEF Stages
      <4> QED BY <3>5, <4>1, <4>2
    <3> QED BY <1>4, <3>1, <3>2, <3>3, <3>4, <3>5 DEF FamilyOps, FamilyFirst
  <2>3. /\ LockTypes' /\ ReqTypes' /\ Disjoint' /\ Others(t) /\ OneBatch(t)'
        /\ held'[t] = held[t] /\ Pending(t)' = rows \ held[t] /\ Asked(t)' = held[t] \cup rows
        /\ req'[t].at = s /\ req'[t].op = r.op /\ req'[t].user = r.user
        /\ req'[t].family = f /\ req'[t].target = r.target /\ req'[t].role = r.role
        /\ req'[t].inv = r.inv
    <3>1. Proceed(t, r, s, rows)
      BY <2>2
    <3> QED BY ONLY <1>1, <3>1, ProceedStep, t \in Threads, s \in Stages, rows \in SUBSET RowIds
  <2>4. Goes(s, rows)
    BY <2>2
  <2>6. Shape(t)'
    BY <1>4, <2>3, <2>4 DEF Shape, FamilyOps, FamilyFirst, OwnerOps
  <2>7. FamilyLocked(t)' /\ Counted(t)' /\ Leaving(t)'
    BY <1>4, <1>5, <1>7, <2>1, <2>3, <2>4 DEF FamilyLocked, Counted, OwnerOps, Leaving, FamilyOps, FamilyFirst
  <2>8. Settling(t)'
    BY <1>1, <1>3, <1>4, <1>7, <2>1, <2>3, <2>4 DEF Settling
  <2>9. Ordered(t)'
    <3>1. r.op \in FamilyFirst => held[t] = {FamilyRow(f)}
      BY <1>1, <1>3, <1>5 DEF Ordered
    <3> QED BY <2>3, <2>4, <3>1 DEF Ordered, FamilyFirst
  <2> QED BY <1>2, <2>3, <2>6, <2>7, <2>8, <2>9 DEF OwnStep, Local
<1> QED BY <1>6, <1>7

\* delete_family finds the requester an owner.
LEMMA DeleteFamilyRequesterStep ==
    ASSUME IInv, NEW t \in Threads, DeleteFamilyRequester(t)
    PROVE  OwnStep(t) /\ UNCHANGED <<rowVars, late>>
<1> DEFINE r == req[t]
           f == req[t].family
<1>1. /\ LockTypes /\ ReqTypes /\ Disjoint /\ RowTypes /\ r \in Request
      /\ Shape(t) /\ FamilyLocked(t) /\ Ordered(t)
  BY Facts
<1>2. Runs(t, "requester") /\ UNCHANGED <<rowVars, late>>
  BY DEF DeleteFamilyRequester
<1>3. r.at = "requester" /\ want[t] = <<>> /\ Pending(t) = {} /\ Asked(t) = held[t]
  BY <1>2, GrantedHolds
<1>4. /\ r.op = "delete_family" /\ r.user \in Users /\ f \in Families
      /\ FamilyRow(f) \in held[t] /\ f \in LiveFamilies
      /\ held[t] \subseteq {FamilyRow(f)} \cup Members(f)
  BY <1>1, <1>3 DEF Shape, FamilyOps, FamilyFirst, FamilyLocked, HasFamily, Ordered
<1>5. CASE role[f][r.user] # "owner"
  <2>1. Finish(t)
    BY <1>5 DEF DeleteFamilyRequester
  <2> QED BY <1>1, <1>2, <2>1, FinishStep DEF OwnStep
<1>6. CASE role[f][r.user] = "owner"
  <2>1. /\ family' = family /\ role' = role /\ inv' = inv /\ LiveFamilies' = LiveFamilies
    BY <1>2, RowsSame
  <2>2. Proceed(t, r, "owners", OwnerRows(f))
    BY <1>6 DEF DeleteFamilyRequester
  <2>3. OwnerRows(f) \in SUBSET RowIds /\ OwnerRows(f) \subseteq Members(f) /\ "owners" \in Stages
    BY <1>4, RowsAreIds DEF OwnerRows, Owners, Members, Stages
  <2>4. /\ LockTypes' /\ ReqTypes' /\ Disjoint' /\ Others(t) /\ OneBatch(t)'
        /\ held'[t] = held[t] /\ Pending(t)' = OwnerRows(f) \ held[t]
        /\ req'[t].at = "owners" /\ req'[t].op = r.op /\ req'[t].user = r.user
        /\ req'[t].family = f
    BY ONLY <1>1, <2>2, <2>3, ProceedStep, t \in Threads
  <2>5. Shape(t)'
    BY <1>4, <2>4 DEF Shape, FamilyOps, FamilyFirst, OwnerOps
  <2>6. FamilyLocked(t)' /\ Counted(t)' /\ Settling(t)' /\ Leaving(t)'
    BY <1>4, <1>6, <2>1, <2>4 DEF FamilyLocked, HasFamily, Counted, Settling, Leaving
  <2>7. Ordered(t)'
    BY <1>4, <2>3, <2>4 DEF Ordered, FamilyFirst, Members
  <2> QED BY <1>2, <2>4, <2>5, <2>6, <2>7 DEF OwnStep, Local
<1> QED BY <1>5, <1>6

\* The owners of a family are some of the users.
LEMMA OwnerCount ==
    ASSUME NEW f \in Families
    PROVE  /\ Owners(f) \subseteq Users /\ IsFiniteSet(Owners(f))
           /\ Cardinality(Owners(f)) \in 0..Cardinality(Users)
<1>1. Owners(f) \subseteq Users
  BY DEF Owners
<1>2. IsFiniteSet(Owners(f)) /\ Cardinality(Owners(f)) <= Cardinality(Users)
  BY <1>1, IdentityAssumption, FS_Subset
<1>3. Cardinality(Owners(f)) \in Nat /\ Cardinality(Users) \in Nat
  BY <1>2, IdentityAssumption, FS_CardinalityType
<1> QED BY <1>1, <1>2, <1>3

\* The statement after _lock_owners.
LEMMA LockedOwnersStep ==
    ASSUME IInv, NEW t \in Threads, LockedOwners(t)
    PROVE  OwnStep(t) /\ UNCHANGED <<rowVars, late>>
<1> DEFINE q == req[t]
           f == req[t].family
           n == Cardinality(Owners(req[t].family))
           r == [req[t] EXCEPT !.owners = n]
<1>1. /\ LockTypes /\ ReqTypes /\ Disjoint /\ RowTypes /\ q \in Request
      /\ Shape(t) /\ FamilyLocked(t) /\ Counted(t) /\ Ordered(t)
  BY Facts
<1>2. Runs(t, "owners") /\ UNCHANGED <<rowVars, late>>
  BY DEF LockedOwners
<1>3. q.at = "owners" /\ want[t] = <<>> /\ Pending(t) = {} /\ Asked(t) = held[t]
  BY <1>2, GrantedHolds
<1>4. /\ q.op \in OwnerOps /\ q.user \in Users /\ f \in Families
      /\ q.op \in {"change_member_role", "remove_member"} => q.target \in Users
      /\ q.op = "change_member_role" => q.role \in Roles
  BY <1>1, <1>3 DEF Shape, FamilyOps, FamilyFirst, OwnerOps
<1>5. /\ FamilyRow(f) \in held[t] /\ f \in LiveFamilies
      /\ held[t] \subseteq {FamilyRow(f)} \cup Members(f)
      /\ q.op = "delete_family" => role[f][q.user] = "owner"
  BY <1>1, <1>3, <1>4 DEF FamilyLocked, HasFamily, Ordered, Counted, OwnerOps, FamilyFirst
<1>6. /\ r \in Request /\ r.owners = n /\ r.op = q.op /\ r.user = q.user /\ r.family = f
      /\ r.target = q.target /\ r.role = q.role
  <2>1. n \in 0..Cardinality(Users)
    BY <1>4, OwnerCount
  <2> HIDE DEF n
  <2> QED BY <1>1, <2>1 DEF Request
<1>7. CASE q.op = "delete_family" /\ n # 1
  <2>1. Finish(t)
    BY <1>6, <1>7 DEF LockedOwners
  <2> QED BY <1>1, <1>2, <2>1, FinishStep DEF OwnStep
<1>8. CASE ~(q.op = "delete_family" /\ n # 1)
  <2>1. /\ family' = family /\ role' = role /\ inv' = inv /\ LiveFamilies' = LiveFamilies
    BY <1>2, RowsSame
  <2> DEFINE invs == {InvRow(i) : i \in Rows(f)}
  <2>2. PICK rows \in SUBSET RowIds :
            /\ Proceed(t, r, "commit", rows)
            /\ q.op = "delete_family" => rows \subseteq Members(f) \cup invs
            /\ q.op # "delete_family" => rows \subseteq Members(f)
    <3>1. CASE q.op = "delete_family"
      <4> DEFINE rows == {MemberRow(f, u) : u \in {v \in Users : role[f][v] # "none"}} \cup invs
      <4>1. Proceed(t, r, "commit", rows)
        BY <1>6, <1>8, <3>1 DEF LockedOwners
      <4>2. rows \in SUBSET RowIds /\ rows \subseteq Members(f) \cup invs
        BY <1>4, RowsAreIds DEF Rows, Members
      <4> QED BY <3>1, <4>1, <4>2
    <3>2. CASE q.op # "delete_family"
      <4>1. Proceed(t, r, "commit", {MemberRow(f, q.target)})
        BY <1>6, <3>2 DEF LockedOwners
      <4>2. {MemberRow(f, q.target)} \in SUBSET RowIds /\ {MemberRow(f, q.target)} \subseteq Members(f)
        BY <1>4, <3>2, RowsAreIds DEF Members, OwnerOps
      <4> QED BY <3>2, <4>1, <4>2
    <3> QED BY <3>1, <3>2
  <2>3. "commit" \in Stages /\ Proceed(t, r, "commit", rows)
    BY <2>2 DEF Stages
  <2> HIDE DEF r
  <2>4. /\ LockTypes' /\ ReqTypes' /\ Disjoint' /\ Others(t) /\ OneBatch(t)'
        /\ held'[t] = held[t] /\ Pending(t)' = rows \ held[t]
        /\ req'[t].at = "commit" /\ req'[t].op = q.op /\ req'[t].user = q.user
        /\ req'[t].family = f /\ req'[t].target = q.target /\ req'[t].role = q.role
        /\ req'[t].owners = n
    BY ONLY <1>1, <1>6, <2>3, ProceedStep, t \in Threads, rows \in SUBSET RowIds
  <2>5. Shape(t)'
    BY <1>4, <2>4 DEF Shape, FamilyOps, FamilyFirst, OwnerOps
  <2>6. FamilyLocked(t)' /\ Settling(t)' /\ Leaving(t)'
    BY <1>4, <1>5, <2>1, <2>4 DEF FamilyLocked, HasFamily, Settling, Leaving, OwnerOps
  <2>7. Counted(t)'
    <3>1. Owners(f)' = Owners(f)
      BY <2>1, <2>4 DEF Owners
    <3> QED BY <1>4, <1>5, <1>8, <2>1, <2>4 DEF Counted, OwnerOps, Owners
  <2>8. Ordered(t)'
    <3>1. {InvRow(i) : i \in Rows(req[t].family)}' = invs
      BY <2>1, <2>4 DEF Rows
    <3>2. Members(f)' = Members(f)
      BY <2>4 DEF Members
    <3> QED BY <1>4, <1>5, <2>2, <2>4, <3>1, <3>2 DEF Ordered, OwnerOps
  <2> QED BY <1>2, <2>4, <2>5, <2>6, <2>7, <2>8 DEF OwnStep, Local
<1> QED BY <1>7, <1>8

\* revoke_invitation finds the invitation still open.
LEMMA RevokeChecksStep ==
    ASSUME IInv, NEW t \in Threads, RevokeChecks(t)
    PROVE  OwnStep(t) /\ UNCHANGED <<rowVars, late>>
<1> DEFINE r == req[t]
           f == req[t].family
<1>1. /\ LockTypes /\ ReqTypes /\ Disjoint /\ RowTypes /\ r \in Request
      /\ Shape(t) /\ FamilyLocked(t) /\ Settling(t) /\ Ordered(t)
  BY Facts
<1>2. Runs(t, "reference") /\ r.op = "revoke_invitation" /\ UNCHANGED <<rowVars, late>>
  BY DEF RevokeChecks
<1>3. r.at = "reference" /\ want[t] = <<>> /\ Pending(t) = {} /\ Asked(t) = held[t]
  BY <1>2, GrantedHolds
<1>4. /\ r.user \in Users /\ f \in Families /\ r.inv \in Invitations
      /\ FamilyRow(f) \in held[t] /\ f \in LiveFamilies /\ InvRow(r.inv) \in held[t]
      /\ held[t] \subseteq {FamilyRow(f), InvRow(r.inv)}
  BY <1>1, <1>2, <1>3 DEF Shape, FamilyOps, FamilyFirst, FamilyLocked, HasFamily, Ordered, Settling
<1>5. CASE r.inv \notin Rows(f) \/ inv[r.inv].status \in {"accepted", "revoked"}
  <2>1. Finish(t)
    BY <1>5 DEF RevokeChecks
  <2> QED BY <1>1, <1>2, <2>1, FinishStep DEF OwnStep
<1>6. CASE r.inv \in Rows(f) /\ inv[r.inv].status \notin {"accepted", "revoked"}
  <2>1. /\ family' = family /\ role' = role /\ inv' = inv /\ LiveFamilies' = LiveFamilies
    BY <1>2, RowsSame
  <2>2. Proceed(t, r, "commit", {UserRow(r.user)})
    BY <1>6 DEF RevokeChecks
  <2>3. {UserRow(r.user)} \in SUBSET RowIds /\ "commit" \in Stages
    BY <1>4, RowsAreIds DEF Stages
  <2>4. /\ LockTypes' /\ ReqTypes' /\ Disjoint' /\ Others(t) /\ OneBatch(t)'
        /\ held'[t] = held[t] /\ Pending(t)' = {UserRow(r.user)} \ held[t]
        /\ req'[t].at = "commit" /\ req'[t].op = r.op /\ req'[t].user = r.user
        /\ req'[t].family = f /\ req'[t].inv = r.inv
    BY ONLY <1>1, <2>2, <2>3, ProceedStep, t \in Threads
  <2>5. Shape(t)'
    BY <1>2, <1>4, <2>4 DEF Shape, FamilyOps, FamilyFirst
  <2>6. FamilyLocked(t)' /\ Counted(t)' /\ Leaving(t)'
    BY <1>2, <1>4, <2>1, <2>4 DEF FamilyLocked, HasFamily, Counted, OwnerOps, Leaving
  <2>7. Settling(t)'
    <3>1. inv[r.inv].status \in {"pending", "expired"}
      BY <1>6 DEF Rows, InvitationStatus
    <3> QED BY <1>2, <1>4, <1>6, <2>1, <2>4, <3>1 DEF Settling, Rows
  <2>8. Ordered(t)'
    BY <1>2, <1>4, <2>4 DEF Ordered, FamilyFirst
  <2> QED BY <1>2, <2>4, <2>5, <2>6, <2>7, <2>8 DEF OwnStep, Local
<1> QED BY <1>5, <1>6

\* accept_invitation finds the invitation pending, and goes on to its family and account.
LEMMA AcceptStep ==
    ASSUME IInv, NEW t \in Threads, AcceptChecks(t) \/ AcceptReference(t)
    PROVE  OwnStep(t) /\ UNCHANGED <<rowVars, late>>
<1>1. /\ LockTypes /\ ReqTypes /\ Disjoint /\ RowTypes /\ ReferencesLive /\ req[t] \in Request
      /\ Shape(t) /\ FamilyLocked(t) /\ Settling(t)
  BY Facts
<1>2. CASE AcceptChecks(t)
  <2> DEFINE r == req[t]
             i == req[t].inv
             f == inv[req[t].inv].family
             x == [req[t] EXCEPT !.family = f]
  <2>1. Runs(t, "inv") /\ UNCHANGED <<rowVars, late>>
    BY <1>2 DEF AcceptChecks
  <2>2. r.at = "inv" /\ Asked(t) = held[t]
    BY <2>1, GrantedHolds
  <2>3. r.op = "accept_invitation" /\ r.user \in Users /\ i \in Invitations /\ InvRow(i) \in held[t]
    BY <1>1, <2>2 DEF Shape, Settling
  <2>4. CASE inv[i].status # "pending" \/ i \in late
    <3>1. Finish(t)
      BY <1>2, <2>4 DEF AcceptChecks
    <3> QED BY <1>1, <2>1, <3>1, FinishStep DEF OwnStep
  <2>5. CASE inv[i].status = "pending" /\ i \notin late
    <3>1. f \in LiveFamilies /\ f \in Families /\ family[f] = "live"
      BY <1>1, <2>3, <2>5 DEF ReferencesLive, InvitationStatus, LiveFamilies
    <3>2. x \in Request /\ x.family = f /\ x.op = r.op /\ x.user = r.user /\ x.inv = i
      BY <1>1, <3>1 DEF Request
    <3>3. Proceed(t, x, "family", {FamilyRow(f)})
      BY <1>2, <2>5 DEF AcceptChecks
    <3>4. {FamilyRow(f)} \in SUBSET RowIds /\ "family" \in Stages
      BY <3>1, RowsAreIds DEF Stages
    <3> HIDE DEF x
    <3>5. /\ LockTypes' /\ ReqTypes' /\ Disjoint' /\ Others(t) /\ OneBatch(t)'
          /\ held'[t] = held[t] /\ Asked(t)' = held[t] \cup {FamilyRow(f)}
          /\ req'[t].at = "family" /\ req'[t].op = r.op /\ req'[t].user = r.user
          /\ req'[t].family = f /\ req'[t].inv = i
      BY ONLY <1>1, <3>2, <3>3, <3>4, ProceedStep, t \in Threads
    <3>6. /\ family' = family /\ inv' = inv
      BY <2>1, RowsSame
    <3>7. Shape(t)'
      BY <2>3, <3>1, <3>5 DEF Shape, FamilyOps, FamilyFirst
    <3>8. FamilyLocked(t)' /\ Counted(t)' /\ Leaving(t)' /\ Ordered(t)'
      BY <2>3, <3>5 DEF FamilyLocked, HasFamily, Counted, Leaving, Ordered, FamilyFirst
    <3>9. Settling(t)'
      BY <2>3, <2>5, <3>1, <3>5, <3>6 DEF Settling
    <3> QED BY <2>1, <3>5, <3>7, <3>8, <3>9 DEF OwnStep, Local
  <2> QED BY <2>4, <2>5
<1>3. CASE AcceptReference(t)
  <2> DEFINE r == req[t]
             f == req[t].family
  <2>1. Runs(t, "reference") /\ r.op = "accept_invitation" /\ UNCHANGED <<rowVars, late>>
    BY <1>3 DEF AcceptReference
  <2>2. r.at = "reference"
    BY <2>1, GrantedHolds
  <2>3. /\ r.user \in Users /\ r.inv \in Invitations /\ f \in Families
        /\ FamilyRow(f) \in held[t] /\ f \in LiveFamilies
        /\ InvRow(r.inv) \in held[t] /\ family[f] # "unused"
        /\ inv[r.inv].status = "pending" /\ inv[r.inv].family = f
    BY <1>1, <2>1, <2>2 DEF Shape, FamilyOps, FamilyFirst, FamilyLocked, HasFamily, Settling
  <2>4. Proceed(t, r, "commit", {UserRow(r.user)})
    BY <1>3 DEF AcceptReference
  <2>5. {UserRow(r.user)} \in SUBSET RowIds /\ "commit" \in Stages
    BY <2>3, RowsAreIds DEF Stages
  <2>6. /\ LockTypes' /\ ReqTypes' /\ Disjoint' /\ Others(t) /\ OneBatch(t)'
        /\ held'[t] = held[t] /\ Asked(t)' = held[t] \cup {UserRow(r.user)}
        /\ req'[t].at = "commit" /\ req'[t].op = r.op /\ req'[t].user = r.user
        /\ req'[t].family = f /\ req'[t].inv = r.inv
    BY ONLY <1>1, <2>4, <2>5, ProceedStep, t \in Threads
  <2>7. family' = family /\ inv' = inv /\ LiveFamilies' = LiveFamilies
    BY <2>1, RowsSame
  <2>8. Shape(t)'
    BY <2>1, <2>3, <2>6 DEF Shape, FamilyOps, FamilyFirst
  <2>9. FamilyLocked(t)' /\ Counted(t)' /\ Leaving(t)' /\ Ordered(t)'
    BY <2>1, <2>3, <2>6, <2>7 DEF FamilyLocked, HasFamily, Counted, OwnerOps, Leaving, Ordered, FamilyFirst
  <2>10. Settling(t)'
    BY <2>1, <2>3, <2>6, <2>7 DEF Settling
  <2> QED BY <2>1, <2>6, <2>8, <2>9, <2>10 DEF OwnStep, Local
<1> QED BY <1>2, <1>3

\* Going on with delete_account: what it needs of the families it has seen.
LEMMA LeavingProceeds ==
    ASSUME IInv, NEW t \in Threads, NEW x \in Request, NEW rows \in SUBSET RowIds, NEW s \in Stages,
           req[t].op = "delete_account", req[t].user \in Users, UNCHANGED rowVars,
           x.op = "delete_account", x.user = req[t].user,
           s \in {"memberships", "member", "creators", "commit"},
           UserRow(x.user) \in held[t],
           \A f \in Memberships(x.user) : FamilyRow(f) \in held[t],
           \A f \in Families : x.seen[f] # "none" => FamilyRow(f) \in held[t],
           s \in {"creators", "commit"} =>
               \A f \in Families : x.seen[f] = "owner" => Cardinality(Owners(f)) > 1,
           Proceed(t, x, s, rows)
    PROVE  OwnStep(t)
<1>1. LockTypes /\ ReqTypes /\ Disjoint
  BY Facts
<1>2. /\ LockTypes' /\ ReqTypes' /\ Disjoint' /\ Others(t) /\ OneBatch(t)'
      /\ held'[t] = held[t]
      /\ req'[t].at = s /\ req'[t].op = x.op /\ req'[t].user = x.user /\ req'[t].seen = x.seen
  <2>1. Proceed(t, x, s, rows)
    OBVIOUS
  <2> QED BY ONLY <1>1, <2>1, ProceedStep, t \in Threads, x \in Request, s \in Stages,
                  rows \in SUBSET RowIds
<1>3. role' = role
  BY RowsSame
<1>4. Shape(t)'
  BY <1>2 DEF Shape, FamilyOps, FamilyFirst
<1>5. FamilyLocked(t)' /\ Counted(t)' /\ Settling(t)' /\ Ordered(t)'
  BY <1>2 DEF FamilyLocked, HasFamily, FamilyOps, Counted, OwnerOps, Settling, Ordered, FamilyFirst
<1>6. Leaving(t)'
  <2>1. Memberships(req[t].user)' = Memberships(x.user)
    BY <1>2, <1>3 DEF Memberships
  <2>2. \A f \in Families : Owners(f)' = Owners(f)
    BY <1>3 DEF Owners
  <2> QED BY <1>2, <2>1, <2>2 DEF Leaving
<1> QED BY <1>2, <1>4, <1>5, <1>6 DEF OwnStep, Local

LEMMA DeleteAccountUserStep ==
    ASSUME IInv, NEW t \in Threads, DeleteAccountUser(t)
    PROVE  OwnStep(t) /\ UNCHANGED <<rowVars, late>>
<1> DEFINE r == req[t]
           u == req[t].user
<1>1. /\ LockTypes /\ ReqTypes /\ Disjoint /\ RowTypes /\ r \in Request
      /\ Shape(t) /\ Leaving(t)
  BY Facts
<1>2. Runs(t, "user") /\ UNCHANGED <<rowVars, late>>
  BY DEF DeleteAccountUser
<1>3. r.at = "user" /\ Asked(t) = held[t]
  BY <1>2, GrantedHolds
<1>4. r.op = "delete_account" /\ u \in Users /\ UserRow(u) \in held[t]
  BY <1>1, <1>3 DEF Shape, Leaving
<1>5. CASE u \notin LiveUsers
  <2>1. Finish(t)
    BY <1>5 DEF DeleteAccountUser
  <2> QED BY <1>1, <1>2, <2>1, FinishStep DEF OwnStep
<1>6. CASE u \in LiveUsers /\ Memberships(u) = {}
  <2> DEFINE rows == {FamilyRow(f) : f \in {g \in Families : creator[g] = u}}
  <2>1. Proceed(t, r, "creators", rows)
    BY <1>6 DEF DeleteAccountUser
  <2>2. rows \in SUBSET RowIds /\ "creators" \in Stages
    BY RowsAreIds DEF Stages
  <2>3. \A f \in Families : r.seen[f] = "none"
    BY <1>1, <1>3, <1>4 DEF Leaving
  <2> HIDE DEF rows
  <2>4. OwnStep(t)
    BY <1>1, <1>2, <1>4, <1>6, <2>1, <2>2, <2>3, LeavingProceeds
  <2> QED BY <1>2, <2>4
<1>7. CASE u \in LiveUsers /\ Memberships(u) # {}
  <2> DEFINE seen == [f \in Families |-> role[f][u]]
             x == [r EXCEPT !.at = "families", !.seen = seen]
             batches == ByKey(Memberships(u), FamilyRow)
  <2>1. req' = [req EXCEPT ![t] = x] /\ Statement(t, batches)
    BY <1>7 DEF DeleteAccountUser
  <2>2. x \in Request /\ x.at = "families" /\ x.op = r.op /\ x.user = u /\ x.seen = seen
    <3>1. seen \in [Families -> Roles \cup {"none"}]
      BY <1>1, <1>4 DEF RowTypes
    <3>2. "families" \in Stages
      BY DEF Stages
    <3> HIDE DEF seen
    <3> QED BY <1>1, <3>1, <3>2 DEF Request
  <2>3. /\ batches \in Seq(SUBSET RowIds)
        /\ \A f \in Memberships(u) : \E n \in DOMAIN batches : FamilyRow(f) \in batches[n]
    BY ByKeyCovers DEF Memberships
  <2>4. {f \in Families : seen[f] # "none"} = Memberships(u)
    BY DEF Memberships
  <2> HIDE DEF x, batches, seen
  <2>5. ReqTypes' /\ req'[t] = x /\ \A s \in Threads \ {t} : req'[s] = req[s]
    BY <1>1, <2>1, <2>2 DEF ReqTypes
  <2>6. /\ LockTypes' /\ want'[t] = batches /\ held' = held
        /\ \A s \in Threads \ {t} : want'[s] = want[s]
    BY <1>1, <2>1, <2>3 DEF Statement, LockTypes
  <2>7. Disjoint' /\ Others(t)
    BY <1>1, <2>5, <2>6 DEF Disjoint, Others
  <2>8. \A f \in Memberships(u) : FamilyRow(f) \in Asked(t)'
    BY <2>3, <2>6 DEF Asked, Pending
  <2>9. role' = role
    BY <1>2, RowsSame
  <2>10. Shape(t)'
    BY <1>4, <2>2, <2>5 DEF Shape, FamilyOps, FamilyFirst
  <2>11. FamilyLocked(t)' /\ Counted(t)' /\ Settling(t)' /\ Ordered(t)'
    BY <1>4, <2>2, <2>5 DEF FamilyLocked, HasFamily, Counted, Settling, Ordered, FamilyFirst
  <2>12. Leaving(t)'
    <3>1. Memberships(u)' = Memberships(u)
      BY <2>2, <2>5, <2>9 DEF Memberships
    <3>2. {f \in Families : req[t].seen[f] # "none"}' = Memberships(u)
      BY <2>2, <2>4, <2>5
    <3> QED BY <1>4, <2>2, <2>5, <2>6, <2>8, <3>1, <3>2 DEF Leaving
  <2> QED BY <1>2, <2>5, <2>6, <2>7, <2>10, <2>11, <2>12 DEF OwnStep, Local
<1> QED BY <1>5, <1>6, <1>7

LEMMA DeleteAccountStep ==
    ASSUME IInv, NEW t \in Threads,
           \/ DeleteAccountFamilies(t) \/ DeleteAccountMemberships(t)
           \/ DeleteAccountOwners(t) \/ DeleteAccountCreators(t)
    PROVE  OwnStep(t) /\ UNCHANGED <<rowVars, late>>
<1> DEFINE r == req[t]
           u == req[t].user
<1>1. /\ LockTypes /\ ReqTypes /\ Disjoint /\ RowTypes /\ r \in Request
      /\ Shape(t) /\ Leaving(t)
  BY Facts
<1>2. CASE DeleteAccountFamilies(t)
  <2> DEFINE known == {f \in Families : r.seen[f] # "none"}
             rows == {MemberRow(f, u) : f \in Memberships(u)}
  <2>1. Runs(t, "families") /\ UNCHANGED <<rowVars, late>>
    BY <1>2 DEF DeleteAccountFamilies
  <2>2. r.at = "families" /\ Asked(t) = held[t]
    BY <2>1, GrantedHolds
  <2>3. /\ r.op = "delete_account" /\ u \in Users /\ UserRow(u) \in held[t]
        /\ Memberships(u) \subseteq known /\ \A f \in known : FamilyRow(f) \in held[t]
    BY <1>1, <2>2 DEF Shape, Leaving
  <2>4. CASE ~(known \subseteq LiveFamilies)
    <3>1. Finish(t)
      BY <1>2, <2>4 DEF DeleteAccountFamilies
    <3> QED BY <1>1, <2>1, <3>1, FinishStep DEF OwnStep
  <2>5. CASE known \subseteq LiveFamilies
    <3>1. Proceed(t, r, "memberships", rows)
      BY <1>2, <2>5 DEF DeleteAccountFamilies
    <3>2. rows \in SUBSET RowIds /\ "memberships" \in Stages
      BY <2>3, RowsAreIds DEF Stages, Memberships
    <3> HIDE DEF rows
    <3>3. OwnStep(t)
      BY <1>1, <2>1, <2>3, <3>1, <3>2, LeavingProceeds
    <3> QED BY <2>1, <3>3
  <2> QED BY <2>4, <2>5
<1>3. CASE DeleteAccountMemberships(t)
  <2> DEFINE reread == [f \in Families |-> IF f \in Memberships(u) THEN r.seen[f] ELSE "none"]
             owned == {f \in Families : reread[f] = "owner"}
             x == [r EXCEPT !.seen = reread]
             rows == UNION {OwnerRows(f) : f \in owned}
  <2>1. Runs(t, "memberships") /\ UNCHANGED <<rowVars, late>>
    BY <1>3 DEF DeleteAccountMemberships
  <2>2. r.at = "memberships"
    BY <2>1, GrantedHolds
  <2>3. /\ r.op = "delete_account" /\ u \in Users /\ UserRow(u) \in held[t]
        /\ \A f \in Memberships(u) : FamilyRow(f) \in held[t]
        /\ \A f \in Families : r.seen[f] # "none" => FamilyRow(f) \in held[t]
    BY <1>1, <2>2 DEF Shape, Leaving
  <2>4. reread \in [Families -> Roles \cup {"none"}]
    BY <1>1 DEF Request
  <2>5. \A f \in Families : reread[f] # "none" => FamilyRow(f) \in held[t]
    BY <2>3
  <2>6. Proceed(t, x, "member", rows)
    BY <1>3 DEF DeleteAccountMemberships
  <2>7. rows \in SUBSET RowIds /\ "member" \in Stages
    <3>1. \A f \in Families : OwnerRows(f) \subseteq RowIds
      BY RowsAreIds DEF OwnerRows, Owners
    <3>2. owned \subseteq Families
      OBVIOUS
    <3> HIDE DEF owned
    <3> QED BY <3>1, <3>2 DEF Stages
  <2> HIDE DEF reread, rows
  <2>8. x \in Request /\ x.op = r.op /\ x.user = u /\ x.seen = reread
    BY <1>1, <2>4 DEF Request
  <2> HIDE DEF x
  <2>9. OwnStep(t)
    BY <2>1, <2>3, <2>5, <2>6, <2>7, <2>8, LeavingProceeds
  <2> QED BY <2>1, <2>9
<1>4. CASE DeleteAccountOwners(t)
  <2> DEFINE owned == {f \in Families : r.seen[f] = "owner"}
             rows == {FamilyRow(f) : f \in {g \in Families : creator[g] = u}}
  <2>1. Runs(t, "member") /\ UNCHANGED <<rowVars, late>>
    BY <1>4 DEF DeleteAccountOwners
  <2>2. r.at = "member"
    BY <2>1, GrantedHolds
  <2>3. /\ r.op = "delete_account" /\ u \in Users /\ UserRow(u) \in held[t]
        /\ \A f \in Memberships(u) : FamilyRow(f) \in held[t]
        /\ \A f \in Families : r.seen[f] # "none" => FamilyRow(f) \in held[t]
    BY <1>1, <2>2 DEF Shape, Leaving
  <2>4. CASE \E f \in owned : Cardinality(Owners(f)) <= 1
    <3>1. Finish(t)
      BY <1>4, <2>4 DEF DeleteAccountOwners
    <3> QED BY <1>1, <2>1, <3>1, FinishStep DEF OwnStep
  <2>5. CASE ~ \E f \in owned : Cardinality(Owners(f)) <= 1
    <3>1. Proceed(t, r, "creators", rows)
      BY <1>4, <2>5 DEF DeleteAccountOwners
    <3>2. rows \in SUBSET RowIds /\ "creators" \in Stages
      BY RowsAreIds DEF Stages
    <3>3. \A f \in Families : r.seen[f] = "owner" => Cardinality(Owners(f)) > 1
      BY <2>5, OwnerCount
    <3> HIDE DEF rows
    <3>4. OwnStep(t)
      BY <1>1, <2>1, <2>3, <3>1, <3>2, <3>3, LeavingProceeds
    <3> QED BY <2>1, <3>4
  <2> QED BY <2>4, <2>5
<1>5. CASE DeleteAccountCreators(t)
  <2> DEFINE rows == {InvRow(i) : i \in {j \in Invitations :
                          r.user \in {inv[j].createdBy, inv[j].acceptedBy, inv[j].revokedBy}}}
  <2>1. Runs(t, "creators") /\ UNCHANGED <<rowVars, late>>
    BY <1>5 DEF DeleteAccountCreators
  <2>2. r.at = "creators"
    BY <2>1, GrantedHolds
  <2>3. /\ r.op = "delete_account" /\ u \in Users /\ UserRow(u) \in held[t]
        /\ \A f \in Memberships(u) : FamilyRow(f) \in held[t]
        /\ \A f \in Families : r.seen[f] # "none" => FamilyRow(f) \in held[t]
        /\ \A f \in Families : r.seen[f] = "owner" => Cardinality(Owners(f)) > 1
    BY <1>1, <2>2 DEF Shape, Leaving
  <2>4. Proceed(t, r, "commit", rows)
    BY <1>5 DEF DeleteAccountCreators
  <2>5. rows \in SUBSET RowIds /\ "commit" \in Stages
    BY RowsAreIds DEF Stages
  <2> HIDE DEF rows
  <2>6. OwnStep(t)
    BY <1>1, <2>1, <2>3, <2>4, <2>5, LeavingProceeds
  <2> QED BY <2>1, <2>6
<1> QED BY <1>2, <1>3, <1>4, <1>5

\* Signing in: the thread has no transaction yet.
LEMMA SignInStep ==
    ASSUME IInv, NEW t \in Threads,
           (\E s \in Subjects : ResolvePrincipal(t, s)) \/ InsertUser(t)
    PROVE  OwnStep(t)
<1>1. /\ LockTypes /\ ReqTypes /\ Disjoint /\ req[t] \in Request /\ Shape(t)
  BY Facts
<1>2. held' = held /\ want' = want /\ req[t].at \in {"idle", "insert_user"}
  BY DEF ResolvePrincipal, InsertUser
<1>3. PICK x \in Request :
          /\ req' = [req EXCEPT ![t] = x]
          /\ x.op = req[t].op /\ x.at \in {"insert_user", "route"}
          /\ x.at = "route" => x.user \in Users
          /\ x.at = "insert_user" => x.subject \in Subjects
  <2>1. ASSUME NEW s \in Subjects, ResolvePrincipal(t, s)
        PROVE  \E x \in Request :
                  /\ req' = [req EXCEPT ![t] = x]
                  /\ x.op = req[t].op /\ x.at \in {"insert_user", "route"}
                  /\ x.at = "route" => x.user \in Users
                  /\ x.at = "insert_user" => x.subject \in Subjects
    <3> DEFINE known == {u \in Users : account[u] = s}
               at == IF known = {} THEN "insert_user" ELSE "route"
               user == IF known = {} THEN NoUser ELSE CHOOSE u \in known : TRUE
               x == [req[t] EXCEPT !.subject = s, !.at = at, !.user = user]
    <3>1. req' = [req EXCEPT ![t] = x]
      BY <2>1 DEF ResolvePrincipal
    <3>2. at \in {"insert_user", "route"} /\ user \in Users \cup {NoUser} /\ (at = "route" => user \in Users)
      OBVIOUS
    <3> HIDE DEF at, user
    <3>a. at \in Stages
      BY <3>2 DEF Stages
    <3>3. x \in Request /\ x.op = req[t].op /\ x.at = at /\ x.user = user /\ x.subject = s
      BY <1>1, <3>2, <3>a DEF Request
    <3> HIDE DEF x
    <3> QED BY <3>1, <3>2, <3>3
  <2>2. ASSUME InsertUser(t)
        PROVE  \E x \in Request :
                  /\ req' = [req EXCEPT ![t] = x]
                  /\ x.op = req[t].op /\ x.at \in {"insert_user", "route"}
                  /\ x.at = "route" => x.user \in Users
                  /\ x.at = "insert_user" => x.subject \in Subjects
    <3>1. PICK u \in Users : req' = [req EXCEPT ![t] = [req[t] EXCEPT !.at = "route", !.user = u]]
      BY <2>2 DEF InsertUser
    <3> DEFINE x == [req[t] EXCEPT !.at = "route", !.user = u]
    <3>2. x \in Request /\ x.op = req[t].op /\ x.at = "route" /\ x.user = u
      BY <1>1 DEF Request, Stages
    <3>3. req' = [req EXCEPT ![t] = x]
      BY <3>1
    <3> HIDE DEF x
    <3> QED BY <3>2, <3>3
  <2> QED BY <2>1, <2>2
<1>4. ReqTypes' /\ req'[t] = x /\ \A s \in Threads \ {t} : req'[s] = req[s]
  BY <1>1, <1>3 DEF ReqTypes
<1>5. LockTypes' /\ Disjoint' /\ Others(t)
  BY <1>1, <1>2, <1>4 DEF LockTypes, Disjoint, Others
<1>6. held[t] = {} /\ want[t] = <<>> /\ req[t].op = "none"
  BY <1>1, <1>2 DEF Shape
<1>7. Shape(t)'
  BY <1>2, <1>3, <1>4, <1>6 DEF Shape, FamilyOps, FamilyFirst, OneBatch
<1>8. FamilyLocked(t)' /\ Counted(t)' /\ Settling(t)' /\ Leaving(t)' /\ Ordered(t)'
  BY <1>3, <1>4, <1>6 DEF FamilyLocked, HasFamily, Counted, Settling, Leaving, Ordered, FamilyFirst
<1> QED BY <1>4, <1>5, <1>7, <1>8 DEF OwnStep, Local

-----------------------------------------------------------------------------
(* The steps that write                                                    *)

MembersLive ==
    \A f \in Families, u \in Users : role[f][u] # "none" => f \in LiveFamilies /\ u \in LiveUsers
CreatorsLive ==
    \A f \in Families : creator[f] \in LiveUsers \cup {NoUser}
InvitationsLive ==
    \A i \in Invitations :
       /\ {inv[i].createdBy, inv[i].acceptedBy, inv[i].revokedBy} \subseteq LiveUsers \cup {NoUser}
       /\ inv[i].status \in InvitationStatus => inv[i].family \in LiveFamilies

LEMMA LiveParts ==
    /\ ReferencesLive <=> MembersLive /\ CreatorsLive /\ InvitationsLive
    /\ ReferencesLive' <=> MembersLive' /\ CreatorsLive' /\ InvitationsLive'
BY DEF ReferencesLive, MembersLive, CreatorsLive, InvitationsLive

AccountTypes  == account \in [Users -> Subjects \cup {"unused", "deleted"}]
FamilyTypes   == family \in [Families -> {"unused", "live", "deleted"}]
CreatorTypes  == creator \in [Families -> Users \cup {NoUser}]
RoleTypes     == role \in [Families -> [Users -> Roles \cup {"none"}]]
InvTypes      == inv \in [Invitations -> InvitationRow]

LEMMA RowParts ==
    /\ RowTypes <=> /\ AccountTypes /\ FamilyTypes /\ CreatorTypes /\ RoleTypes /\ InvTypes
                    /\ late \subseteq Invitations
    /\ RowTypes' <=> /\ AccountTypes' /\ FamilyTypes' /\ CreatorTypes' /\ RoleTypes' /\ InvTypes'
                     /\ (late \subseteq Invitations)'
BY DEF RowTypes, AccountTypes, FamilyTypes, CreatorTypes, RoleTypes, InvTypes

\* What a write leaves of the rows.
WriteStep(t) == RowTypes' /\ OneAccountPerSubject' /\ ReferencesLive' /\ Kept(t)

LEMMA ReadsWriteNothing ==
    ASSUME IInv, NEW t \in Threads, UNCHANGED <<rowVars, late>>
    PROVE  WriteStep(t)
<1>1. RowTypes /\ OneAccountPerSubject /\ ReferencesLive
  BY Facts
<1>2. /\ account' = account /\ family' = family /\ creator' = creator
      /\ role' = role /\ inv' = inv /\ late' = late
      /\ LiveFamilies' = LiveFamilies /\ LiveUsers' = LiveUsers
  BY RowsSame
<1>3. RowTypes'
  BY <1>1, <1>2 DEF RowTypes
<1>4. OneAccountPerSubject' /\ ReferencesLive'
  BY <1>1, <1>2 DEF OneAccountPerSubject, ReferencesLive
<1> QED BY <1>3, <1>4, UnchangedKept DEF WriteStep

\* One member's role changes, in a family that is locked, or joins.
LEMMA RoleColumn ==
    ASSUME RoleTypes, MembersLive, NEW t \in Threads, NEW f \in Families, NEW u \in Users,
           NEW x \in Roles \cup {"none"}, role' = [role EXCEPT ![f][u] = x],
           LiveFamilies \subseteq LiveFamilies', LiveUsers' = LiveUsers, f \in LiveFamilies', u \in LiveUsers,
           FamilyRow(f) \in held[t] \/ family[f] = "unused",
           role[f][u] = "none" => Free(t, UserRow(u))
    PROVE  RoleTypes' /\ RolesKept(t) /\ MembersLive'
<1>1. /\ role'[f] = [role[f] EXCEPT ![u] = x]
      /\ \A g \in Families : g # f => role'[g] = role[g]
      /\ RoleTypes'
  BY DEF RoleTypes
<1>2. role'[f][u] = x /\ \A v \in Users : v # u => role'[f][v] = role[f][v]
  BY <1>1 DEF RoleTypes
<1>3. RolesKept(t)
  BY <1>1, <1>2 DEF RolesKept
<1>4. MembersLive'
  BY <1>1, <1>2 DEF MembersLive
<1> QED BY <1>1, <1>3, <1>4

\* One invitation is written, under its lock.
LEMMA InvColumn ==
    ASSUME InvTypes, InvitationsLive, NEW t \in Threads, NEW i \in Invitations, NEW y \in InvitationRow,
           inv' = [inv EXCEPT ![i] = y], LiveFamilies' = LiveFamilies, LiveUsers' = LiveUsers,
           {y.createdBy, y.acceptedBy, y.revokedBy} \subseteq LiveUsers \cup {NoUser},
           y.status \in InvitationStatus, y.family \in LiveFamilies,
           inv[i].status \in InvitationStatus => InvRow(i) \in held[t] /\ y.family = inv[i].family
    PROVE  InvTypes' /\ InvitationsKept(t) /\ InvitationsLive'
<1>1. inv'[i] = y /\ (\A j \in Invitations : j # i => inv'[j] = inv[j]) /\ InvTypes'
  BY DEF InvTypes
<1>2. InvitationsKept(t)
  BY <1>1 DEF InvitationsKept, Rows, InvitationStatus
<1>3. InvitationsLive'
  BY <1>1 DEF InvitationsLive
<1> QED BY <1>1, <1>2, <1>3

LEMMA AccountsSame ==
    ASSUME account' = account
    PROVE  /\ LiveUsers' = LiveUsers /\ (AccountTypes => AccountTypes')
           /\ OneAccountPerSubject => OneAccountPerSubject'
BY DEF LiveUsers, AccountTypes, OneAccountPerSubject

LEMMA FamiliesSame ==
    ASSUME NEW t \in Threads, family' = family
    PROVE  LiveFamilies' = LiveFamilies /\ FamiliesKept(t) /\ (FamilyTypes => FamilyTypes')
BY DEF LiveFamilies, FamiliesKept, FamilyTypes

LEMMA CreatorsSame ==
    ASSUME creator' = creator, LiveUsers' = LiveUsers
    PROVE  (CreatorTypes => CreatorTypes') /\ (CreatorsLive => CreatorsLive')
BY DEF CreatorTypes, CreatorsLive

LEMMA RolesSame ==
    ASSUME NEW t \in Threads, role' = role, LiveUsers' = LiveUsers, LiveFamilies' = LiveFamilies
    PROVE  (RoleTypes => RoleTypes') /\ (MembersLive => MembersLive') /\ RolesKept(t)
BY DEF RoleTypes, MembersLive, RolesKept

LEMMA InvitationsSame ==
    ASSUME NEW t \in Threads, inv' = inv, LiveUsers' = LiveUsers, LiveFamilies \subseteq LiveFamilies'
    PROVE  (InvTypes => InvTypes') /\ (InvitationsLive => InvitationsLive') /\ InvitationsKept(t)
BY DEF InvTypes, InvitationsLive, InvitationsKept, Rows

\* Together.
LEMMA WriteParts ==
    ASSUME IInv, NEW t \in Threads
    PROVE  /\ AccountTypes /\ FamilyTypes /\ CreatorTypes /\ RoleTypes /\ InvTypes
           /\ late \subseteq Invitations
           /\ OneAccountPerSubject /\ MembersLive /\ CreatorsLive /\ InvitationsLive
           /\ (/\ AccountTypes' /\ FamilyTypes' /\ CreatorTypes' /\ RoleTypes' /\ InvTypes' /\ late' = late
               /\ OneAccountPerSubject' /\ MembersLive' /\ CreatorsLive' /\ InvitationsLive'
               /\ FamiliesKept(t) /\ RolesKept(t) /\ InvitationsKept(t))
              => WriteStep(t)
BY Facts, RowParts, LiveParts DEF WriteStep, Kept

LEMMA CreateFamilyStep ==
    ASSUME IInv, NEW t \in Threads, NEW f \in Families, req[t].at = "route", CreateFamily(t, f)
    PROVE  OwnStep(t) /\ WriteStep(t)
<1> DEFINE u == req[t].user
<1>1. CASE u \notin LiveUsers
  <2>1. Refuse(t)
    BY <1>1 DEF CreateFamily
  <2> QED BY <2>1, RefuseStep, ReadsWriteNothing
<1>2. CASE u \in LiveUsers
  <2>1. /\ Free(t, UserRow(u)) /\ family[f] = "unused"
        /\ family' = [family EXCEPT ![f] = "live"]
        /\ creator' = [creator EXCEPT ![f] = u]
        /\ role' = [role EXCEPT ![f][u] = "owner"]
        /\ Finish(t) /\ account' = account /\ inv' = inv /\ late' = late
    BY <1>2 DEF CreateFamily
  <2>2. OwnStep(t)
    BY <2>1, Facts, FinishStep DEF OwnStep
  <2>3. /\ AccountTypes /\ FamilyTypes /\ CreatorTypes /\ RoleTypes /\ InvTypes
        /\ OneAccountPerSubject /\ MembersLive /\ CreatorsLive /\ InvitationsLive
    BY WriteParts
  <2>4. LiveUsers' = LiveUsers /\ AccountTypes' /\ OneAccountPerSubject' /\ u \in Users
    BY <1>2, <2>1, <2>3, AccountsSame DEF LiveUsers
  <2>5. /\ FamilyTypes' /\ FamiliesKept(t) /\ f \in LiveFamilies'
        /\ LiveFamilies \subseteq LiveFamilies'
    BY <2>1, <2>3 DEF FamilyTypes, FamiliesKept, LiveFamilies
  <2>6. CreatorTypes' /\ CreatorsLive'
    BY <1>2, <2>1, <2>3, <2>4 DEF CreatorTypes, CreatorsLive
  <2>7. RoleTypes' /\ RolesKept(t) /\ MembersLive'
    <3>1. "owner" \in Roles \cup {"none"}
      BY DEF Roles
    <3>2. PICK v \in Users : v = u
      BY <2>4
    <3>3. /\ role' = [role EXCEPT ![f][v] = "owner"] /\ Free(t, UserRow(v)) /\ v \in LiveUsers
          /\ family[f] = "unused"
      BY <1>2, <2>1, <3>2
    <3> QED BY ONLY <2>3, <2>4, <2>5, <3>1, <3>3, RoleColumn, t \in Threads, f \in Families, v \in Users
  <2>8. InvTypes' /\ InvitationsLive' /\ InvitationsKept(t)
    BY <2>1, <2>3, <2>4, <2>5, InvitationsSame
  <2> QED BY <2>1, <2>2, <2>4, <2>5, <2>6, <2>7, <2>8, WriteParts
<1> QED BY <1>1, <1>2

\* The two changes of a member's role.
LEMMA MemberStep ==
    ASSUME IInv, NEW t \in Threads, ChangeMemberRole(t) \/ RemoveMember(t)
    PROVE  OwnStep(t) /\ WriteStep(t)
<1> DEFINE r == req[t]
           old == role[req[t].family][req[t].target]
<1>1. Runs(t, "commit") /\ r.op \in {"change_member_role", "remove_member"}
  BY DEF ChangeMemberRole, RemoveMember
<1>2. /\ r.at = "commit" /\ r.target \in Users /\ r.family \in LiveFamilies
      /\ FamilyRow(r.family) \in held[t]
      /\ r.op = "change_member_role" => r.role \in Roles
  BY <1>1, Facts, GrantedHolds DEF Shape, FamilyLocked, HasFamily, FamilyOps, FamilyFirst
<1>3. CASE Refuse(t)
  BY <1>3, RefuseStep, ReadsWriteNothing
<1>4. CASE ~ Refuse(t)
  <2>1. PICK f \in Families, u \in Users, x \in Roles \cup {"none"} :
            /\ f = r.family /\ u = r.target /\ role[f][u] # "none"
            /\ role' = [role EXCEPT ![f][u] = x]
            /\ Finish(t) /\ UNCHANGED <<account, family, creator, inv, late>>
    <3>1. r.family \in Families
      BY <1>2 DEF LiveFamilies
    <3>2. CASE ChangeMemberRole(t)
      BY <1>2, <1>4, <3>1, <3>2 DEF ChangeMemberRole
    <3>3. CASE RemoveMember(t)
      BY <1>2, <1>4, <3>1, <3>3 DEF RemoveMember
    <3> QED BY <3>2, <3>3
  <2>2. OwnStep(t)
    BY <2>1, Facts, FinishStep DEF OwnStep
  <2>3. /\ AccountTypes /\ FamilyTypes /\ CreatorTypes /\ RoleTypes /\ InvTypes
        /\ OneAccountPerSubject /\ MembersLive /\ CreatorsLive /\ InvitationsLive
    BY WriteParts
  <2>4. LiveUsers' = LiveUsers /\ AccountTypes' /\ OneAccountPerSubject'
    BY <2>1, <2>3, AccountsSame
  <2>5. LiveFamilies' = LiveFamilies /\ FamilyTypes' /\ FamiliesKept(t)
    BY <2>1, <2>3, FamiliesSame
  <2>6. CreatorTypes' /\ CreatorsLive'
    BY <2>1, <2>3, <2>4, CreatorsSame
  <2>7. RoleTypes' /\ RolesKept(t) /\ MembersLive'
    <3>1. /\ role' = [role EXCEPT ![f][u] = x] /\ FamilyRow(f) \in held[t] /\ role[f][u] # "none"
          /\ f \in LiveFamilies' /\ LiveFamilies \subseteq LiveFamilies' /\ u \in LiveUsers
      BY <1>2, <2>1, <2>3, <2>5 DEF MembersLive
    <3> QED BY ONLY <2>3, <2>4, <3>1, RoleColumn, t \in Threads, f \in Families, u \in Users,
                    x \in Roles \cup {"none"}
  <2>8. InvTypes' /\ InvitationsLive' /\ InvitationsKept(t)
    BY <2>1, <2>3, <2>4, <2>5, InvitationsSame
  <2> QED BY <2>1, <2>2, <2>4, <2>5, <2>6, <2>7, <2>8, WriteParts
<1> QED BY <1>3, <1>4

LEMMA DeleteFamilyStep ==
    ASSUME IInv, NEW t \in Threads, DeleteFamily(t)
    PROVE  OwnStep(t) /\ WriteStep(t)
<1>1. Runs(t, "commit") /\ req[t].op = "delete_family"
  BY DEF DeleteFamily
<1>2. PICK f \in Families : f = req[t].family /\ f \in LiveFamilies /\ FamilyRow(f) \in held[t]
  BY <1>1, Facts, GrantedHolds DEF FamilyLocked, HasFamily, FamilyOps, FamilyFirst, LiveFamilies
<1> DEFINE gone == [NoInvitation EXCEPT !.status = "deleted"]
<1>3. /\ family' = [family EXCEPT ![f] = "deleted"]
      /\ creator' = [creator EXCEPT ![f] = NoUser]
      /\ role' = [role EXCEPT ![f] = [u \in Users |-> "none"]]
      /\ inv' = [i \in Invitations |-> IF i \in Rows(f) THEN gone ELSE inv[i]]
      /\ Finish(t) /\ account' = account /\ late' = late
  BY <1>2 DEF DeleteFamily
<1>4. OwnStep(t)
  BY <1>3, Facts, FinishStep DEF OwnStep
<1>5. /\ AccountTypes /\ FamilyTypes /\ CreatorTypes /\ RoleTypes /\ InvTypes
      /\ OneAccountPerSubject /\ MembersLive /\ CreatorsLive /\ InvitationsLive
  BY WriteParts
<1>6. LiveUsers' = LiveUsers /\ AccountTypes' /\ OneAccountPerSubject'
  BY <1>3, <1>5, AccountsSame
<1>7. FamilyTypes' /\ FamiliesKept(t) /\ LiveFamilies' = LiveFamilies \ {f} /\ family'[f] = "deleted"
  BY <1>2, <1>3, <1>5 DEF FamilyTypes, FamiliesKept, LiveFamilies
<1>8. CreatorTypes' /\ CreatorsLive'
  BY <1>3, <1>5, <1>6 DEF CreatorTypes, CreatorsLive
<1>9. /\ RoleTypes' /\ (\A u \in Users : role'[f][u] = "none")
      /\ \A g \in Families : g # f => role'[g] = role[g]
  BY <1>3, <1>5 DEF RoleTypes
<1>10. RolesKept(t)
  BY <1>2, <1>9 DEF RolesKept
<1>11. MembersLive'
  BY <1>5, <1>6, <1>7, <1>9 DEF MembersLive
<1>12. /\ gone \in InvitationRow /\ gone.status = "deleted"
       /\ gone.createdBy = NoUser /\ gone.acceptedBy = NoUser /\ gone.revokedBy = NoUser
  BY DEF NoInvitation, InvitationRow
<1> HIDE DEF gone
<1>13. \A i \in Invitations : inv'[i] = IF i \in Rows(f) THEN gone ELSE inv[i]
  BY <1>3
<1>14. InvTypes'
  BY <1>3, <1>5, <1>12 DEF InvTypes
<1>15. InvitationsKept(t)
  BY <1>2, <1>7, <1>12, <1>13 DEF InvitationsKept, Rows
<1>16. InvitationsLive'
  <2> SUFFICES ASSUME NEW i \in Invitations
               PROVE  /\ {inv'[i].createdBy, inv'[i].acceptedBy, inv'[i].revokedBy} \subseteq LiveUsers \cup {NoUser}
                      /\ inv'[i].status \in InvitationStatus => inv'[i].family \in LiveFamilies \ {f}
    BY <1>6, <1>7 DEF InvitationsLive
  <2>1. CASE i \in Rows(f)
    BY <1>12, <1>13, <2>1 DEF InvitationStatus
  <2>2. CASE i \notin Rows(f)
    BY <1>5, <1>13, <2>2 DEF InvitationsLive, Rows
  <2> QED BY <2>1, <2>2
<1> QED BY <1>3, <1>4, <1>6, <1>7, <1>8, <1>9, <1>10, <1>11, <1>14, <1>15, <1>16, WriteParts

LEMMA DeleteAccountCommit ==
    ASSUME IInv, NEW t \in Threads, DeleteAccount(t)
    PROVE  OwnStep(t) /\ WriteStep(t)
<1>1. Runs(t, "commit") /\ req[t].op = "delete_account"
  BY DEF DeleteAccount
<1>2. PICK u \in Users : u = req[t].user /\ \A f \in Memberships(u) : FamilyRow(f) \in held[t]
  BY <1>1, Facts, GrantedHolds DEF Shape, Leaving
<1>3. /\ creator' = [f \in Families |-> Forget(u, creator[f])]
      /\ inv' = [i \in Invitations |-> [inv[i] EXCEPT
                   !.createdBy = Forget(u, @), !.acceptedBy = Forget(u, @),
                   !.revokedBy = Forget(u, @)]]
      /\ role' = [f \in Families |-> [role[f] EXCEPT ![u] = "none"]]
      /\ account' = [account EXCEPT ![u] = "deleted"]
      /\ Finish(t) /\ family' = family /\ late' = late
  BY <1>2 DEF DeleteAccount
<1>4. OwnStep(t)
  BY <1>3, Facts, FinishStep DEF OwnStep
<1>5. /\ AccountTypes /\ FamilyTypes /\ CreatorTypes /\ RoleTypes /\ InvTypes
      /\ OneAccountPerSubject /\ MembersLive /\ CreatorsLive /\ InvitationsLive
  BY WriteParts
<1>6. LiveUsers' = LiveUsers \ {u} /\ AccountTypes'
  BY <1>3, <1>5, IdentityAssumption DEF LiveUsers, AccountTypes
<1>7. OneAccountPerSubject'
  BY <1>3, <1>5, <1>6 DEF OneAccountPerSubject, AccountTypes, LiveUsers
<1>8. LiveFamilies' = LiveFamilies /\ FamilyTypes' /\ FamiliesKept(t)
  BY <1>3, <1>5, FamiliesSame
<1>9. \A x \in Users \cup {NoUser} : x \in LiveUsers \cup {NoUser} => Forget(u, x) \in (LiveUsers \ {u}) \cup {NoUser}
  BY IdentityAssumption DEF Forget
<1>10. CreatorTypes' /\ CreatorsLive'
  <2>1. \A f \in Families : creator'[f] = Forget(u, creator[f])
    BY <1>3
  <2>2. CreatorTypes'
    BY <1>3, <1>5 DEF CreatorTypes, Forget
  <2> QED BY <1>5, <1>6, <1>9, <2>1, <2>2 DEF CreatorTypes, CreatorsLive
<1>11. /\ RoleTypes'
       /\ \A f \in Families : /\ role'[f][u] = "none"
                              /\ \A v \in Users : v # u => role'[f][v] = role[f][v]
                              /\ role[f][u] = "none" => role'[f] = role[f]
  <2>1. \A f \in Families : role'[f] = [role[f] EXCEPT ![u] = "none"] /\ role[f] \in [Users -> Roles \cup {"none"}]
    BY <1>3, <1>5 DEF RoleTypes
  <2>2. RoleTypes'
    BY <1>3, <1>5 DEF RoleTypes
  <2>3. ASSUME NEW f \in Families
        PROVE  /\ role'[f][u] = "none"
               /\ \A v \in Users : v # u => role'[f][v] = role[f][v]
               /\ role[f][u] = "none" => role'[f] = role[f]
    <3>1. role'[f] = [role[f] EXCEPT ![u] = "none"] /\ role[f] \in [Users -> Roles \cup {"none"}]
      BY <2>1
    <3>2. role'[f][u] = "none"
      BY ONLY <1>2, <3>1
    <3>3. \A v \in Users : v # u => role'[f][v] = role[f][v]
      BY ONLY <1>2, <3>1
    <3>4. role'[f] \in [Users -> Roles \cup {"none"}]
      BY <2>2 DEF RoleTypes
    <3>5. ASSUME role[f][u] = "none" PROVE role'[f] = role[f]
      <4>1. \A v \in Users : role'[f][v] = role[f][v]
        BY ONLY <3>2, <3>3, <3>5
      <4> QED BY ONLY <3>1, <3>4, <4>1
    <3> QED BY ONLY <3>2, <3>3, <3>5
  <2> QED BY ONLY <2>2, <2>3
<1>12. RolesKept(t)
  BY <1>2, <1>11 DEF RolesKept, Memberships
<1>13. MembersLive'
  BY <1>5, <1>6, <1>8, <1>11 DEF MembersLive
<1>14. \A i \in Invitations :
          /\ inv'[i] \in InvitationRow
          /\ inv'[i].status = inv[i].status /\ inv'[i].family = inv[i].family
          /\ inv'[i].createdBy = Forget(u, inv[i].createdBy)
          /\ inv'[i].acceptedBy = Forget(u, inv[i].acceptedBy)
          /\ inv'[i].revokedBy = Forget(u, inv[i].revokedBy)
  <2> SUFFICES ASSUME NEW i \in Invitations
               PROVE  /\ inv'[i] \in InvitationRow
                      /\ inv'[i].status = inv[i].status /\ inv'[i].family = inv[i].family
                      /\ inv'[i].createdBy = Forget(u, inv[i].createdBy)
                      /\ inv'[i].acceptedBy = Forget(u, inv[i].acceptedBy)
                      /\ inv'[i].revokedBy = Forget(u, inv[i].revokedBy)
    OBVIOUS
  <2>1. inv'[i] = [inv[i] EXCEPT !.createdBy = Forget(u, @), !.acceptedBy = Forget(u, @),
                                 !.revokedBy = Forget(u, @)]
    BY <1>3
  <2>2. inv[i] \in InvitationRow
    BY <1>5 DEF InvTypes
  <2>3. \A x \in Users \cup {NoUser} : Forget(u, x) \in Users \cup {NoUser}
    BY DEF Forget
  <2> QED BY <2>1, <2>2, <2>3 DEF InvitationRow
<1>15. InvTypes'
  BY <1>3, <1>14 DEF InvTypes
<1>16. InvitationsKept(t)
  BY <1>14 DEF InvitationsKept, Rows
<1>17. InvitationsLive'
  <2>1. \A i \in Invitations : inv[i].createdBy \in Users \cup {NoUser}
          /\ inv[i].acceptedBy \in Users \cup {NoUser} /\ inv[i].revokedBy \in Users \cup {NoUser}
    BY <1>5 DEF InvTypes, InvitationRow
  <2> QED BY <1>5, <1>6, <1>8, <1>9, <1>14, <2>1 DEF InvitationsLive
<1> QED BY <1>3, <1>4, <1>6, <1>7, <1>8, <1>10, <1>11, <1>12, <1>13, <1>15, <1>16, <1>17, WriteParts

\* A step that writes one invitation, or an invitation and the role it gives.
LEMMA InvitationStep ==
    ASSUME IInv, NEW t \in Threads,
           \/ \E i \in Invitations : CreateInvitation(t, i)
           \/ RevokeInvitation(t) \/ PreviewExpire(t) \/ AcceptInvitation(t)
    PROVE  OwnStep(t) /\ WriteStep(t)
<1> DEFINE r == req[t]
<1>1. /\ ReferencesLive /\ req[t] \in Request /\ Shape(t) /\ FamilyLocked(t) /\ Settling(t)
  BY Facts
<1>2. /\ AccountTypes /\ FamilyTypes /\ CreatorTypes /\ RoleTypes /\ InvTypes
      /\ OneAccountPerSubject /\ MembersLive /\ CreatorsLive /\ InvitationsLive
  BY WriteParts
<1>3. Runs(t, "commit")
  BY DEF CreateInvitation, RevokeInvitation, PreviewExpire, AcceptInvitation
<1>4. r.at = "commit" /\ Asked(t) = held[t]
  BY <1>3, GrantedHolds
<1>5. CASE Refuse(t)
  BY <1>5, RefuseStep, ReadsWriteNothing
<1>6. CASE ~ Refuse(t)
  <2> DEFINE Goes(i, y) ==
                 /\ inv' = [inv EXCEPT ![i] = y]
                 /\ {y.createdBy, y.acceptedBy, y.revokedBy} \subseteq LiveUsers \cup {NoUser}
                 /\ y.status \in InvitationStatus /\ y.family \in LiveFamilies
                 /\ inv[i].status \in InvitationStatus => InvRow(i) \in held[t] /\ y.family = inv[i].family
             Joins ==
                 \E f \in Families, u \in Users, x \in Roles \cup {"none"} :
                    /\ role' = [role EXCEPT ![f][u] = x]
                    /\ f \in LiveFamilies /\ u \in LiveUsers
                    /\ FamilyRow(f) \in held[t] /\ Free(t, UserRow(u))
             Writes ==
                 /\ Finish(t) /\ account' = account /\ family' = family /\ creator' = creator /\ late' = late
                 /\ \E i \in Invitations, y \in InvitationRow : Goes(i, y)
                 /\ role' = role \/ Joins
  <2>1. Writes
    <3>1. ASSUME NEW i \in Invitations, CreateInvitation(t, i) PROVE Writes
      <4> DEFINE y == [NoInvitation EXCEPT !.status = "pending",
                         !.family = r.family, !.role = r.role, !.createdBy = r.user]
      <4>1. /\ r.op = "create_invitation" /\ r.user \in LiveUsers /\ inv[i].status = "unused"
            /\ inv' = [inv EXCEPT ![i] = y] /\ Finish(t)
            /\ UNCHANGED <<account, family, creator, role, late>>
        BY <1>6, <3>1 DEF CreateInvitation
      <4>2. r.family \in LiveFamilies /\ r.role \in Roles
        BY <1>1, <1>4, <4>1 DEF Shape, FamilyLocked, HasFamily, FamilyOps, FamilyFirst, Roles
      <4>3. /\ y \in InvitationRow /\ y.status = "pending" /\ y.family = r.family
            /\ y.createdBy = r.user /\ y.acceptedBy = NoUser /\ y.revokedBy = NoUser
        BY <4>1, <4>2 DEF NoInvitation, InvitationRow, InvitationStatus, LiveFamilies, LiveUsers
      <4> HIDE DEF y
      <4> QED BY <4>1, <4>2, <4>3 DEF InvitationStatus
    <3>2. ASSUME RevokeInvitation(t) PROVE Writes
      <4> DEFINE i == r.inv
                 y == [inv[r.inv] EXCEPT !.status = "revoked", !.revokedBy = r.user]
      <4>1. /\ r.op = "revoke_invitation" /\ r.user \in LiveUsers
            /\ inv' = [inv EXCEPT ![i] = y] /\ Finish(t)
            /\ UNCHANGED <<account, family, creator, role, late>>
        BY <1>6, <3>2 DEF RevokeInvitation
      <4>2. i \in Invitations /\ InvRow(i) \in held[t] /\ inv[i].status \in InvitationStatus
        BY <1>1, <1>4, <4>1 DEF Shape, Settling, InvitationStatus
      <4>3. /\ y \in InvitationRow /\ y.status = "revoked" /\ y.family = inv[i].family
            /\ y.createdBy = inv[i].createdBy /\ y.acceptedBy = inv[i].acceptedBy /\ y.revokedBy = r.user
        BY <1>2, <4>1, <4>2 DEF InvTypes, InvitationRow, InvitationStatus, LiveUsers
      <4> HIDE DEF y
      <4>4. Goes(i, y)
        BY <1>2, <4>1, <4>2, <4>3 DEF InvitationStatus, InvitationsLive
      <4> QED BY <4>1, <4>2, <4>3, <4>4
    <3>3. ASSUME PreviewExpire(t) PROVE Writes
      <4> DEFINE i == r.inv
                 y == [inv[r.inv] EXCEPT !.status = "expired"]
      <4>1. /\ r.op = "preview" /\ inv[i].status # "deleted"
            /\ inv' = [inv EXCEPT ![i] = y] /\ Finish(t)
            /\ UNCHANGED <<account, family, creator, role, late>>
        BY <1>6, <3>3 DEF PreviewExpire
      <4>2. i \in Invitations /\ InvRow(i) \in held[t] /\ inv[i].status # "unused"
        BY <1>1, <1>4, <4>1 DEF Shape, Settling
      <4>3. inv[i] \in InvitationRow /\ inv[i].status \in InvitationStatus
        BY <1>2, <4>1, <4>2 DEF InvTypes, InvitationRow
      <4>4. /\ y \in InvitationRow /\ y.status = "expired" /\ y.family = inv[i].family
            /\ y.createdBy = inv[i].createdBy /\ y.acceptedBy = inv[i].acceptedBy
            /\ y.revokedBy = inv[i].revokedBy
        BY <4>3 DEF InvitationRow, InvitationStatus
      <4> HIDE DEF y
      <4>5. Goes(i, y)
        BY <1>2, <4>1, <4>2, <4>3, <4>4 DEF InvitationStatus, InvitationsLive
      <4> QED BY <4>1, <4>2, <4>4, <4>5
    <3>4. ASSUME AcceptInvitation(t) PROVE Writes
      <4> DEFINE i == r.inv
                 f == r.family
                 y == [inv[r.inv] EXCEPT !.status = "accepted", !.acceptedBy = r.user]
      <4>1. /\ r.op = "accept_invitation" /\ r.user \in LiveUsers
            /\ inv' = [inv EXCEPT ![i] = y] /\ Finish(t)
            /\ role' = IF role[f][r.user] = "none" THEN [role EXCEPT ![f][r.user] = inv[i].role] ELSE role
            /\ UNCHANGED <<account, family, creator, late>>
        BY <1>6, <3>4 DEF AcceptInvitation
      <4>2. /\ i \in Invitations /\ f \in LiveFamilies /\ f \in Families
            /\ InvRow(i) \in held[t] /\ FamilyRow(f) \in held[t] /\ UserRow(r.user) \in held[t]
            /\ inv[i].status = "pending"
        BY <1>1, <1>4, <4>1 DEF Shape, Settling, FamilyLocked, HasFamily, FamilyOps, LiveFamilies
      <4>3. inv[i] \in InvitationRow /\ inv[i].role \in Roles \cup {"none"}
        BY <1>2, <4>2 DEF InvTypes, InvitationRow
      <4>4. /\ y \in InvitationRow /\ y.status = "accepted" /\ y.family = inv[i].family
            /\ y.createdBy = inv[i].createdBy /\ y.acceptedBy = r.user
            /\ y.revokedBy = inv[i].revokedBy
        BY <4>1, <4>3 DEF InvitationRow, InvitationStatus, LiveUsers
      <4> HIDE DEF y
      <4>5. Goes(i, y)
        BY <1>2, <4>1, <4>2, <4>3, <4>4 DEF InvitationStatus, InvitationsLive
      <4>6. role' = role \/ Joins
        <5>1. Free(t, UserRow(r.user))
          BY <4>2, Facts DEF Disjoint, Free
        <5> QED BY <4>1, <4>2, <4>3, <5>1 DEF LiveUsers
      <4> QED BY <4>1, <4>2, <4>4, <4>5, <4>6
    <3> QED BY <3>1, <3>2, <3>3, <3>4
  <2>2. OwnStep(t)
    BY <2>1, Facts, FinishStep DEF OwnStep
  <2>3. LiveUsers' = LiveUsers /\ AccountTypes' /\ OneAccountPerSubject'
    BY <1>2, <2>1, AccountsSame
  <2>4. LiveFamilies' = LiveFamilies /\ FamilyTypes' /\ FamiliesKept(t)
    BY <1>2, <2>1, FamiliesSame
  <2>5. CreatorTypes' /\ CreatorsLive'
    BY <1>2, <2>1, <2>3, CreatorsSame
  <2>6. InvTypes' /\ InvitationsLive' /\ InvitationsKept(t)
    <3>1. PICK i \in Invitations, y \in InvitationRow : Goes(i, y)
      BY <2>1
    <3> QED BY ONLY <1>2, <2>3, <2>4, <3>1, InvColumn, t \in Threads, i \in Invitations, y \in InvitationRow
  <2>7. RoleTypes' /\ RolesKept(t) /\ MembersLive'
    <3>1. CASE role' = role
      BY <1>2, <2>3, <2>4, <3>1, RolesSame
    <3>2. CASE Joins
      <4>1. PICK f \in Families, u \in Users, x \in Roles \cup {"none"} :
                    /\ role' = [role EXCEPT ![f][u] = x]
                    /\ f \in LiveFamilies /\ u \in LiveUsers
                    /\ FamilyRow(f) \in held[t] /\ Free(t, UserRow(u))
        BY <3>2
      <4>2. LiveFamilies \subseteq LiveFamilies' /\ f \in LiveFamilies'
        BY <2>4, <4>1
      <4> QED BY ONLY <1>2, <2>3, <4>1, <4>2, RoleColumn, t \in Threads, f \in Families, u \in Users,
                      x \in Roles \cup {"none"}
    <3> QED BY <2>1, <3>1, <3>2
  <2> QED BY <2>1, <2>2, <2>3, <2>4, <2>5, <2>6, <2>7, WriteParts
<1> QED BY <1>5, <1>6

LEMMA ListInvitationsStep ==
    ASSUME IInv, NEW t \in Threads, ListInvitations(t)
    PROVE  OwnStep(t) /\ WriteStep(t)
<1>1. /\ AccountTypes /\ FamilyTypes /\ CreatorTypes /\ RoleTypes /\ InvTypes
      /\ OneAccountPerSubject /\ MembersLive /\ CreatorsLive /\ InvitationsLive
  BY WriteParts
<1>2. /\ Finish(t) /\ UNCHANGED <<account, family, creator, role, late>>
      /\ inv' = [i \in Invitations |->
                   IF /\ InvRow(i) \in held[t] /\ i \in Rows(req[t].family)
                      /\ inv[i].status = "pending"
                   THEN [inv[i] EXCEPT !.status = "expired"] ELSE inv[i]]
  BY DEF ListInvitations
<1>3. OwnStep(t)
  BY <1>2, Facts, FinishStep DEF OwnStep
<1>4. LiveUsers' = LiveUsers /\ AccountTypes' /\ OneAccountPerSubject'
  BY <1>1, <1>2, AccountsSame
<1>5. LiveFamilies' = LiveFamilies /\ FamilyTypes' /\ FamiliesKept(t)
  BY <1>1, <1>2, FamiliesSame
<1>6. CreatorTypes' /\ CreatorsLive'
  BY <1>1, <1>2, <1>4, CreatorsSame
<1>7. RoleTypes' /\ RolesKept(t) /\ MembersLive'
  BY <1>1, <1>2, <1>4, <1>5, RolesSame
<1>8. \A i \in Invitations :
         /\ inv'[i] \in InvitationRow
         /\ inv'[i].family = inv[i].family /\ inv'[i].createdBy = inv[i].createdBy
         /\ inv'[i].acceptedBy = inv[i].acceptedBy /\ inv'[i].revokedBy = inv[i].revokedBy
         /\ \/ inv'[i].status = inv[i].status
            \/ InvRow(i) \in held[t] /\ inv[i].status = "pending" /\ inv'[i].status = "expired"
  <2> SUFFICES ASSUME NEW i \in Invitations
               PROVE  /\ inv'[i] \in InvitationRow
                      /\ inv'[i].family = inv[i].family /\ inv'[i].createdBy = inv[i].createdBy
                      /\ inv'[i].acceptedBy = inv[i].acceptedBy /\ inv'[i].revokedBy = inv[i].revokedBy
                      /\ \/ inv'[i].status = inv[i].status
                         \/ InvRow(i) \in held[t] /\ inv[i].status = "pending" /\ inv'[i].status = "expired"
    OBVIOUS
  <2>1. inv[i] \in InvitationRow
    BY <1>1 DEF InvTypes
  <2>2. CASE inv'[i] = inv[i]
    BY <2>1, <2>2
  <2>3. CASE inv'[i] # inv[i]
    <3>1. inv'[i] = [inv[i] EXCEPT !.status = "expired"] /\ InvRow(i) \in held[t] /\ inv[i].status = "pending"
      BY <1>2, <2>3
    <3> QED BY <2>1, <3>1 DEF InvitationRow, InvitationStatus
  <2> QED BY <2>2, <2>3
<1>9. InvTypes'
  BY <1>2, <1>8 DEF InvTypes
<1>10. InvitationsKept(t)
  BY <1>8 DEF InvitationsKept, Rows, InvitationStatus
<1>11. InvitationsLive'
  BY <1>1, <1>4, <1>5, <1>8 DEF InvitationsLive, InvitationStatus
<1> QED BY <1>2, <1>3, <1>4, <1>5, <1>6, <1>7, <1>9, <1>10, <1>11, WriteParts

\* The insert of a first request: the unique constraint keeps one account for a subject.
LEMMA InsertUserWrites ==
    ASSUME IInv, NEW t \in Threads, InsertUser(t)
    PROVE  WriteStep(t)
<1>1. /\ AccountTypes /\ FamilyTypes /\ CreatorTypes /\ RoleTypes /\ InvTypes
      /\ OneAccountPerSubject /\ MembersLive /\ CreatorsLive /\ InvitationsLive
  BY WriteParts
<1>2. family' = family /\ creator' = creator /\ role' = role /\ inv' = inv /\ late' = late
  BY DEF InsertUser
<1>3. CASE account' = account
  BY <1>2, <1>3, ReadsWriteNothing DEF rowVars
<1>4. CASE account' # account
  <2>1. PICK u \in Users :
            /\ account[u] = "unused" /\ account' = [account EXCEPT ![u] = req[t].subject]
            /\ \A v \in Users : account[v] # req[t].subject
    BY <1>4 DEF InsertUser
  <2>2. CASE req[t].subject \in Subjects
    <3>1. AccountTypes' /\ account'[u] = req[t].subject /\ \A v \in Users : v # u => account'[v] = account[v]
      BY <1>1, <2>1, <2>2 DEF AccountTypes
    <3>2. LiveUsers \subseteq LiveUsers' /\ OneAccountPerSubject'
      BY <1>1, <2>1, <2>2, <3>1, IdentityAssumption DEF LiveUsers, OneAccountPerSubject
    <3>3. LiveFamilies' = LiveFamilies /\ FamilyTypes' /\ FamiliesKept(t)
      BY <1>1, <1>2, FamiliesSame
    <3>4. CreatorTypes' /\ CreatorsLive'
      BY <1>1, <1>2, <3>2 DEF CreatorTypes, CreatorsLive
    <3>5. RoleTypes' /\ RolesKept(t) /\ MembersLive'
      BY <1>1, <1>2, <3>2, <3>3 DEF RoleTypes, RolesKept, MembersLive
    <3>6. InvTypes' /\ InvitationsLive' /\ InvitationsKept(t)
      BY <1>1, <1>2, <3>2, <3>3 DEF InvTypes, InvitationsLive, InvitationsKept, Rows
    <3> QED BY <1>2, <3>1, <3>2, <3>3, <3>4, <3>5, <3>6, WriteParts
  <2>3. req[t].subject \in Subjects
    BY Facts DEF InsertUser, Shape
  <2> QED BY <2>2, <2>3
<1> QED BY <1>3, <1>4

-----------------------------------------------------------------------------
(* The invariant                                                           *)

LEMMA ThreadStep ==
    ASSUME IInv, NEW t \in Threads, OwnStep(t), WriteStep(t)
    PROVE  IInv'
<1>1. \A s \in Threads : Local(s)'
  <2> SUFFICES ASSUME NEW s \in Threads PROVE Local(s)'
    OBVIOUS
  <2>1. CASE s = t
    BY <2>1 DEF OwnStep
  <2>2. CASE s # t
    BY <2>2, Stable DEF OwnStep, WriteStep
  <2> QED BY <2>1, <2>2
<1> QED BY <1>1, TypeParts DEF OwnStep, WriteStep, IInv

\* A request that only reads.
LEMMA ReadOnly ==
    ASSUME IInv, NEW t \in Threads, OwnStep(t), UNCHANGED <<rowVars, late>>
    PROVE  OwnStep(t) /\ WriteStep(t)
BY ReadsWriteNothing

Serves(t) ==
    \/ \E s \in Subjects : ResolvePrincipal(t, s)
    \/ InsertUser(t)
    \/ Route(t)
    \/ \E i \in Invitations : PreviewRead(t, i)
    \/ Transact(t)

LEMMA RouteStep ==
    ASSUME IInv, NEW t \in Threads, Route(t)
    PROVE  OwnStep(t) /\ WriteStep(t)
<1>1. req[t].at = "route"
  BY DEF Route
<1>2. CASE RouteEnds(t)
  BY <1>2, RefuseStep, ReadOnly DEF RouteEnds
<1>3. ASSUME NEW f \in Families, CreateFamily(t, f) PROVE OwnStep(t) /\ WriteStep(t)
  BY <1>1, <1>3, CreateFamilyStep
<1>4. ASSUME NEW f \in Families,
             \/ RouteDeleteFamily(t, f)
             \/ \E u \in Users : RouteRemoveMember(t, f, u)
             \/ \E u \in Users, r \in Roles : RouteChangeRole(t, f, u, r)
             \/ \E r \in Roles : RouteCreateInvitation(t, f, r)
             \/ \E i \in Invitations : RouteRevokeInvitation(t, f, i)
      PROVE  OwnStep(t) /\ WriteStep(t)
  BY <1>1, <1>4, RouteFamilyStep, ReadOnly
<1>5. ASSUME \/ \E f \in Families : RouteListInvitations(t, f)
             \/ RouteDeleteAccount(t)
             \/ \E i \in Invitations : RouteAcceptInvitation(t, i)
      PROVE  OwnStep(t) /\ WriteStep(t)
  BY <1>1, <1>5, RouteOtherStep, ReadOnly
<1> QED BY <1>2, <1>3, <1>4, <1>5 DEF Route

LEMMA TransactStep ==
    ASSUME IInv, NEW t \in Threads, Transact(t)
    PROVE  OwnStep(t) /\ WriteStep(t)
<1>1. CASE LockNext(t)
  BY <1>1, LockNextStep, ReadOnly
<1>2. CASE LockedFamily(t)
  BY <1>2, LockedFamilyStep, ReadOnly
<1>3. CASE LockedOwners(t)
  BY <1>3, LockedOwnersStep, ReadOnly
<1>4. CASE ChangeMemberRole(t) \/ RemoveMember(t)
  BY <1>4, MemberStep
<1>5. CASE DeleteFamilyRequester(t)
  BY <1>5, DeleteFamilyRequesterStep, ReadOnly
<1>6. CASE DeleteFamily(t)
  BY <1>6, DeleteFamilyStep
<1>7. CASE DeleteAccountUser(t)
  BY <1>7, DeleteAccountUserStep, ReadOnly
<1>8. CASE \/ DeleteAccountFamilies(t) \/ DeleteAccountMemberships(t)
           \/ DeleteAccountOwners(t) \/ DeleteAccountCreators(t)
  BY <1>8, DeleteAccountStep, ReadOnly
<1>9. CASE DeleteAccount(t)
  BY <1>9, DeleteAccountCommit
<1>10. CASE \/ \E i \in Invitations : CreateInvitation(t, i)
            \/ RevokeInvitation(t) \/ PreviewExpire(t) \/ AcceptInvitation(t)
  BY <1>10, InvitationStep
<1>11. CASE ListInvitations(t)
  BY <1>11, ListInvitationsStep
<1>12. CASE RevokeChecks(t)
  BY <1>12, RevokeChecksStep, ReadOnly
<1>13. CASE AcceptChecks(t) \/ AcceptReference(t)
  BY <1>13, AcceptStep, ReadOnly
<1>14. CASE DeadlockAbort(t)
  <2>1. Refuse(t)
    BY <1>14 DEF DeadlockAbort
  <2> QED BY <2>1, RefuseStep, ReadOnly
<1> QED BY <1>1, <1>2, <1>3, <1>4, <1>5, <1>6, <1>7, <1>8, <1>9, <1>10, <1>11, <1>12, <1>13, <1>14
        DEF Transact

LEMMA ServesStep ==
    ASSUME IInv, NEW t \in Threads, Serves(t)
    PROVE  IInv'
<1>1. ASSUME NEW s \in Subjects, ResolvePrincipal(t, s) PROVE OwnStep(t) /\ WriteStep(t)
  <2>1. UNCHANGED <<rowVars, late>>
    BY <1>1 DEF ResolvePrincipal
  <2> QED BY <1>1, <2>1, SignInStep, ReadOnly
<1>2. ASSUME InsertUser(t) PROVE OwnStep(t) /\ WriteStep(t)
  BY <1>2, SignInStep, InsertUserWrites
<1>3. ASSUME NEW i \in Invitations, PreviewRead(t, i) PROVE OwnStep(t) /\ WriteStep(t)
  <2>1. UNCHANGED <<rowVars, late>>
    BY <1>3 DEF PreviewRead
  <2> QED BY <1>3, <2>1, PreviewReadStep, ReadOnly
<1>4. OwnStep(t) /\ WriteStep(t)
  BY <1>1, <1>2, <1>3, RouteStep, TransactStep DEF Serves
<1> QED BY <1>4, ThreadStep

\* A step that leaves rows, requests and locks alone.
LEMMA IdleStep ==
    ASSUME IInv, UNCHANGED <<rowVars, req, held, want>>, late' \subseteq Invitations
    PROVE  IInv'
<1>1. /\ account' = account /\ family' = family /\ creator' = creator
      /\ role' = role /\ inv' = inv /\ req' = req /\ held' = held /\ want' = want
  BY DEF rowVars
<1>2. TypeOK'
  BY <1>1 DEF IInv, TypeOK
<1>3. LockTypes'
  BY <1>1 DEF IInv, LockTypes
<1>4. OneAccountPerSubject' /\ ReferencesLive'
  BY <1>1 DEF IInv, OneAccountPerSubject, ReferencesLive, LiveUsers, LiveFamilies
<1>5. ASSUME NEW t \in Threads PROVE Local(t)'
  <2>1. Local(t)
    BY DEF IInv
  <2>2. Shape(t)'
    BY <1>1, <2>1 DEF Local, Shape, OneBatch
  <2>3. FamilyLocked(t)' /\ Counted(t)' /\ Settling(t)'
    BY <1>1, <2>1 DEF Local, FamilyLocked, HasFamily, Counted, Settling, Owners, Rows, LiveFamilies,
                      Asked, Pending
  <2>4. Leaving(t)'
    BY <1>1, <2>1 DEF Local, Leaving, Asked, Pending, Owners, Memberships
  <2>5. Ordered(t)'
    BY <1>1, <2>1 DEF Local, Ordered, Pending, Members, Rows
  <2> QED BY <2>2, <2>3, <2>4, <2>5 DEF Local
<1> QED BY <1>2, <1>3, <1>4, <1>5 DEF IInv

LEMMA InitIInv ==
    ASSUME Init
    PROVE  IInv
<1>1. RowTypes
  BY DEF Init, RowTypes, NoInvitation, InvitationRow
<1>2. /\ req = [t \in Threads |-> NoRequest] /\ held = [t \in Threads |-> {}]
      /\ want = [t \in Threads |-> <<>>]
  BY DEF Init, InitLocks
<1>3. TypeOK
  <2>1. ReqTypes
    BY <1>2, NoRequestType DEF ReqTypes
  <2>2. Disjoint
    BY <1>2 DEF Disjoint
  <2> QED BY <1>1, <2>1, <2>2, TypeParts
<1>4. LockTypes
  <2>1. <<>> \in Seq(SUBSET RowIds)
    OBVIOUS
  <2> QED BY <1>2, <2>1 DEF LockTypes
<1>5. OneAccountPerSubject /\ ReferencesLive
  <2>1. LiveUsers = {}
    BY IdentityAssumption DEF Init, LiveUsers
  <2>2. \A i \in Invitations : inv[i].status = "unused" /\ inv[i].createdBy = NoUser
           /\ inv[i].acceptedBy = NoUser /\ inv[i].revokedBy = NoUser
    BY DEF Init, NoInvitation
  <2>3. (\A f \in Families : creator[f] = NoUser) /\ \A f \in Families, u \in Users : role[f][u] = "none"
    BY DEF Init
  <2> QED BY <2>1, <2>2, <2>3 DEF OneAccountPerSubject, ReferencesLive, InvitationStatus
<1>6. ASSUME NEW t \in Threads PROVE Local(t)
  <2>1. req[t].at = "idle" /\ req[t].op = "none" /\ held[t] = {} /\ want[t] = <<>>
    BY <1>2 DEF NoRequest
  <2>2. Shape(t)
    BY <2>1 DEF Shape, OneBatch, FamilyOps, FamilyFirst
  <2>3. FamilyLocked(t) /\ Counted(t) /\ Settling(t) /\ Leaving(t) /\ Ordered(t)
    BY <2>1 DEF FamilyLocked, HasFamily, Counted, OwnerOps, Settling, Leaving, Ordered, FamilyFirst
  <2> QED BY <2>2, <2>3 DEF Local
<1> QED BY <1>3, <1>4, <1>5, <1>6 DEF IInv

\* Every request finds what it relies on, at each of its statements: for any number of
\* threads, users, families and invitations.
THEOREM Inductive == Spec => []IInv
<1>1. Init => IInv
  BY InitIInv
<1>2. IInv /\ [Next]_vars => IInv'
  <2> SUFFICES ASSUME IInv, [Next]_vars PROVE IInv'
    OBVIOUS
  <2>1. CASE UNCHANGED vars
    <3>1. UNCHANGED <<rowVars, req, held, want>> /\ late' = late
      BY <2>1 DEF vars, rowVars
    <3>2. late \subseteq Invitations
      BY DEF IInv, TypeOK
    <3> QED BY <3>1, <3>2, IdleStep
  <2>2. ASSUME NEW t \in Threads, Serves(t) PROVE IInv'
    BY <2>2, ServesStep
  <2>3. ASSUME NEW i \in Invitations, Expire(i) PROVE IInv'
    <3>1. UNCHANGED <<rowVars, req, held, want>> /\ late' = late \cup {i}
      BY <2>3 DEF Expire
    <3>2. late \subseteq Invitations
      BY DEF IInv, TypeOK
    <3> QED BY <3>1, <3>2, IdleStep
  <2> QED BY <2>1, <2>2, <2>3 DEF Next, Serves
<1> QED BY <1>1, <1>2, PTL DEF Spec

-----------------------------------------------------------------------------
(* No circle among requests that lock the family first                     *)

\* A request that locks its family first waits for no family once it has locks, and for
\* an account only with nothing but its family and its invitation.
LEMMA FamilyFirstWaits ==
    ASSUME IInv, NEW t \in Threads, req[t].op \in FamilyFirst, want[t] # <<>>, held[t] # {}
    PROVE  LET r == req[t]
               f == req[t].family
           IN  /\ FamilyRow(f) \in held[t]
               /\ \/ /\ Pending(t) \subseteq Members(f) \cup {InvRow(i) : i \in Rows(f)}
                     /\ held[t] \subseteq {FamilyRow(f)} \cup Members(f) \cup {InvRow(i) : i \in Rows(f)}
                  \/ /\ Pending(t) \subseteq {UserRow(r.user)}
                     /\ held[t] \subseteq {FamilyRow(f), InvRow(r.inv)}
                  \/ Pending(t) \subseteq {InvRow(r.inv)} /\ held[t] \subseteq {FamilyRow(f)}
<1>1. Shape(t) /\ FamilyLocked(t) /\ Ordered(t) /\ req[t] \in Request
  BY Facts
<1>2. req[t].at \in {"requester", "owners", "reference", "commit"}
  BY <1>1 DEF Shape, Ordered, FamilyFirst, Request, Stages
<1>3. FamilyRow(req[t].family) \in held[t]
  BY <1>1, <1>2 DEF FamilyLocked, HasFamily, FamilyOps
<1>4. req[t].at = "reference" => req[t].op = "revoke_invitation"
  BY <1>1 DEF Shape, FamilyFirst
<1> QED BY <1>1, <1>2, <1>3, <1>4 DEF Ordered, FamilyFirst

LEMMA NoCircle ==
    ASSUME IInv
    PROVE  FamilyFirstNeverDeadlocks
<1> SUFFICES ASSUME NEW s \in Threads, NEW t \in Threads, s # t, InCycle(s, t),
                    req[s].op \in FamilyFirst, req[t].op \in FamilyFirst
             PROVE  FALSE
  BY DEF FamilyFirstNeverDeadlocks
<1>1. Disjoint /\ LockTypes
  BY Facts
<1>2. ASSUME NEW a \in Threads, NextRows(a) # {}
      PROVE  want[a] # <<>> /\ NextRows(a) \subseteq Pending(a)
  <2>1. want[a] # <<>> /\ want[a] \in Seq(SUBSET RowIds)
    BY <1>1, <1>2 DEF NextRows, LockTypes
  <2>2. 1 \in DOMAIN want[a] /\ Head(want[a]) = want[a][1]
    BY <2>1
  <2> QED BY <2>1, <2>2 DEF NextRows, Pending
<1>3. PICK x : x \in Pending(s) /\ x \in held[t]
  BY <1>2 DEF InCycle, Waits, Stuck
<1>4. PICK y : y \in Pending(t) /\ y \in held[s]
  BY <1>2 DEF InCycle, Waits, Stuck
<1>5. want[s] # <<>> /\ want[t] # <<>> /\ held[s] # {} /\ held[t] # {}
  BY <1>2, <1>3, <1>4 DEF InCycle, Stuck
<1> DEFINE f == req[s].family
           g == req[t].family
           i == req[s].inv
           j == req[t].inv
           Invs(h) == {InvRow(k) : k \in Rows(h)}
<1>6. /\ FamilyRow(f) \in held[s]
      /\ \/ /\ Pending(s) \subseteq Members(f) \cup Invs(f)
            /\ held[s] \subseteq {FamilyRow(f)} \cup Members(f) \cup Invs(f)
         \/ Pending(s) \subseteq {UserRow(req[s].user)} /\ held[s] \subseteq {FamilyRow(f), InvRow(i)}
         \/ Pending(s) \subseteq {InvRow(i)} /\ held[s] \subseteq {FamilyRow(f)}
  BY <1>5, FamilyFirstWaits
<1>7. /\ FamilyRow(g) \in held[t]
      /\ \/ /\ Pending(t) \subseteq Members(g) \cup Invs(g)
            /\ held[t] \subseteq {FamilyRow(g)} \cup Members(g) \cup Invs(g)
         \/ Pending(t) \subseteq {UserRow(req[t].user)} /\ held[t] \subseteq {FamilyRow(g), InvRow(j)}
         \/ Pending(t) \subseteq {InvRow(j)} /\ held[t] \subseteq {FamilyRow(g)}
  BY <1>5, FamilyFirstWaits
<1>8. f # g
  BY <1>1, <1>6, <1>7 DEF Disjoint
<1>9. /\ \A a : a \in Members(f) => a \notin Members(g)
      /\ \A a : a \in Invs(f) => a \notin Invs(g)
  BY <1>8, RowsDiffer DEF Members, Rows
<1>10. \A h, a : a \in Members(h) => /\ \A k : a # FamilyRow(k) /\ a # InvRow(k) /\ a # UserRow(k)
                                     /\ \A k : a \notin Invs(k)
  BY RowsDiffer DEF Members
<1>11. \A h, a : a \in Invs(h) => \A k : a # FamilyRow(k) /\ a # UserRow(k)
  BY RowsDiffer
<1> HIDE DEF Invs
<1> QED BY <1>3, <1>4, <1>6, <1>7, <1>9, <1>10, <1>11, RowsDiffer

\* Two first requests leave one account, no row refers to a deleted account or family,
\* and requests that lock the family first never wait for each other in a circle.
THEOREM IdentityInvCorrect == Spec => []IdentityInv
<1>1. IInv => IdentityInv
  BY NoCircle DEF IInv, IdentityInv
<1> QED BY <1>1, Inductive, PTL

-----------------------------------------------------------------------------
(* What no request does                                                    *)

\* The steps that change a role, the end of a family, or the status of an invitation.
Writer(t) ==
    \/ req[t].at = "route" /\ \E f \in Families : CreateFamily(t, f)
    \/ ChangeMemberRole(t) \/ RemoveMember(t)
    \/ DeleteFamily(t) \/ DeleteAccount(t)
    \/ \E i \in Invitations : CreateInvitation(t, i)
    \/ ListInvitations(t) \/ RevokeInvitation(t) \/ PreviewExpire(t) \/ AcceptInvitation(t)

LEMMA OnlyWriters ==
    ASSUME IInv, [Next]_vars
    PROVE  UNCHANGED <<family, role, inv>> \/ \E t \in Threads : Writer(t)
<1>1. CASE UNCHANGED vars
  BY <1>1 DEF vars
<1>2. ASSUME NEW i \in Invitations, Expire(i) PROVE UNCHANGED <<family, role, inv>>
  BY <1>2 DEF Expire, rowVars
<1>3. ASSUME NEW t \in Threads, Serves(t), ~ Writer(t) PROVE UNCHANGED <<family, role, inv>>
  <2>1. ASSUME NEW s \in Subjects, ResolvePrincipal(t, s) PROVE UNCHANGED <<family, role, inv>>
    BY <2>1 DEF ResolvePrincipal, rowVars
  <2>2. CASE InsertUser(t)
    BY <2>2 DEF InsertUser
  <2>3. ASSUME NEW i \in Invitations, PreviewRead(t, i) PROVE UNCHANGED <<family, role, inv>>
    BY <2>3 DEF PreviewRead, rowVars
  <2>4. CASE Route(t)
    <3>1. req[t].at = "route"
      BY <2>4 DEF Route
    <3>2. CASE RouteEnds(t)
      BY <3>2, RefuseStep DEF RouteEnds, rowVars
    <3>3. ASSUME NEW f \in Families,
                 \/ RouteDeleteFamily(t, f)
                 \/ \E u \in Users : RouteRemoveMember(t, f, u)
                 \/ \E u \in Users, r \in Roles : RouteChangeRole(t, f, u, r)
                 \/ \E r \in Roles : RouteCreateInvitation(t, f, r)
                 \/ \E i \in Invitations : RouteRevokeInvitation(t, f, i)
          PROVE  UNCHANGED <<family, role, inv>>
      BY <3>1, <3>3, RouteFamilyStep DEF rowVars
    <3>4. ASSUME \/ \E f \in Families : RouteListInvitations(t, f)
                 \/ RouteDeleteAccount(t)
                 \/ \E i \in Invitations : RouteAcceptInvitation(t, i)
          PROVE  UNCHANGED <<family, role, inv>>
      BY <3>1, <3>4, RouteOtherStep DEF rowVars
    <3> QED BY <1>3, <2>4, <3>1, <3>2, <3>3, <3>4 DEF Route, Writer
  <2>5. CASE Transact(t)
    <3>1. CASE LockNext(t)
      BY <3>1, LockNextStep DEF rowVars
    <3>2. CASE LockedFamily(t)
      BY <3>2, LockedFamilyStep DEF rowVars
    <3>3. CASE LockedOwners(t)
      BY <3>3, LockedOwnersStep DEF rowVars
    <3>4. CASE DeleteFamilyRequester(t)
      BY <3>4, DeleteFamilyRequesterStep DEF rowVars
    <3>5. CASE DeleteAccountUser(t)
      BY <3>5, DeleteAccountUserStep DEF rowVars
    <3>6. CASE \/ DeleteAccountFamilies(t) \/ DeleteAccountMemberships(t)
               \/ DeleteAccountOwners(t) \/ DeleteAccountCreators(t)
      BY <3>6, DeleteAccountStep DEF rowVars
    <3>7. CASE RevokeChecks(t)
      BY <3>7, RevokeChecksStep DEF rowVars
    <3>8. CASE AcceptChecks(t) \/ AcceptReference(t)
      BY <3>8, AcceptStep DEF rowVars
    <3>9. CASE DeadlockAbort(t)
      BY <3>9 DEF DeadlockAbort, Refuse, rowVars
    <3> QED BY <1>3, <2>5, <3>1, <3>2, <3>3, <3>4, <3>5, <3>6, <3>7, <3>8, <3>9 DEF Transact, Writer
  <2> QED BY <1>3, <2>1, <2>2, <2>3, <2>4, <2>5 DEF Serves
<1> QED BY <1>1, <1>2, <1>3 DEF Next, Serves

\* A set with more than one member is not empty without one of them.
LEMMA TwoOwners ==
    ASSUME NEW f \in Families, NEW u, Owners(f) \subseteq {u}
    PROVE  ~ (Cardinality(Owners(f)) > 1)
<1>1. Cardinality({u}) = 1 /\ IsFiniteSet({u})
  BY FS_Singleton
<1>2. Cardinality(Owners(f)) <= 1 /\ Cardinality(Owners(f)) \in Nat
  <2>1. Cardinality(Owners(f)) <= Cardinality({u})
    BY <1>1, FS_Subset
  <2>2. Cardinality(Owners(f)) \in 0..Cardinality(Users) /\ Cardinality(Users) \in Nat
    BY OwnerCount, IdentityAssumption, FS_CardinalityType
  <2> QED BY <1>1, <2>1, <2>2
<1> QED BY <1>2

\* The last owner of a family that stays: what each writer does to it.
LEMMA OwnersStep ==
    ASSUME IInv, NEW t \in Threads, Writer(t), NEW f \in Families, family[f] = "live",
           Owners(f) # {}, Owners(f)' = {}, family'[f] = "live"
    PROVE  DeleteAccount(t) /\ StaleRead(t, f)
<1> DEFINE r == req[t]
<1>1. /\ RowTypes /\ Shape(t) /\ FamilyLocked(t) /\ Counted(t) /\ Leaving(t) /\ Settling(t) /\ req[t] \in Request
  BY Facts
<1>2. /\ RoleTypes /\ FamilyTypes
  BY WriteParts
<1>3. PICK w \in Users : role[f][w] = "owner"
  BY DEF Owners
<1>4. role'[f][w] # "owner"
  BY <1>3 DEF Owners
<1>5. ASSUME NEW g \in Families, CreateFamily(t, g) PROVE FALSE
  <2>1. role' = role \/ (family[g] = "unused" /\ role' = [role EXCEPT ![g][r.user] = "owner"])
    BY <1>5 DEF CreateFamily, Refuse, rowVars
  <2> QED BY <1>2, <1>3, <1>4, <2>1 DEF RoleTypes
<1>6. ASSUME ChangeMemberRole(t) \/ RemoveMember(t) PROVE FALSE
  <2>1. Runs(t, "commit") /\ r.op \in {"change_member_role", "remove_member"}
    BY <1>6 DEF ChangeMemberRole, RemoveMember
  <2>2. /\ r.at = "commit" /\ r.target \in Users /\ r.family \in Families
        /\ r.owners = Cardinality(Owners(r.family))
    BY <1>1, <2>1, GrantedHolds DEF Shape, FamilyOps, FamilyFirst, Counted, OwnerOps
  <2>3. role' # role
    BY <1>3, <1>4
  <2>4. PICK x \in {r.role, "none"} :
            /\ role' = [role EXCEPT ![r.family][r.target] = x]
            /\ ~ (role[r.family][r.target] = "owner" /\ x # "owner" /\ r.owners <= 1)
    <3>1. CASE ChangeMemberRole(t)
      BY <2>3, <3>1 DEF ChangeMemberRole, Refuse, rowVars
    <3>2. CASE RemoveMember(t)
      BY <2>3, <3>2 DEF RemoveMember, Refuse, rowVars
    <3> QED BY <1>6, <3>1, <3>2
  <2>5. /\ role'[r.family] = [role[r.family] EXCEPT ![r.target] = x]
        /\ \A g \in Families : g # r.family => role'[g] = role[g]
    BY <1>2, <2>2, <2>4 DEF RoleTypes
  <2>6. f = r.family
    BY <1>3, <1>4, <2>5
  <2>7. /\ role'[f][r.target] = x
        /\ \A v \in Users : v # r.target => role'[f][v] = role[f][v]
    BY <1>2, <2>2, <2>5, <2>6 DEF RoleTypes
  <2>8. w = r.target /\ x # "owner" /\ Owners(f) \subseteq {w}
    <3>1. \A v \in Users : role'[f][v] # "owner"
      BY DEF Owners
    <3> QED BY <1>3, <2>2, <2>7, <3>1 DEF Owners
  <2>9. ~ (Cardinality(Owners(f)) > 1)
    BY <2>8, TwoOwners
  <2>10. Cardinality(Owners(f)) \in Nat
    <3>1. Cardinality(Owners(f)) \in 0..Cardinality(Users) /\ Cardinality(Users) \in Nat
      BY OwnerCount, IdentityAssumption, FS_CardinalityType
    <3> QED BY <3>1
  <2> QED BY <1>3, <2>2, <2>4, <2>6, <2>8, <2>9, <2>10
<1>7. ASSUME DeleteFamily(t) PROVE FALSE
  <2>1. /\ family' = [family EXCEPT ![r.family] = "deleted"]
        /\ role' = [role EXCEPT ![r.family] = [u \in Users |-> "none"]]
    BY <1>7 DEF DeleteFamily
  <2>2. f # r.family
    BY <1>2, <2>1 DEF FamilyTypes
  <2> QED BY <1>2, <1>3, <1>4, <2>1, <2>2 DEF RoleTypes
<1>8. ASSUME DeleteAccount(t) PROVE StaleRead(t, f)
  <2>1. Runs(t, "commit") /\ r.op = "delete_account"
    BY <1>8 DEF DeleteAccount
  <2>2. /\ r.user \in Users /\ r.at = "commit"
        /\ r.seen[f] = "owner" => Cardinality(Owners(f)) > 1
    BY <1>1, <2>1, GrantedHolds DEF Shape, Leaving
  <2>3. role' = [g \in Families |-> [role[g] EXCEPT ![r.user] = "none"]]
    BY <1>8 DEF DeleteAccount
  <2>4. role'[f] = [role[f] EXCEPT ![r.user] = "none"] /\ role[f] \in [Users -> Roles \cup {"none"}]
    BY <1>2, <2>3 DEF RoleTypes
  <2>5. \A v \in Users : v # r.user => role'[f][v] = role[f][v]
    BY <2>4
  <2>6. Owners(f) \subseteq {r.user} /\ w = r.user
    <3>1. \A v \in Users : role'[f][v] # "owner"
      BY DEF Owners
    <3> QED BY <1>3, <2>5, <3>1 DEF Owners
  <2>7. r.seen[f] # "owner"
    BY <2>2, <2>6, TwoOwners
  <2> QED BY <1>3, <2>1, <2>6, <2>7 DEF StaleRead
<1>9. ASSUME \/ \E i \in Invitations : CreateInvitation(t, i)
             \/ ListInvitations(t) \/ RevokeInvitation(t) \/ PreviewExpire(t)
      PROVE  FALSE
  <2>1. role' = role
    BY <1>9 DEF CreateInvitation, ListInvitations, RevokeInvitation, PreviewExpire, Refuse, rowVars
  <2> QED BY <1>3, <1>4, <2>1
<1>10. ASSUME AcceptInvitation(t) PROVE FALSE
  <2>1. \/ role' = role
        \/ /\ role[r.family][r.user] = "none"
           /\ role' = [role EXCEPT ![r.family][r.user] = inv[r.inv].role]
    BY <1>10 DEF AcceptInvitation, Refuse, rowVars
  <2>2. CASE role[r.family][r.user] = "none" /\ role' = [role EXCEPT ![r.family][r.user] = inv[r.inv].role]
    <3>1. \A g \in Families, v \in Users : g # r.family \/ v # r.user => role'[g][v] = role[g][v]
      <4> SUFFICES ASSUME NEW g \in Families, NEW v \in Users, g # r.family \/ v # r.user
                   PROVE  role'[g][v] = role[g][v]
        OBVIOUS
      <4>1. CASE g # r.family
        BY <1>2, <2>2, <4>1 DEF RoleTypes
      <4>2. CASE g = r.family
        <5>1. role'[g] = [role[g] EXCEPT ![r.user] = inv[r.inv].role] /\ role[g] \in [Users -> Roles \cup {"none"}]
          BY <1>2, <2>2, <4>2 DEF RoleTypes
        <5> QED BY <4>2, <5>1
      <4> QED BY <4>1, <4>2
    <3> QED BY <1>3, <1>4, <2>2, <3>1
  <2> QED BY <1>3, <1>4, <2>1, <2>2
<1> QED BY <1>5, <1>6, <1>7, <1>8, <1>9, <1>10 DEF Writer

\* A family ends by the request of its only owner.
LEMMA FamilyEndStep ==
    ASSUME IInv, NEW t \in Threads, Writer(t), NEW f \in Families, family[f] = "live", family'[f] # "live"
    PROVE  req[t].op = "delete_family" /\ Owners(f) = {req[t].user}
<1>1. Shape(t) /\ Counted(t) /\ FamilyTypes
  BY Facts, WriteParts
<1>2. CASE DeleteFamily(t)
  <2>1. /\ Runs(t, "commit") /\ req[t].op = "delete_family"
        /\ family' = [family EXCEPT ![req[t].family] = "deleted"]
    BY <1>2 DEF DeleteFamily
  <2>2. f = req[t].family
    BY <1>1, <2>1 DEF FamilyTypes
  <2>3. /\ Cardinality(Owners(f)) = 1 /\ role[f][req[t].user] = "owner" /\ req[t].user \in Users
    BY <1>1, <2>1, <2>2, GrantedHolds DEF Counted, OwnerOps, Shape
  <2>4. \A u \in Users : role[f][u] = "owner" => u = req[t].user
    <3>1. PICK a : Owners(f) = {a}
      BY <2>3, OwnerCount, FS_Singleton
    <3>2. req[t].user \in Owners(f)
      BY <2>3 DEF Owners
    <3> QED BY <3>1, <3>2 DEF Owners
  <2> QED BY <2>1, <2>3, <2>4 DEF Owners
<1>3. CASE ~ DeleteFamily(t)
  <2>1. family' = family \/ \E g \in Families : family[g] = "unused" /\ family' = [family EXCEPT ![g] = "live"]
    BY <1>3 DEF Writer, CreateFamily, ChangeMemberRole, RemoveMember, DeleteAccount, CreateInvitation,
               ListInvitations, RevokeInvitation, PreviewExpire, AcceptInvitation, Refuse, rowVars
  <2> QED BY <1>1, <2>1 DEF FamilyTypes
<1> QED BY <1>2, <1>3

\* No request takes a family's last owner, but an account deletion that decided on a
\* role it read before it locked the family; and a family is deleted by a request of its
\* only owner (change_member_role, remove_member, delete_account, delete_family).
THEOREM OwnersAreKeptCorrect == Spec => OwnersAreKept
<1> DEFINE Keeps == \A f \in LiveFamilies :
                       Owners(f) # {} /\ Owners(f)' = {} /\ family'[f] = "live"
                         => \E t \in Threads : DeleteAccount(t) /\ StaleRead(t, f)
           Ends == \A f \in LiveFamilies :
                       family'[f] # "live"
                         => \E t \in Threads : req[t].op = "delete_family" /\ Owners(f) = {req[t].user}
<1>1. IInv /\ [Next]_vars => Keeps
  <2> SUFFICES ASSUME IInv, [Next]_vars, NEW f \in Families, family[f] = "live",
                      Owners(f) # {}, Owners(f)' = {}, family'[f] = "live"
               PROVE  \E t \in Threads : DeleteAccount(t) /\ StaleRead(t, f)
    BY DEF LiveFamilies
  <2>1. CASE UNCHANGED <<family, role, inv>>
    BY <2>1 DEF Owners
  <2>2. ASSUME NEW t \in Threads, Writer(t) PROVE \E s \in Threads : DeleteAccount(s) /\ StaleRead(s, f)
    BY <2>2, OwnersStep
  <2> QED BY <2>1, <2>2, OnlyWriters
<1>2. IInv /\ [Next]_vars => Ends
  <2> SUFFICES ASSUME IInv, [Next]_vars, NEW f \in Families, family[f] = "live", family'[f] # "live"
               PROVE  \E t \in Threads : req[t].op = "delete_family" /\ Owners(f) = {req[t].user}
    BY DEF LiveFamilies
  <2>1. ~ UNCHANGED <<family, role, inv>>
    OBVIOUS
  <2>2. PICK t \in Threads : Writer(t)
    BY <2>1, OnlyWriters
  <2> QED BY <2>2, FamilyEndStep
<1>3. Spec => [][Keeps]_vars
  BY <1>1, Inductive, PTL DEF Spec
<1>4. Spec => [][Ends]_vars
  BY <1>2, Inductive, PTL DEF Spec
<1> QED BY <1>3, <1>4 DEF OwnersAreKept, LastOwnerKept, DeletedBySoleOwner

\* Someone joins a family that exists.
LEMMA JoinStep ==
    ASSUME IInv, NEW t \in Threads, Writer(t), NEW f \in Families, NEW u \in Users, family[f] = "live",
           role[f][u] = "none", role'[f][u] # "none"
    PROVE  \E i \in Rows(f) : /\ inv[i].status = "pending" /\ inv[i].role = role'[f][u]
                              /\ inv'[i].status = "accepted" /\ inv'[i].acceptedBy = u
<1> DEFINE r == req[t]
<1>1. Shape(t) /\ FamilyLocked(t) /\ Settling(t) /\ RoleTypes /\ InvTypes
  BY Facts, WriteParts
<1>2. CASE AcceptInvitation(t)
  <2>1. Runs(t, "commit") /\ r.op = "accept_invitation"
    BY <1>2 DEF AcceptInvitation
  <2>2. /\ r.family \in LiveFamilies /\ r.inv \in Invitations /\ r.user \in Users
        /\ inv[r.inv].status = "pending" /\ inv[r.inv].family = r.family
    BY <1>1, <2>1, GrantedHolds DEF Shape, FamilyLocked, HasFamily, FamilyOps, Settling
  <2>3. role' # role
    OBVIOUS
  <2>4. /\ inv' = [inv EXCEPT ![r.inv] = [@ EXCEPT !.status = "accepted", !.acceptedBy = r.user]]
        /\ role' = [role EXCEPT ![r.family][r.user] = inv[r.inv].role]
    BY <1>2, <2>3 DEF AcceptInvitation, Refuse, rowVars
  <2>5. r.family \in Families /\ inv[r.inv] \in InvitationRow
    BY <1>1, <2>2 DEF LiveFamilies, InvTypes
  <2>6. /\ role'[r.family] = [role[r.family] EXCEPT ![r.user] = inv[r.inv].role]
        /\ \A g \in Families : g # r.family => role'[g] = role[g]
        /\ \A g \in Families : role[g] \in [Users -> Roles \cup {"none"}]
    BY <1>1, <2>4, <2>5 DEF RoleTypes
  <2>7. f = r.family
    BY <2>6
  <2>8. u = r.user /\ role'[f][u] = inv[r.inv].role
    BY <2>2, <2>6, <2>7
  <2>9. inv'[r.inv] = [inv[r.inv] EXCEPT !.status = "accepted", !.acceptedBy = r.user]
    BY <1>1, <2>2, <2>4 DEF InvTypes
  <2>10. inv'[r.inv].status = "accepted" /\ inv'[r.inv].acceptedBy = r.user
    BY <2>5, <2>9 DEF InvitationRow
  <2>11. r.inv \in Rows(f)
    BY <2>2, <2>7 DEF Rows, InvitationStatus
  <2> QED BY <2>2, <2>8, <2>10, <2>11
<1>3. CASE ChangeMemberRole(t) \/ RemoveMember(t)
  <2>1. role' # role
    OBVIOUS
  <2>2. PICK x : role' = [role EXCEPT ![r.family][r.target] = x] /\ role[r.family][r.target] # "none"
    <3>1. CASE ChangeMemberRole(t)
      BY <2>1, <3>1 DEF ChangeMemberRole, Refuse, rowVars
    <3>2. CASE RemoveMember(t)
      BY <2>1, <3>2 DEF RemoveMember, Refuse, rowVars
    <3> QED BY <1>3, <3>1, <3>2
  <2>3. CASE f # r.family
    BY <1>1, <2>2, <2>3 DEF RoleTypes
  <2>4. CASE f = r.family
    <3>1. role'[f] = [role[f] EXCEPT ![r.target] = x] /\ role[f] \in [Users -> Roles \cup {"none"}]
      BY <1>1, <2>2, <2>4 DEF RoleTypes
    <3>2. u # r.target
      BY <2>2, <2>4
    <3> QED BY <3>1, <3>2
  <2> QED BY <2>3, <2>4
<1>4. ASSUME NEW g \in Families, CreateFamily(t, g) PROVE FALSE
  <2>1. role' # role
    OBVIOUS
  <2>2. family[g] = "unused" /\ role' = [role EXCEPT ![g][r.user] = "owner"]
    BY <1>4, <2>1 DEF CreateFamily, Refuse, rowVars
  <2> QED BY <1>1, <2>2 DEF RoleTypes
<1>5. CASE DeleteFamily(t)
  <2>1. role' = [role EXCEPT ![r.family] = [v \in Users |-> "none"]]
    BY <1>5 DEF DeleteFamily
  <2>2. CASE f = r.family
    BY <1>1, <2>1, <2>2 DEF RoleTypes
  <2>3. CASE f # r.family
    BY <1>1, <2>1, <2>3 DEF RoleTypes
  <2> QED BY <2>2, <2>3
<1>6. CASE DeleteAccount(t)
  <2>1. role' = [g \in Families |-> [role[g] EXCEPT ![r.user] = "none"]]
    BY <1>6 DEF DeleteAccount
  <2>2. role'[f] = [role[f] EXCEPT ![r.user] = "none"] /\ role[f] \in [Users -> Roles \cup {"none"}]
    BY <1>1, <2>1 DEF RoleTypes
  <2> QED BY <2>2
<1>7. ASSUME \/ \E i \in Invitations : CreateInvitation(t, i)
             \/ ListInvitations(t) \/ RevokeInvitation(t) \/ PreviewExpire(t)
      PROVE  FALSE
  <2>1. role' = role
    BY <1>7 DEF CreateInvitation, ListInvitations, RevokeInvitation, PreviewExpire, Refuse, rowVars
  <2> QED BY <2>1
<1> QED BY <1>2, <1>3, <1>4, <1>5, <1>6, <1>7 DEF Writer

\* An accepted invitation changes.
LEMMA AcceptedStep ==
    ASSUME IInv, NEW t \in Threads, Writer(t), NEW i \in Invitations,
           inv[i].status = "accepted", inv'[i].status \notin {"accepted", "deleted"}
    PROVE  PreviewExpire(t) /\ req[t].inv = i
<1> DEFINE r == req[t]
<1>1. Shape(t) /\ FamilyLocked(t) /\ Settling(t) /\ InvTypes
  BY Facts, WriteParts
<1>2. inv' # inv
  OBVIOUS
<1>3. CASE PreviewExpire(t)
  <2>1. inv' = [inv EXCEPT ![r.inv].status = "expired"]
    BY <1>2, <1>3 DEF PreviewExpire, Refuse, rowVars
  <2>2. r.inv # i => inv'[i] = inv[i]
    BY <1>1, <2>1 DEF InvTypes
  <2> QED BY <1>3, <2>2
<1>4. ASSUME NEW j \in Invitations, CreateInvitation(t, j) PROVE FALSE
  <2>1. inv[j].status = "unused" /\ \A k \in Invitations : k # j => inv'[k] = inv[k]
    BY <1>1, <1>2, <1>4 DEF CreateInvitation, Refuse, rowVars, InvTypes
  <2> QED BY <2>1
<1>5. CASE ListInvitations(t)
  <2>1. inv'[i] = inv[i]
    BY <1>5 DEF ListInvitations
  <2> QED BY <2>1
<1>6. CASE RevokeInvitation(t)
  <2>1. Runs(t, "commit") /\ r.op = "revoke_invitation"
    BY <1>6 DEF RevokeInvitation
  <2>2. inv[r.inv].status \in {"pending", "expired"}
    BY <1>1, <2>1, GrantedHolds DEF Settling
  <2>3. r.inv # i => inv'[i] = inv[i]
    BY <1>1, <1>2, <1>6 DEF RevokeInvitation, Refuse, rowVars, InvTypes
  <2> QED BY <2>2, <2>3
<1>7. CASE AcceptInvitation(t)
  <2>1. Runs(t, "commit") /\ r.op = "accept_invitation"
    BY <1>7 DEF AcceptInvitation
  <2>2. inv[r.inv].status = "pending"
    BY <1>1, <2>1, GrantedHolds DEF Settling, FamilyLocked, HasFamily, FamilyOps
  <2>3. r.inv # i => inv'[i] = inv[i]
    BY <1>1, <1>2, <1>7 DEF AcceptInvitation, Refuse, rowVars, InvTypes
  <2> QED BY <2>2, <2>3
<1>8. CASE DeleteFamily(t)
  <2>1. inv'[i] = inv[i] \/ inv'[i] = [NoInvitation EXCEPT !.status = "deleted"]
    BY <1>8 DEF DeleteFamily
  <2>2. [NoInvitation EXCEPT !.status = "deleted"].status = "deleted"
    BY DEF NoInvitation
  <2> QED BY <2>1, <2>2
<1>9. CASE DeleteAccount(t)
  <2>1. inv'[i] = [inv[i] EXCEPT !.createdBy = Forget(r.user, @), !.acceptedBy = Forget(r.user, @),
                                 !.revokedBy = Forget(r.user, @)]
    BY <1>9 DEF DeleteAccount
  <2>2. inv[i] \in InvitationRow
    BY <1>1 DEF InvTypes
  <2>3. inv'[i].status = inv[i].status
    BY <2>1, <2>2 DEF InvitationRow
  <2> QED BY <2>3
<1>10. ASSUME ChangeMemberRole(t) \/ RemoveMember(t) \/ \E f \in Families : CreateFamily(t, f)
       PROVE  FALSE
  <2>1. inv' = inv
    BY <1>10 DEF ChangeMemberRole, RemoveMember, CreateFamily, Refuse, rowVars
  <2> QED BY <1>2, <2>1
<1> QED BY <1>3, <1>4, <1>5, <1>6, <1>7, <1>8, <1>9, <1>10 DEF Writer

\* No invitation admits two people, none admits anyone once it is revoked, and nothing
\* but a preview that read it pending takes an acceptance back (accept_invitation,
\* revoke_invitation, get_invitation_preview).
THEOREM InvitationsAdmitOnceCorrect == Spec => InvitationsAdmitOnce
<1> DEFINE Admits == \A f \in LiveFamilies, u \in Users :
                        role[f][u] = "none" /\ role'[f][u] # "none"
                          => \E i \in Rows(f) : /\ inv[i].status = "pending" /\ inv[i].role = role'[f][u]
                                                /\ inv'[i].status = "accepted" /\ inv'[i].acceptedBy = u
           Final == \A i \in Invitations :
                        inv[i].status = "accepted" /\ inv'[i].status \notin {"accepted", "deleted"}
                          => \E t \in Threads : PreviewExpire(t) /\ req[t].inv = i
<1>1. IInv /\ [Next]_vars => Admits
  <2> SUFFICES ASSUME IInv, [Next]_vars, NEW f \in Families, family[f] = "live", NEW u \in Users,
                      role[f][u] = "none", role'[f][u] # "none"
               PROVE  \E i \in Rows(f) : /\ inv[i].status = "pending" /\ inv[i].role = role'[f][u]
                                         /\ inv'[i].status = "accepted" /\ inv'[i].acceptedBy = u
    BY DEF LiveFamilies
  <2>1. ~ UNCHANGED <<family, role, inv>>
    OBVIOUS
  <2>2. PICK t \in Threads : Writer(t)
    BY <2>1, OnlyWriters
  <2> QED BY <2>2, JoinStep
<1>2. IInv /\ [Next]_vars => Final
  <2> SUFFICES ASSUME IInv, [Next]_vars, NEW i \in Invitations,
                      inv[i].status = "accepted", inv'[i].status \notin {"accepted", "deleted"}
               PROVE  \E t \in Threads : PreviewExpire(t) /\ req[t].inv = i
    OBVIOUS
  <2>1. ~ UNCHANGED <<family, role, inv>>
    OBVIOUS
  <2>2. PICK t \in Threads : Writer(t)
    BY <2>1, OnlyWriters
  <2> QED BY <2>2, AcceptedStep
<1>3. Spec => [][Admits]_vars
  BY <1>1, Inductive, PTL DEF Spec
<1>4. Spec => [][Final]_vars
  BY <1>2, Inductive, PTL DEF Spec
<1> QED BY <1>3, <1>4 DEF InvitationsAdmitOnce, JoinsByInvitation, AcceptedIsFinal

=============================================================================
