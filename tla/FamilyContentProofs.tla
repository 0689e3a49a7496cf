------------------------ MODULE FamilyContentProofs -------------------------
(***************************************************************************)
(* A family's content is correct for any number of requests at once, and   *)
(* any quotas.  Local says what a request may rely on at each of its       *)
(* statements because of the rows it has locked: the counts of a quota     *)
(* still hold when it writes, the sources of a book are still there.       *)
(* Apart says that two requests never ask for the same recording or book   *)
(* as parts of two families, or of two accounts; which circles of waits    *)
(* there are follows from both.                                            *)
(***************************************************************************)
EXTENDS FamilyContent, Sums

-----------------------------------------------------------------------------
(* Rows and locks                                                          *)

\* The rows a family's content consists of.
ContentIds == {RecLock(r) : r \in Recs} \cup {BookLock(b) : b \in Books}

RowIds == {UserLock(u) : u \in Users} \cup {FamilyLock(f) : f \in Families} \cup ContentIds

\* The rows a thread waits for, and those together with the ones it has.
Pending(t) == UNION {want[t][n] : n \in DOMAIN want[t]}
Asked(t)   == held[t] \cup Pending(t)

OneBatch(t) ==
    want[t] # <<>> =>
        \E rows \in SUBSET RowIds : want[t] = <<rows>> /\ rows # {} /\ rows \cap held[t] = {}

LockTypes ==
    /\ held \in [Threads -> SUBSET RowIds]
    /\ want \in [Threads -> Seq(SUBSET RowIds)]

\* No row is held by two transactions.
Disjoint == \A s, t \in Threads : s # t => held[s] \cap held[t] = {}

-----------------------------------------------------------------------------
(* What a request knows where it stands                                    *)

Ops    == {"none", "create_recording", "create_book", "delete_recording", "delete_book",
           "delete_family", "delete_account"}
Stages == {"idle", "user", "family", "publish", "sources", "insert", "commit", "recordings",
           "books", "families"}

RequestRow ==
    [op : Ops, at : Stages, user : Users \cup {NoUser}, family : 0..NumFamilies,
     on : Recs \cup Books \cup {"none"}, book : Books \cup {NoBook}, dur : 0..MaxDuration,
     sources : SUBSET Recs]

ReqTypes == req \in [Threads -> RequestRow]

Idle(t) ==
    req[t].at = "idle" => req[t] = NoRequest /\ held[t] = {} /\ want[t] = <<>>

\* An upload has the account's row and then the family's; once it has passed the quotas
\* they hold until it publishes.
Uploading(t) ==
    LET q == req[t]
    IN  q.op = "create_recording" =>
            /\ q.at \in {"user", "family", "publish"}
            /\ q.user \in Users /\ q.family \in Families /\ q.on \in Recs
            /\ rec[q.on].status = "unused"
            /\ OneBatch(t)
            /\ q.at = "user" => Asked(t) = {UserLock(q.user)}
            /\ q.at \in {"family", "publish"} =>
                  UserLock(q.user) \in held[t] /\ Asked(t) = {UserLock(q.user), FamilyLock(q.family)}
            /\ q.at = "publish" =>
                  /\ FamilyLock(q.family) \in held[t] /\ q.family \in families
                  /\ RecordingAllowed(q.user, q.family, q.dur)

\* A book request has the family's row, then its sources, and last asks for its account
\* and the book it supersedes.
SourceRows(t) == {RecLock(r) : r \in req[t].sources}

Binding(t) ==
    LET q == req[t]
        f == q.family
    IN  q.op = "create_book" =>
            /\ q.at \in {"family", "sources", "insert"}
            /\ q.user \in Users /\ f \in Families /\ q.book \in Books
            /\ q.on \in Books \cup {"none"}
            /\ book[q.book].status = "unused"
            /\ OneBatch(t)
            /\ q.at = "family" => Asked(t) = {FamilyLock(f)}
            /\ q.at \in {"sources", "insert"} =>
                  /\ FamilyLock(f) \in held[t] /\ f \in families
                  /\ BookAllowed(f)
                  /\ q.sources # {}
                  /\ \A r \in q.sources :
                        rec[r].status = "deleted" \/ (rec[r].status = "completed" /\ rec[r].family = f)
            /\ q.at = "sources" => Asked(t) = {FamilyLock(f)} \cup SourceRows(t)
            /\ q.at = "insert" =>
                  /\ SourceRows(t) \subseteq held[t] /\ q.sources \subseteq RecsOf(f)
                  /\ Pending(t) \subseteq {UserLock(q.user), BookLock(q.on)}
                  /\ Asked(t) \subseteq {FamilyLock(f), UserLock(q.user)} \cup ContentIds

\* The deletion of one recording or book is one statement.
Removing(t) ==
    LET q == req[t]
    IN  /\ q.op = "delete_recording" =>
              /\ q.at = "commit" /\ q.on \in Recs /\ rec[q.on].status # "unused"
              /\ OneBatch(t) /\ Asked(t) = {RecLock(q.on)}
        /\ q.op = "delete_book" =>
              /\ q.at = "commit" /\ q.on \in Books /\ book[q.on].status # "unused"
              /\ OneBatch(t) /\ Asked(t) = {BookLock(q.on)}

\* The deletion of a family has its row, and the family is there until it commits.
Closing(t) ==
    LET q == req[t]
        f == q.family
    IN  q.op = "delete_family" =>
            /\ q.at \in {"recordings", "books", "commit"} /\ f \in Families /\ q.on = "none"
            /\ OneBatch(t)
            /\ q.at = "recordings" => Asked(t) = {FamilyLock(f)}
            /\ q.at \in {"books", "commit"} =>
                  /\ FamilyLock(f) \in held[t] /\ f \in families
                  /\ Asked(t) \subseteq {FamilyLock(f)} \cup ContentIds
                  /\ Pending(t) \subseteq ContentIds

\* The deletion of an account has its row, then locks all families in the order of their
\* ids, and then what the account created.
Ascending(t) ==
    /\ \A m, n \in DOMAIN want[t] : \A i, j \in Families :
          FamilyLock(i) \in want[t][m] /\ FamilyLock(j) \in want[t][n] => (i < j <=> m < n)
    /\ \A i, j \in Families : FamilyLock(i) \in held[t] /\ FamilyLock(j) \in Pending(t) => i < j

Leaving(t) ==
    LET q == req[t]
    IN  q.op = "delete_account" =>
            /\ q.at \in {"families", "books", "commit"} /\ q.user \in Users
            /\ q.at = "families" => OneBatch(t) /\ Asked(t) = {UserLock(q.user)}
            /\ q.at \in {"books", "commit"} =>
                  UserLock(q.user) \in held[t] /\ UserLock(q.user) \notin Pending(t)
            /\ q.at = "books" =>
                  /\ Asked(t) \subseteq {UserLock(q.user)} \cup {FamilyLock(f) : f \in Families}
                  /\ \A f \in families : FamilyLock(f) \in Asked(t)
                  /\ Ascending(t)
            /\ q.at = "commit" =>
                  /\ OneBatch(t) /\ Pending(t) \subseteq ContentIds
                  /\ \A f \in families : FamilyLock(f) \in held[t]

\* The recordings and books a request asks for, or will, are those of its family, and
\* those an account deletion asks for are the account's.
FamilyOp(t) == req[t].op \in {"create_book", "delete_family"}

Touches(t) ==
    (Asked(t) \cap ContentIds) \cup {BookLock(b) : b \in Books \cap {req[t].on}}

Touching(t) ==
    LET q == req[t]
    IN  /\ FamilyOp(t) =>
              /\ \A r \in Recs : RecLock(r) \in Touches(t) =>
                    rec[r].status # "unused" /\ (Live(r) => rec[r].family = q.family)
              /\ \A b \in Books : BookLock(b) \in Touches(t) =>
                    book[b].status # "unused" /\ (LiveBook(b) => book[b].family = q.family)
        /\ q.op = "delete_account" =>
              /\ \A r \in Recs : RecLock(r) \in Asked(t) =>
                    rec[r].status # "unused" /\ rec[r].user \in {q.user, NoUser}
              /\ \A b \in Books : BookLock(b) \in Asked(t) =>
                    book[b].status # "unused" /\ book[b].user \in {q.user, NoUser}

Local(t) ==
    /\ req[t].op = "none" => req[t].at = "idle"
    /\ Idle(t) /\ Uploading(t) /\ Binding(t) /\ Removing(t) /\ Closing(t) /\ Leaving(t) /\ Touching(t)

\* Two requests never make the same row, and ask for the same recording or book only
\* within one family.
Apart(s, t) ==
    /\ req[s].op = "create_recording" /\ req[t].op = "create_recording" => req[s].on # req[t].on
    /\ req[s].op = "create_book" /\ req[t].op = "create_book" => req[s].book # req[t].book
    /\ FamilyOp(s) /\ FamilyOp(t) /\ Touches(s) \cap Touches(t) # {} => req[s].family = req[t].family
    /\ req[s].op = "delete_account" /\ req[t].op = "delete_account" =>
          Asked(s) \cap Asked(t) \cap ContentIds = {}

\* Only what exists has an owner.
Owned ==
    /\ \A r \in Recs : rec[r].user # NoUser => Live(r)
    /\ \A b \in Books : book[b].user # NoUser => LiveBook(b)

IInv ==
    /\ TypeOK /\ ReqTypes /\ LockTypes /\ Disjoint
    /\ WithinRecordingLimits /\ WithinBookLimits /\ NothingLeftBehind /\ Owned
    /\ \A t \in Threads : Local(t)
    /\ \A s, t \in Threads : s # t => Apart(s, t)

-----------------------------------------------------------------------------
(* Locks                                                                   *)

\* The tables have different rows.
LEMMA RowsDiffer ==
    /\ \A u, v : UserLock(u) = UserLock(v) <=> u = v
    /\ \A f, g : FamilyLock(f) = FamilyLock(g) <=> f = g
    /\ \A r, o : RecLock(r) = RecLock(o) <=> r = o
    /\ \A b, c : BookLock(b) = BookLock(c) <=> b = c
    /\ \A u, f : UserLock(u) # FamilyLock(f)
    /\ \A u, r : UserLock(u) # RecLock(r)
    /\ \A u, b : UserLock(u) # BookLock(b)
    /\ \A f, r : FamilyLock(f) # RecLock(r)
    /\ \A f, b : FamilyLock(f) # BookLock(b)
    /\ \A r, b : RecLock(r) # BookLock(b)
BY DEF UserLock, FamilyLock, RecLock, BookLock

LEMMA RowsAreIds ==
    /\ \A u \in Users : UserLock(u) \in RowIds
    /\ \A f \in Families : FamilyLock(f) \in RowIds
    /\ \A r \in Recs : RecLock(r) \in RowIds /\ RecLock(r) \in ContentIds
    /\ \A b \in Books : BookLock(b) \in RowIds /\ BookLock(b) \in ContentIds
    /\ ContentIds \subseteq RowIds
BY DEF RowIds, ContentIds

LEMMA ContentDiffers ==
    /\ \A u : UserLock(u) \notin ContentIds
    /\ \A f : FamilyLock(f) \notin ContentIds
BY RowsDiffer DEF ContentIds

\* A statement in no particular order, and the end of a transaction.
LEMMA AnyOrderBatch ==
    ASSUME LockTypes, NEW t \in Threads, NEW rows \in SUBSET RowIds,
           Statement(t, AnyOrder(t, rows))
    PROVE  /\ LockTypes' /\ OneBatch(t)' /\ held' = held
           /\ Pending(t)' = rows \ held[t]
           /\ Asked(t)' = held[t] \cup rows
           /\ \A s \in Threads \ {t} : want'[s] = want[s]
<1>1. want' = [want EXCEPT ![t] = AnyOrder(t, rows)] /\ held' = held
  BY DEF Statement
<1>2. want'[t] = AnyOrder(t, rows) /\ \A s \in Threads \ {t} : want'[s] = want[s]
  BY <1>1 DEF LockTypes
<1>3. CASE rows \subseteq held[t]
  <2>1. want'[t] = <<>>
    BY <1>2, <1>3 DEF AnyOrder
  <2>2. Pending(t)' = {}
    BY <2>1 DEF Pending
  <2>3. <<>> \in Seq(SUBSET RowIds)
    OBVIOUS
  <2> QED
    BY <1>1, <1>2, <1>3, <2>1, <2>2, <2>3 DEF LockTypes, OneBatch, Asked
<1>4. CASE ~(rows \subseteq held[t])
  <2>1. want'[t] = <<rows \ held[t]>>
    BY <1>2, <1>4 DEF AnyOrder
  <2>2. Pending(t)' = rows \ held[t]
    BY <2>1 DEF Pending
  <2>3. <<rows \ held[t]>> \in Seq(SUBSET RowIds)
    OBVIOUS
  <2>4. LockTypes'
    BY <1>1, <1>2, <2>1, <2>3 DEF LockTypes
  <2>5. OneBatch(t)'
    BY <1>1, <1>4, <2>1 DEF OneBatch
  <2> QED
    BY <1>1, <1>2, <2>2, <2>4, <2>5 DEF Asked
<1> QED BY <1>3, <1>4

LEMMA ReleaseLocks ==
    ASSUME LockTypes, Disjoint, NEW t \in Threads, ReleaseAll(t)
    PROVE  /\ LockTypes' /\ Disjoint' /\ held'[t] = {} /\ want'[t] = <<>>
           /\ \A s \in Threads \ {t} : held'[s] = held[s] /\ want'[s] = want[s]
<1>1. <<>> \in Seq(SUBSET RowIds)
  OBVIOUS
<1> QED BY <1>1 DEF LockTypes, Disjoint, ReleaseAll

LEMMA NothingPending ==
    ASSUME NEW t \in Threads, want[t] = <<>>
    PROVE  Pending(t) = {} /\ Asked(t) = held[t]
BY DEF Pending, Asked

\* A lock granted is one of the rows waited for, and nobody else's.
LEMMA LockRowStep ==
    ASSUME LockTypes, Disjoint, NEW t \in Threads, LockRow(t)
    PROVE  /\ LockTypes' /\ Disjoint'
           /\ held[t] \subseteq held'[t] /\ Asked(t)' = Asked(t) /\ Pending(t)' \subseteq Pending(t)
           /\ want[t] # <<>>
           /\ OneBatch(t) => OneBatch(t)'
           /\ \E row \in Pending(t) : held'[t] = held[t] \cup {row}
           /\ \A s \in Threads \ {t} : held'[s] = held[s] /\ want'[s] = want[s]
<1>1. PICK row \in NextRows(t) :
          /\ Free(t, row)
          /\ held' = [held EXCEPT ![t] = @ \cup {row}]
          /\ want' = [want EXCEPT ![t] = IF Head(@) = {row} THEN Tail(@)
                                         ELSE <<Head(@) \ {row}>> \o Tail(@)]
  BY DEF LockRow
<1>2. want[t] # <<>> /\ row \in Head(want[t]) /\ want[t] \in Seq(SUBSET RowIds)
  BY <1>1 DEF NextRows, LockTypes
<1>3. /\ Len(want[t]) \in Nat \ {0} /\ Head(want[t]) = want[t][1]
      /\ 1 \in DOMAIN want[t] /\ want[t][1] \in SUBSET RowIds
      /\ Tail(want[t]) \in Seq(SUBSET RowIds)
      /\ DOMAIN want[t] = 1 .. Len(want[t])
  BY <1>2
<1>4. row \in RowIds /\ row \in Pending(t)
  BY <1>2, <1>3 DEF Pending
<1>5. /\ held'[t] = held[t] \cup {row}
      /\ \A s \in Threads \ {t} : held'[s] = held[s] /\ want'[s] = want[s]
  BY <1>1 DEF LockTypes
<1>6. Disjoint'
  BY <1>1, <1>5 DEF Disjoint, Free
<1>7. CASE want[t][1] = {row}
  <2>1. want'[t] = Tail(want[t])
    BY <1>1, <1>3, <1>7 DEF LockTypes
  <2>2. LockTypes'
    BY <1>1, <1>3, <1>4, <1>7 DEF LockTypes
  <2>3. /\ DOMAIN Tail(want[t]) = 1 .. Len(want[t]) - 1
        /\ \A n \in 1 .. Len(want[t]) - 1 : Tail(want[t])[n] = want[t][n + 1]
    BY <1>3
  <2>4. Pending(t)' \subseteq Pending(t)
    <3> SUFFICES ASSUME NEW n \in 1 .. Len(want[t]) - 1 PROVE want[t][n + 1] \subseteq Pending(t)
      BY <2>1, <2>3 DEF Pending
    <3>1. n + 1 \in DOMAIN want[t]
      BY <1>3
    <3> QED BY <3>1 DEF Pending
  <2>5. Pending(t) \subseteq Pending(t)' \cup {row}
    <3> SUFFICES ASSUME NEW n \in 1 .. Len(want[t]) PROVE want[t][n] \subseteq Pending(t)' \cup {row}
      BY <1>3 DEF Pending
    <3>1. CASE n = 1
      BY <1>7, <3>1
    <3>2. CASE n # 1
      <4>1. n - 1 \in 1 .. Len(want[t]) - 1 /\ Tail(want[t])[n - 1] = want[t][n]
        BY <1>3, <2>3, <3>2
      <4> QED BY <2>1, <2>3, <4>1 DEF Pending
    <3> QED BY <3>1, <3>2
  <2>6. OneBatch(t) => OneBatch(t)'
    <3> SUFFICES ASSUME OneBatch(t) PROVE want'[t] = <<>>
      BY DEF OneBatch
    <3>1. PICK rows \in SUBSET RowIds : want[t] = <<rows>>
      BY <1>2 DEF OneBatch
    <3> QED BY <2>1, <3>1
  <2> QED BY <1>2, <1>4, <1>5, <1>6, <2>2, <2>4, <2>5, <2>6 DEF Asked
<1>8. CASE want[t][1] # {row}
  <2>1. want'[t] = <<want[t][1] \ {row}>> \o Tail(want[t])
    BY <1>1, <1>3, <1>8 DEF LockTypes
  <2>2. want'[t] \in Seq(SUBSET RowIds) /\ DOMAIN want'[t] = DOMAIN want[t]
    BY <1>2, <1>3, <2>1
  <2>3. LockTypes'
    BY <1>1, <1>4, <1>5, <2>2 DEF LockTypes
  <2>4. /\ want'[t][1] = want[t][1] \ {row}
        /\ \A n \in DOMAIN want[t] : n # 1 => want'[t][n] = want[t][n]
    BY <1>3, <2>1
  <2>5. Pending(t)' \subseteq Pending(t)
    BY <1>3, <2>2, <2>4 DEF Pending
  <2>6. Pending(t) \subseteq Pending(t)' \cup {row}
    BY <1>3, <2>2, <2>4 DEF Pending
  <2>7. OneBatch(t) => OneBatch(t)'
    <3> SUFFICES ASSUME OneBatch(t) PROVE OneBatch(t)'
      OBVIOUS
    <3>1. PICK rows \in SUBSET RowIds : want[t] = <<rows>> /\ rows # {} /\ rows \cap held[t] = {}
      BY <1>2 DEF OneBatch
    <3>2. want'[t] = <<rows \ {row}>> /\ rows # {row} /\ row \in rows
      BY <1>2, <1>3, <1>8, <2>1, <3>1
    <3> QED BY <1>5, <3>1, <3>2 DEF OneBatch
  <2> QED BY <1>2, <1>4, <1>5, <1>6, <2>3, <2>5, <2>6, <2>7 DEF Asked
<1> QED BY <1>7, <1>8

\* Locking families in the order of their ids asks for each of them.
LEMMA ByKeyCovers ==
    ASSUME NEW keys \in SUBSET Families
    PROVE  /\ ByKey(keys, FamilyLock) \in Seq(SUBSET RowIds)
           /\ \A f \in keys :
                 \E n \in DOMAIN ByKey(keys, FamilyLock) : FamilyLock(f) \in ByKey(keys, FamilyLock)[n]
<1>1. IsFiniteSet(keys) /\ Cardinality(keys) \in Nat
  <2>1. IsFiniteSet(1..NumFamilies)
    BY FS_Interval, ContentAssumption
  <2>2. IsFiniteSet(keys)
    BY <2>1, FS_Subset DEF Families
  <2> QED BY <2>2, FS_CardinalityType
<1> DEFINE batches == [n \in 1..Cardinality(keys) |->
               {FamilyLock(k) : k \in {j \in keys : Cardinality({i \in keys : i < j}) = n - 1}}]
<1>2. ByKey(keys, FamilyLock) = batches
  BY DEF ByKey
<1>3. batches \in Seq(SUBSET RowIds)
  <2>1. batches \in [1..Cardinality(keys) -> SUBSET RowIds]
    BY RowsAreIds
  <2> HIDE DEF batches
  <2> QED BY <1>1, <2>1
<1>4. ASSUME NEW f \in keys
      PROVE  \E n \in DOMAIN batches : FamilyLock(f) \in batches[n]
  <2> DEFINE below == {i \in keys : i < f}
             c == Cardinality(below)
  <2>1. below \subseteq keys \ {f}
    BY DEF Families
  <2>2. IsFiniteSet(keys \ {f}) /\ Cardinality(keys \ {f}) = Cardinality(keys) - 1
    BY <1>1, FS_RemoveElement
  <2>3. IsFiniteSet(below) /\ c <= Cardinality(keys) - 1
    BY <2>1, <2>2, FS_Subset
  <2>4. c \in Nat
    BY <2>3, FS_CardinalityType
  <2>5. c + 1 \in 1..Cardinality(keys) /\ c = (c + 1) - 1
    BY <1>1, <2>3, <2>4
  <2> HIDE DEF c
  <2>6. FamilyLock(f) \in {FamilyLock(k) : k \in {j \in keys : Cardinality({i \in keys : i < j}) = (c + 1) - 1}}
    BY <2>5 DEF c
  <2> QED BY <2>5, <2>6
<1> QED BY <1>2, <1>3, <1>4

\* And a family with a smaller id is asked for in an earlier batch.
LEMMA ByKeyAscends ==
    ASSUME NEW keys \in SUBSET Families
    PROVE  LET batches == ByKey(keys, FamilyLock)
           IN  /\ \A n \in DOMAIN batches : batches[n] \subseteq {FamilyLock(f) : f \in keys}
               /\ \A m, n \in DOMAIN batches : \A i, j \in Families :
                     FamilyLock(i) \in batches[m] /\ FamilyLock(j) \in batches[n] => (i < j <=> m < n)
<1> DEFINE below(f) == {i \in keys : i < f}
           rank(f) == Cardinality(below(f))
           batches == ByKey(keys, FamilyLock)
<1>1. IsFiniteSet(keys) /\ Families \subseteq Int
  <2>1. IsFiniteSet(1..NumFamilies) /\ Families \subseteq Int
    BY FS_Interval, ContentAssumption DEF Families
  <2> QED BY <2>1, FS_Subset DEF Families
<1>2. \A f \in Families : IsFiniteSet(below(f)) /\ rank(f) \in Nat
  <2> TAKE f \in Families
  <2>1. below(f) \subseteq keys
    OBVIOUS
  <2> QED BY <1>1, <2>1, FS_Subset, FS_CardinalityType
<1>3. ASSUME NEW i \in keys, NEW j \in Families, i < j PROVE rank(i) < rank(j)
  <2>1. below(i) \subseteq below(j) /\ below(i) # below(j)
    <3>1. i \in below(j) /\ i \notin below(i)
      BY <1>1, <1>3
    <3>2. \A k \in keys : k < i => k < j
      BY <1>1, <1>3
    <3> QED BY <3>1, <3>2
  <2>2. i \in Families
    OBVIOUS
  <2>3. rank(i) <= rank(j) /\ (rank(i) = rank(j) => below(i) = below(j))
    BY <1>2, <2>1, FS_Subset
  <2>4. rank(i) \in Nat /\ rank(j) \in Nat
    BY <1>2, <2>2
  <2> HIDE DEF rank, below
  <2> QED BY <2>1, <2>3, <2>4
<1>4. batches = [n \in 1..Cardinality(keys) |-> {FamilyLock(k) : k \in {j \in keys : rank(j) = n - 1}}]
  BY DEF ByKey
<1>5. DOMAIN batches = 1..Cardinality(keys) /\ Cardinality(keys) \in Nat
  BY <1>1, <1>4, FS_CardinalityType
<1>6. \A n \in DOMAIN batches, f \in Families :
         FamilyLock(f) \in batches[n] => f \in keys /\ rank(f) = n - 1
  <2> HIDE DEF rank, batches
  <2> TAKE n \in DOMAIN batches, f \in Families
  <2> HAVE FamilyLock(f) \in batches[n]
  <2>1. PICK k \in keys : FamilyLock(f) = FamilyLock(k) /\ rank(k) = n - 1
    BY <1>4, <1>5
  <2> QED BY <2>1, RowsDiffer
<1>7. \A n \in DOMAIN batches : batches[n] \subseteq {FamilyLock(f) : f \in keys}
  <2> HIDE DEF rank, batches
  <2> QED BY <1>4, <1>5
<1>c. \A n \in DOMAIN batches : n \in Int
  BY <1>5
<1> HIDE DEF rank, below, batches
<1>8. ASSUME NEW m \in DOMAIN batches, NEW n \in DOMAIN batches, NEW i \in Families, NEW j \in Families,
             FamilyLock(i) \in batches[m], FamilyLock(j) \in batches[n]
      PROVE  i < j <=> m < n
  <2>1. /\ i \in keys /\ j \in keys /\ rank(i) = m - 1 /\ rank(j) = n - 1
        /\ m \in Int /\ n \in Int /\ i \in Int /\ j \in Int
    BY <1>1, <1>c, <1>6, <1>8
  <2>2. (i < j => rank(i) < rank(j)) /\ (j < i => rank(j) < rank(i))
    BY <1>3, <2>1
  <2>3. i = j => rank(i) = rank(j)
    OBVIOUS
  <2> QED BY <2>1, <2>2, <2>3
<1> QED BY <1>7, <1>8 DEF batches

\* A lock granted to a request that locks families in order is the next one of them.
LEMMA LockRowAscends ==
    ASSUME LockTypes, Disjoint, NEW t \in Threads, LockRow(t), Ascending(t)
    PROVE  Ascending(t)'
<1>1. PICK row \in NextRows(t) :
          /\ held' = [held EXCEPT ![t] = @ \cup {row}]
          /\ want' = [want EXCEPT ![t] = IF Head(@) = {row} THEN Tail(@)
                                         ELSE <<Head(@) \ {row}>> \o Tail(@)]
  BY DEF LockRow
<1>2. want[t] # <<>> /\ row \in Head(want[t]) /\ want[t] \in Seq(SUBSET RowIds)
  BY <1>1 DEF NextRows, LockTypes
<1>3. /\ Len(want[t]) \in Nat \ {0} /\ row \in want[t][1] /\ Head(want[t]) = want[t][1]
      /\ DOMAIN want[t] = 1 .. Len(want[t]) /\ 1 \in DOMAIN want[t]
  BY <1>2
<1>4. held'[t] = held[t] \cup {row}
  BY <1>1 DEF LockTypes
<1>5. \A i, j \in Families : i \in Int /\ j \in Int
  BY ContentAssumption DEF Families
<1>6. \E d \in {0, 1} : \A n \in DOMAIN want'[t] :
         n + d \in DOMAIN want[t] /\ want'[t][n] \subseteq want[t][n + d] \ (IF n + d = 1 THEN {row} ELSE {})
  <2>1. CASE want[t][1] = {row}
    <3>1. want'[t] = Tail(want[t])
      BY <1>1, <1>3, <2>1 DEF LockTypes
    <3>2. /\ DOMAIN Tail(want[t]) = 1 .. Len(want[t]) - 1
          /\ \A n \in 1 .. Len(want[t]) - 1 : Tail(want[t])[n] = want[t][n + 1]
      BY <1>2, <1>3
    <3>3. \A n \in DOMAIN want'[t] :
             n + 1 \in DOMAIN want[t] /\ want'[t][n] = want[t][n + 1] /\ n + 1 # 1
      BY <1>3, <3>1, <3>2
    <3> QED BY <3>3
  <2>2. CASE want[t][1] # {row}
    <3>1. want'[t] = <<want[t][1] \ {row}>> \o Tail(want[t])
      BY <1>1, <1>3, <2>2 DEF LockTypes
    <3>2. DOMAIN want'[t] = DOMAIN want[t]
      BY <1>2, <1>3, <3>1
    <3>3. /\ want'[t][1] = want[t][1] \ {row}
          /\ \A n \in DOMAIN want[t] : n # 1 => want'[t][n] = want[t][n]
      BY <1>2, <1>3, <3>1
    <3>4. \A n \in DOMAIN want'[t] : n + 0 = n
      BY <1>3, <3>2
    <3>5. \A n \in DOMAIN want'[t] :
             n + 0 \in DOMAIN want[t] /\ want'[t][n] \subseteq want[t][n + 0] \ (IF n + 0 = 1 THEN {row} ELSE {})
      BY <3>2, <3>3, <3>4
    <3> QED BY <3>5
  <2> QED BY <2>1, <2>2
<1>7. PICK d \in {0, 1} : \A n \in DOMAIN want'[t] :
         n + d \in DOMAIN want[t] /\ want'[t][n] \subseteq want[t][n + d] \ (IF n + d = 1 THEN {row} ELSE {})
  BY <1>6
<1>8. want'[t] \in Seq(SUBSET RowIds)
  BY LockRowStep DEF LockTypes
<1>9. \A n \in DOMAIN want'[t] : n \in Int
  BY <1>8
<1>10. ASSUME NEW m \in DOMAIN want'[t], NEW n \in DOMAIN want'[t], NEW i \in Families, NEW j \in Families,
              FamilyLock(i) \in want'[t][m], FamilyLock(j) \in want'[t][n]
       PROVE  i < j <=> m < n
  <2>1. /\ m + d \in DOMAIN want[t] /\ n + d \in DOMAIN want[t]
        /\ FamilyLock(i) \in want[t][m + d] /\ FamilyLock(j) \in want[t][n + d]
    BY <1>7, <1>10
  <2>2. i < j <=> m + d < n + d
    BY <2>1 DEF Ascending
  <2> QED BY <1>9, <2>2
<1>11. ASSUME NEW i \in Families, NEW j \in Families, FamilyLock(i) \in held'[t], FamilyLock(j) \in Pending(t)'
       PROVE  i < j
  <2>1. PICK n \in DOMAIN want'[t] : FamilyLock(j) \in want'[t][n]
    BY <1>11 DEF Pending
  <2>2. /\ n + d \in DOMAIN want[t] /\ FamilyLock(j) \in want[t][n + d]
        /\ n + d = 1 => FamilyLock(j) # row
    BY <1>7, <2>1
  <2>3. FamilyLock(j) \in Pending(t)
    BY <2>2 DEF Pending
  <2>4. CASE FamilyLock(i) \in held[t]
    BY <2>3, <2>4 DEF Ascending
  <2>5. CASE FamilyLock(i) = row
    <3>1. i < j <=> 1 < n + d
      BY <1>3, <2>2, <2>5 DEF Ascending
    <3>2. j < i <=> n + d < 1
      BY <1>3, <2>2, <2>5 DEF Ascending
    <3>3. n + d \in Int /\ n + d >= 1
      BY <1>3, <2>2
    <3>4. n + d = 1 => i # j
      BY <2>2, <2>5
    <3> QED BY <1>5, <3>1, <3>2, <3>3, <3>4
  <2> QED BY <1>4, <1>11, <2>4, <2>5
<1> QED BY <1>10, <1>11 DEF Ascending

-----------------------------------------------------------------------------
(* Threads and their statements                                            *)

LEMMA NoRequestType == NoRequest \in RequestRow
BY ContentAssumption DEF NoRequest, RequestRow, Ops, Stages

\* The state of the other threads is theirs.
Others(t) ==
    \A s \in Threads \ {t} : req'[s] = req[s] /\ held'[s] = held[s] /\ want'[s] = want[s]

\* The next statement of a request: where it stands, and what it asks for.
LEMMA ProceedStep ==
    ASSUME LockTypes, ReqTypes, Disjoint, NEW t \in Threads, NEW r \in RequestRow, NEW s \in Stages,
           NEW rows \in SUBSET RowIds, Proceed(t, r, s, rows)
    PROVE  /\ LockTypes' /\ ReqTypes' /\ Disjoint' /\ Others(t) /\ OneBatch(t)'
           /\ held'[t] = held[t] /\ Pending(t)' = rows \ held[t] /\ Asked(t)' = held[t] \cup rows
           /\ req'[t].at = s /\ req'[t].op = r.op /\ req'[t].user = r.user
           /\ req'[t].family = r.family /\ req'[t].on = r.on /\ req'[t].book = r.book
           /\ req'[t].dur = r.dur /\ req'[t].sources = r.sources
<1> DEFINE x == [r EXCEPT !.at = s]
<1>1. /\ x \in RequestRow
      /\ x.at = s /\ x.op = r.op /\ x.user = r.user /\ x.family = r.family /\ x.on = r.on
      /\ x.book = r.book /\ x.dur = r.dur /\ x.sources = r.sources
  BY DEF RequestRow
<1>2. req' = [req EXCEPT ![t] = x] /\ Statement(t, AnyOrder(t, rows))
  BY DEF Proceed
<1> HIDE DEF x
<1>3. /\ ReqTypes' /\ req'[t] = x
      /\ \A o \in Threads \ {t} : req'[o] = req[o]
  BY <1>1, <1>2 DEF ReqTypes
<1>4. /\ LockTypes' /\ OneBatch(t)' /\ held' = held
      /\ Pending(t)' = rows \ held[t] /\ Asked(t)' = held[t] \cup rows
      /\ \A o \in Threads \ {t} : want'[o] = want[o]
  BY <1>2, AnyOrderBatch
<1>5. Disjoint'
  BY <1>4 DEF Disjoint
<1> QED BY <1>1, <1>3, <1>4, <1>5 DEF Others

\* A thread that serves nobody relies on nothing, and is apart from all others.
LEMMA IdleLocal ==
    ASSUME NEW t, req[t] = NoRequest, held[t] = {}, want[t] = <<>>
    PROVE  /\ Local(t)
           /\ \A s : Apart(s, t) /\ Apart(t, s)
<1>1. req[t].op = "none" /\ req[t].at = "idle"
  BY DEF NoRequest
<1>2. Idle(t) /\ Uploading(t) /\ Binding(t) /\ Removing(t) /\ Closing(t) /\ Leaving(t) /\ Touching(t)
  BY <1>1 DEF Idle, Uploading, Binding, Removing, Closing, Leaving, Touching, FamilyOp
<1>3. ASSUME NEW s PROVE Apart(s, t) /\ Apart(t, s)
  BY <1>1 DEF Apart, FamilyOp
<1> QED BY <1>1, <1>2, <1>3 DEF Local

LEMMA FinishStep ==
    ASSUME LockTypes, ReqTypes, Disjoint, NEW t \in Threads, Finish(t)
    PROVE  /\ LockTypes' /\ ReqTypes' /\ Disjoint' /\ Others(t)
           /\ req'[t] = NoRequest /\ held'[t] = {} /\ want'[t] = <<>>
<1>1. /\ LockTypes' /\ Disjoint' /\ held'[t] = {} /\ want'[t] = <<>>
      /\ \A s \in Threads \ {t} : held'[s] = held[s] /\ want'[s] = want[s]
  BY ReleaseLocks DEF Finish
<1>2. /\ ReqTypes' /\ req'[t] = NoRequest
      /\ \A s \in Threads \ {t} : req'[s] = req[s]
  BY NoRequestType DEF Finish, ReqTypes
<1> QED BY <1>1, <1>2 DEF Others

LEMMA GrantedHolds ==
    ASSUME NEW t \in Threads, NEW op, NEW s, Runs(t, op, s)
    PROVE  req[t].op = op /\ req[t].at = s /\ want[t] = <<>> /\ Pending(t) = {} /\ Asked(t) = held[t]
BY DEF Runs, Granted, Pending, Asked

\* Two other threads stay apart.
LEMMA OthersApart ==
    ASSUME IInv, NEW t \in Threads, Others(t), NEW a \in Threads \ {t}, NEW b \in Threads \ {t}, a # b
    PROVE  Apart(a, b)'
<1>1. /\ req'[a] = req[a] /\ held'[a] = held[a] /\ want'[a] = want[a]
      /\ req'[b] = req[b] /\ held'[b] = held[b] /\ want'[b] = want[b]
  BY DEF Others
<1>2. /\ Asked(a)' = Asked(a) /\ Asked(b)' = Asked(b)
  BY <1>1 DEF Asked, Pending
<1>3. Touches(a)' = Touches(a) /\ Touches(b)' = Touches(b)
  BY <1>1, <1>2 DEF Touches
<1>4. Apart(a, b)
  BY DEF IInv
<1> QED BY <1>1, <1>2, <1>3, <1>4 DEF Apart, FamilyOp

\* A step of one request, for all of them.
LEMMA AllApart ==
    ASSUME IInv, NEW t \in Threads, Others(t), \A s \in Threads \ {t} : Apart(s, t)'
    PROVE  \A a, b \in Threads : a # b => Apart(a, b)'
<1> SUFFICES ASSUME NEW a \in Threads, NEW b \in Threads, a # b PROVE Apart(a, b)'
  OBVIOUS
<1>1. CASE b = t
  BY <1>1
<1>2. CASE a = t
  <2>1. Apart(b, a)'
    BY <1>2
  <2> QED BY <2>1 DEF Apart
<1>3. CASE a # t /\ b # t
  BY <1>3, OthersApart
<1> QED BY <1>1, <1>2, <1>3

LEMMA Facts ==
    ASSUME IInv, NEW t \in Threads
    PROVE  /\ TypeOK /\ ReqTypes /\ LockTypes /\ Disjoint /\ Owned /\ NothingLeftBehind
           /\ req[t] \in RequestRow
           /\ req[t].op = "none" => req[t].at = "idle"
           /\ Idle(t) /\ Uploading(t) /\ Binding(t) /\ Removing(t) /\ Closing(t) /\ Leaving(t) /\ Touching(t)
           /\ \A s \in Threads \ {t} : Local(s) /\ Apart(s, t)
BY DEF IInv, Local, ReqTypes

-----------------------------------------------------------------------------
(* What becomes of the rows                                                *)

Durs == [r \in Recs |-> rec[r].dur]

\* A recording or book that exists keeps its family, only ages, ends and goes, and may
\* lose its owner.
RecMoves ==
    \A r \in Recs :
        /\ rec[r].status # "unused" => rec'[r].status # "unused" /\ rec'[r].user \in {rec[r].user, NoUser}
        /\ rec[r].status = "completed" => rec'[r].status \in {"completed", "deleted"}
        /\ rec[r].status = "deleted" => rec'[r].status = "deleted"
        /\ rec[r].status # "unused" /\ Live(r)' =>
              /\ Live(r) /\ rec'[r].family = rec[r].family /\ rec'[r].dur = rec[r].dur
              /\ rec'[r].recent => rec[r].recent
              /\ rec'[r].status = "active" => rec[r].status = "active"

BookMoves ==
    \A b \in Books :
        /\ book[b].status # "unused" => book'[b].status # "unused" /\ book'[b].user \in {book[b].user, NoUser}
        /\ book[b].status # "unused" /\ LiveBook(b)' =>
              /\ LiveBook(b) /\ book'[b].family = book[b].family
              /\ book'[b].recent => book[b].recent
              /\ book'[b].status = "active" => book[b].status = "active"

\* What comes, comes to a family and an account that t has not locked, and a source that
\* t has locked with its family does not go.
Spares(t) ==
    /\ families' \subseteq families
    /\ \A f \in families : FamilyLock(f) \in held[t] => f \in families'
    /\ RecMoves /\ BookMoves
    /\ req[t].op = "create_recording" => rec'[req[t].on].status = rec[req[t].on].status
    /\ req[t].op = "create_book" => book'[req[t].book].status = book[req[t].book].status
    /\ \A r \in Recs : rec[r].status = "unused" /\ Live(r)' =>
          FamilyLock(rec'[r].family) \notin held[t] /\ UserLock(rec'[r].user) \notin held[t]
    /\ \A b \in Books : book[b].status = "unused" /\ LiveBook(b)' =>
          FamilyLock(book'[b].family) \notin held[t]
    /\ \A r \in Recs : Live(r) /\ ~ Live(r)' =>
          RecLock(r) \notin held[t] \/ FamilyLock(rec[r].family) \notin held[t]

LEMMA QuietSpares ==
    ASSUME rec' = rec, book' = book, families' = families, NEW t \in Threads
    PROVE  Spares(t)
<1>1. rec' = rec /\ book' = book /\ families' = families
  OBVIOUS
<1>2. RecMoves /\ BookMoves
  BY <1>1 DEF RecMoves, BookMoves, Live, LiveBook
<1>3. /\ \A r \in Recs : Live(r)' => rec[r].status # "unused"
      /\ \A b \in Books : LiveBook(b)' => book[b].status # "unused"
      /\ \A r \in Recs : Live(r) => Live(r)'
  BY <1>1 DEF Live, LiveBook
<1> QED BY <1>1, <1>2, <1>3 DEF Spares

\* The counts and sums of the quotas.
LEMMA SumIsTotal == ASSUME NEW f, NEW S PROVE SumOver(f, S) = Total(f, S)
BY DEF SumOver, FoldFunctionOnSet, MapThenFoldSet, Total, SumTable, SumStep, Pick

LEMMA SecondsAreTotals ==
    /\ \A f : Seconds(Recent(RecsOf(f))) = Total(Durs, Recent(RecsOf(f)))
    /\ \A u : Seconds(Recent(ByUser(u))) = Total(Durs, Recent(ByUser(u)))
    /\ \A f : Seconds(Recent(RecsOf(f)))' = Total(Durs', Recent(RecsOf(f))')
    /\ \A u : Seconds(Recent(ByUser(u)))' = Total(Durs', Recent(ByUser(u))')
<1>1. /\ \A f : Seconds(Recent(RecsOf(f))) = SumOver(Durs, Recent(RecsOf(f)))
      /\ \A u : Seconds(Recent(ByUser(u))) = SumOver(Durs, Recent(ByUser(u)))
      /\ \A f : Seconds(Recent(RecsOf(f)))' = SumOver(Durs', Recent(RecsOf(f))')
      /\ \A u : Seconds(Recent(ByUser(u)))' = SumOver(Durs', Recent(ByUser(u))')
  BY DEF Seconds, Durs
<1> QED BY <1>1, SumIsTotal

LEMMA CountsAreNat ==
    ASSUME TypeOK
    PROVE  /\ \A S \in SUBSET Recs : IsFiniteSet(S) /\ Cardinality(S) \in Nat /\ Total(Durs, S) \in Nat
           /\ \A S \in SUBSET Books : IsFiniteSet(S) /\ Cardinality(S) \in Nat
           /\ \A r \in Recs : Durs[r] \in Nat /\ Durs[r] = rec[r].dur
           /\ \A S \in SUBSET Recs : Recent(S) \in SUBSET Recs
           /\ \A f : RecsOf(f) \in SUBSET Recs /\ BooksOf(f) \in SUBSET Books
           /\ \A u : ByUser(u) \in SUBSET Recs
<1>1. \A r \in Recs : Durs[r] \in Nat /\ Durs[r] = rec[r].dur
  BY ContentAssumption DEF TypeOK, RecordingRow, Durs
<1>2. ASSUME NEW S \in SUBSET Recs
      PROVE  IsFiniteSet(S) /\ Cardinality(S) \in Nat /\ Total(Durs, S) \in Nat
  <2>1. IsFiniteSet(S)
    BY ContentAssumption, FS_Subset
  <2>2. \A r \in S : Durs[r] \in Nat
    BY <1>1
  <2> QED BY <2>1, <2>2, FS_CardinalityType, TotalNat
<1>3. ASSUME NEW S \in SUBSET Books PROVE IsFiniteSet(S) /\ Cardinality(S) \in Nat
  BY ContentAssumption, FS_Subset, FS_CardinalityType
<1> QED BY <1>1, <1>2, <1>3 DEF Recent, RecsOf, BooksOf, ByUser

\* No more recordings than before, and no longer ones, count for no more.
LEMMA Fewer ==
    ASSUME NEW T \in SUBSET Recs, NEW S \in SUBSET T
    PROVE  Cardinality(S) \in Nat /\ Cardinality(T) \in Nat /\ Cardinality(S) <= Cardinality(T)
<1>1. IsFiniteSet(T)
  BY ContentAssumption, FS_Subset
<1> QED BY <1>1, FS_Subset, FS_CardinalityType

LEMMA FewerBooks ==
    ASSUME NEW T \in SUBSET Books, NEW S \in SUBSET T
    PROVE  Cardinality(S) \in Nat /\ Cardinality(T) \in Nat /\ Cardinality(S) <= Cardinality(T)
<1>1. IsFiniteSet(T)
  BY ContentAssumption, FS_Subset
<1> QED BY <1>1, FS_Subset, FS_CardinalityType

LEMMA Shorter ==
    ASSUME TypeOK, TypeOK', NEW T \in SUBSET Recs, NEW S \in SUBSET T,
           \A r \in S : rec'[r].dur = rec[r].dur
    PROVE  Total(Durs', S) <= Total(Durs, T)
<1>1. IsFiniteSet(T)
  BY ContentAssumption, FS_Subset
<1>2. /\ \A r \in T : Durs[r] \in Nat
      /\ \A r \in S : Durs'[r] \in Nat /\ Durs'[r] <= Durs[r]
  BY ContentAssumption DEF TypeOK, RecordingRow, Durs
<1>3. ASSUME NEW f, NEW g, \A x \in T : g[x] \in Nat, \A x \in S : f[x] \in Nat /\ f[x] <= g[x]
      PROVE  Total(f, S) <= Total(g, T)
  BY <1>1, <1>3, TotalGrows
<1> QED BY <1>2, <1>3

-----------------------------------------------------------------------------
(* Quotas that hold go on holding                                          *)

NoNewRecording(f) == \A r \in Recs : rec[r].status = "unused" /\ Live(r)' => rec'[r].family # f
NoNewUpload(u)    == \A r \in Recs : rec[r].status = "unused" /\ Live(r)' => rec'[r].user # u
NoNewBook(f)      == \A b \in Books : book[b].status = "unused" /\ LiveBook(b)' => book'[b].family # f

Active(f)      == {r \in RecsOf(f) : rec[r].status = "active"}
ActiveBooks(f) == {b \in BooksOf(f) : book[b].status = "active"}
RecentBooks(f) == {b \in BooksOf(f) : book[b].recent}

LEMMA FamilyShrinks ==
    ASSUME RecMoves, NEW f, NoNewRecording(f)
    PROVE  /\ RecsOf(f)' \subseteq RecsOf(f) /\ Active(f)' \subseteq Active(f)
           /\ Recent(RecsOf(f))' \subseteq Recent(RecsOf(f))
           /\ \A r \in Recent(RecsOf(f))' : rec'[r].dur = rec[r].dur
<1>1. ASSUME NEW r \in RecsOf(f)'
      PROVE  /\ r \in RecsOf(f) /\ rec'[r].dur = rec[r].dur /\ (rec'[r].recent => rec[r].recent)
             /\ rec'[r].status = "active" => rec[r].status = "active"
  <2>1. r \in Recs /\ Live(r)' /\ rec'[r].family = f
    BY DEF RecsOf
  <2>2. rec[r].status # "unused"
    BY <2>1 DEF NoNewRecording
  <2> QED BY <2>1, <2>2 DEF RecMoves, RecsOf
<1> QED BY <1>1 DEF Active, Recent

LEMMA AccountShrinks ==
    ASSUME RecMoves, NEW u \in Users, NoNewUpload(u)
    PROVE  /\ Recent(ByUser(u))' \subseteq Recent(ByUser(u))
           /\ \A r \in Recent(ByUser(u))' : rec'[r].dur = rec[r].dur
<1>1. ASSUME NEW r \in ByUser(u)'
      PROVE  r \in ByUser(u) /\ rec'[r].dur = rec[r].dur /\ (rec'[r].recent => rec[r].recent)
  <2>1. r \in Recs /\ Live(r)' /\ rec'[r].user = u /\ u # NoUser
    BY ContentAssumption DEF ByUser
  <2>2. rec[r].status # "unused"
    BY <2>1 DEF NoNewUpload
  <2> QED BY <2>1, <2>2 DEF RecMoves, ByUser
<1> QED BY <1>1 DEF Recent

LEMMA BooksShrink ==
    ASSUME BookMoves, NEW f, NoNewBook(f)
    PROVE  ActiveBooks(f)' \subseteq ActiveBooks(f) /\ RecentBooks(f)' \subseteq RecentBooks(f)
<1>1. ASSUME NEW b \in BooksOf(f)'
      PROVE  /\ b \in BooksOf(f) /\ (book'[b].recent => book[b].recent)
             /\ book'[b].status = "active" => book[b].status = "active"
  <2>1. b \in Books /\ LiveBook(b)' /\ book'[b].family = f
    BY DEF BooksOf
  <2>2. book[b].status # "unused"
    BY <2>1 DEF NoNewBook
  <2> QED BY <2>1, <2>2 DEF BookMoves, BooksOf
<1> QED BY <1>1 DEF ActiveBooks, RecentBooks

\* The four counts of a family and the two of an account, and their smaller successors.
LEMMA FamilyCounts ==
    ASSUME TypeOK, TypeOK', RecMoves, NEW f, NoNewRecording(f)
    PROVE  /\ Cardinality(Active(f))' \in Nat /\ Cardinality(Active(f)) \in Nat
           /\ Cardinality(Active(f))' <= Cardinality(Active(f))
           /\ Cardinality(RecsOf(f))' \in Nat /\ Cardinality(RecsOf(f)) \in Nat
           /\ Cardinality(RecsOf(f))' <= Cardinality(RecsOf(f))
           /\ Cardinality(Recent(RecsOf(f)))' \in Nat /\ Cardinality(Recent(RecsOf(f))) \in Nat
           /\ Cardinality(Recent(RecsOf(f)))' <= Cardinality(Recent(RecsOf(f)))
           /\ Seconds(Recent(RecsOf(f)))' \in Nat /\ Seconds(Recent(RecsOf(f))) \in Nat
           /\ Seconds(Recent(RecsOf(f)))' <= Seconds(Recent(RecsOf(f)))
<1>1. /\ RecsOf(f)' \subseteq RecsOf(f) /\ Active(f)' \subseteq Active(f)
      /\ Recent(RecsOf(f))' \subseteq Recent(RecsOf(f))
      /\ \A r \in Recent(RecsOf(f))' : rec'[r].dur = rec[r].dur
  BY FamilyShrinks
<1>2. Active(f) \in SUBSET Recs /\ RecsOf(f) \in SUBSET Recs /\ Recent(RecsOf(f)) \in SUBSET Recs
  BY DEF Active, RecsOf, Recent
<1>3. Cardinality(Active(f)') <= Cardinality(Active(f)) /\ Cardinality(Active(f)') \in Nat /\ Cardinality(Active(f)) \in Nat
  BY <1>1, <1>2, Fewer
<1>4. Cardinality(RecsOf(f)') <= Cardinality(RecsOf(f)) /\ Cardinality(RecsOf(f)') \in Nat /\ Cardinality(RecsOf(f)) \in Nat
  BY <1>1, <1>2, Fewer
<1>5. /\ Cardinality(Recent(RecsOf(f))') <= Cardinality(Recent(RecsOf(f)))
      /\ Cardinality(Recent(RecsOf(f))') \in Nat /\ Cardinality(Recent(RecsOf(f))) \in Nat
  BY <1>1, <1>2, Fewer
<1>6. Total(Durs', Recent(RecsOf(f))') <= Total(Durs, Recent(RecsOf(f)))
  BY <1>1, <1>2, Shorter
<1>7. Total(Durs, Recent(RecsOf(f))) \in Nat
  BY <1>2, CountsAreNat
<1>8. Total(Durs', Recent(RecsOf(f))') \in Nat
  <2>1. IsFiniteSet(Recent(RecsOf(f))') /\ \A r \in Recent(RecsOf(f))' : Durs'[r] \in Nat
    <3>1. \A r \in Recs : Durs'[r] \in Nat
      BY ContentAssumption DEF TypeOK, RecordingRow, Durs
    <3> QED BY <1>1, <1>2, <3>1, ContentAssumption, FS_Subset
  <2> QED BY <2>1, TotalNat
<1> QED BY <1>3, <1>4, <1>5, <1>6, <1>7, <1>8, SecondsAreTotals

LEMMA AccountCounts ==
    ASSUME TypeOK, TypeOK', RecMoves, NEW u \in Users, NoNewUpload(u)
    PROVE  /\ Cardinality(Recent(ByUser(u)))' \in Nat /\ Cardinality(Recent(ByUser(u))) \in Nat
           /\ Cardinality(Recent(ByUser(u)))' <= Cardinality(Recent(ByUser(u)))
           /\ Seconds(Recent(ByUser(u)))' \in Nat /\ Seconds(Recent(ByUser(u))) \in Nat
           /\ Seconds(Recent(ByUser(u)))' <= Seconds(Recent(ByUser(u)))
<1>1. /\ Recent(ByUser(u))' \subseteq Recent(ByUser(u))
      /\ \A r \in Recent(ByUser(u))' : rec'[r].dur = rec[r].dur
  BY AccountShrinks
<1>2. Recent(ByUser(u)) \in SUBSET Recs
  BY DEF ByUser, Recent
<1>3. /\ Cardinality(Recent(ByUser(u))') <= Cardinality(Recent(ByUser(u)))
      /\ Cardinality(Recent(ByUser(u))') \in Nat /\ Cardinality(Recent(ByUser(u))) \in Nat
  BY <1>1, <1>2, Fewer
<1>4. Total(Durs', Recent(ByUser(u))') <= Total(Durs, Recent(ByUser(u)))
  BY <1>1, <1>2, Shorter
<1>5. Total(Durs, Recent(ByUser(u))) \in Nat
  BY <1>2, CountsAreNat
<1>6. Total(Durs', Recent(ByUser(u))') \in Nat
  <2>1. IsFiniteSet(Recent(ByUser(u))') /\ \A r \in Recent(ByUser(u))' : Durs'[r] \in Nat
    <3>1. \A r \in Recs : Durs'[r] \in Nat
      BY ContentAssumption DEF TypeOK, RecordingRow, Durs
    <3> QED BY <1>1, <1>2, <3>1, ContentAssumption, FS_Subset
  <2> QED BY <2>1, TotalNat
<1> QED BY <1>3, <1>4, <1>5, <1>6, SecondsAreTotals

LEMMA BookCounts ==
    ASSUME BookMoves, NEW f, NoNewBook(f)
    PROVE  /\ Cardinality(ActiveBooks(f))' \in Nat /\ Cardinality(ActiveBooks(f)) \in Nat
           /\ Cardinality(ActiveBooks(f))' <= Cardinality(ActiveBooks(f))
           /\ Cardinality(RecentBooks(f))' \in Nat /\ Cardinality(RecentBooks(f)) \in Nat
           /\ Cardinality(RecentBooks(f))' <= Cardinality(RecentBooks(f))
<1>1. ActiveBooks(f)' \subseteq ActiveBooks(f) /\ RecentBooks(f)' \subseteq RecentBooks(f)
  BY BooksShrink
<1>2. ActiveBooks(f) \in SUBSET Books /\ RecentBooks(f) \in SUBSET Books
  BY DEF ActiveBooks, RecentBooks, BooksOf
<1>3. /\ Cardinality(ActiveBooks(f)') <= Cardinality(ActiveBooks(f))
      /\ Cardinality(ActiveBooks(f)') \in Nat /\ Cardinality(ActiveBooks(f)) \in Nat
  BY <1>1, <1>2, FewerBooks
<1>4. /\ Cardinality(RecentBooks(f)') <= Cardinality(RecentBooks(f))
      /\ Cardinality(RecentBooks(f)') \in Nat /\ Cardinality(RecentBooks(f)) \in Nat
  BY <1>1, <1>2, FewerBooks
<1> QED BY <1>3, <1>4

LEMMA LimitsAreNat ==
    /\ MaxDuration \in Nat /\ MaxActive \in Nat /\ MaxFamilyDaily \in Nat /\ MaxUserDaily \in Nat
    /\ MaxStorage \in Nat /\ MaxUserSeconds \in Nat /\ MaxFamilySeconds \in Nat
    /\ MaxActiveBooks \in Nat /\ MaxBooksDaily \in Nat
BY ContentAssumption

LEMMA AllowedParts ==
    ASSUME NEW u, NEW f, NEW d
    PROVE  /\ RecordingAllowed(u, f, d) <=>
                 /\ Cardinality(Active(f)) < MaxActive
                 /\ Cardinality(Recent(RecsOf(f))) < MaxFamilyDaily
                 /\ Cardinality(Recent(ByUser(u))) < MaxUserDaily
                 /\ Cardinality(RecsOf(f)) + 1 <= MaxStorage
                 /\ d # 0 => /\ Seconds(Recent(ByUser(u))) + d <= MaxUserSeconds
                             /\ Seconds(Recent(RecsOf(f))) + d <= MaxFamilySeconds
           /\ RecordingAllowed(u, f, d)' <=>
                 /\ Cardinality(Active(f))' < MaxActive
                 /\ Cardinality(Recent(RecsOf(f)))' < MaxFamilyDaily
                 /\ Cardinality(Recent(ByUser(u)))' < MaxUserDaily
                 /\ Cardinality(RecsOf(f))' + 1 <= MaxStorage
                 /\ d # 0 => /\ Seconds(Recent(ByUser(u)))' + d <= MaxUserSeconds
                             /\ Seconds(Recent(RecsOf(f)))' + d <= MaxFamilySeconds
           /\ BookAllowed(f) <=>
                 Cardinality(ActiveBooks(f)) < MaxActiveBooks /\ Cardinality(RecentBooks(f)) < MaxBooksDaily
           /\ BookAllowed(f)' <=>
                 Cardinality(ActiveBooks(f))' < MaxActiveBooks /\ Cardinality(RecentBooks(f))' < MaxBooksDaily
BY DEF RecordingAllowed, BookAllowed, Active, ActiveBooks, RecentBooks

LEMMA AllowedKept ==
    ASSUME TypeOK, TypeOK', RecMoves, NEW u \in Users, NEW f, NEW d \in Nat,
           NoNewRecording(f), NoNewUpload(u), RecordingAllowed(u, f, d)
    PROVE  RecordingAllowed(u, f, d)'
BY FamilyCounts, AccountCounts, LimitsAreNat, AllowedParts

LEMMA BookAllowedKept ==
    ASSUME BookMoves, NEW f, NoNewBook(f), BookAllowed(f)
    PROVE  BookAllowed(f)'
BY BookCounts, LimitsAreNat, AllowedParts

\* The limits of one family and of one account.
FamilyWithin(f) ==
    /\ Cardinality(Active(f)) <= MaxActive
    /\ Cardinality(Recent(RecsOf(f))) <= MaxFamilyDaily
    /\ Cardinality(RecsOf(f)) <= MaxStorage
    /\ Seconds(Recent(RecsOf(f))) <= MaxFamilySeconds

AccountWithin(u) ==
    /\ Cardinality(Recent(ByUser(u))) <= MaxUserDaily
    /\ Seconds(Recent(ByUser(u))) <= MaxUserSeconds

BooksWithin(f) ==
    Cardinality(ActiveBooks(f)) <= MaxActiveBooks /\ Cardinality(RecentBooks(f)) <= MaxBooksDaily

LEMMA LimitParts ==
    /\ WithinRecordingLimits <=> (\A f \in Families : FamilyWithin(f)) /\ (\A u \in Users : AccountWithin(u))
    /\ WithinRecordingLimits' <=> (\A f \in Families : FamilyWithin(f)') /\ (\A u \in Users : AccountWithin(u)')
    /\ WithinBookLimits <=> \A f \in Families : BooksWithin(f)
    /\ WithinBookLimits' <=> \A f \in Families : BooksWithin(f)'
BY DEF WithinRecordingLimits, WithinBookLimits, FamilyWithin, AccountWithin, BooksWithin, Active,
       ActiveBooks, RecentBooks

LEMMA FamilyWithinKept ==
    ASSUME TypeOK, TypeOK', RecMoves, NEW f, NoNewRecording(f), FamilyWithin(f)
    PROVE  FamilyWithin(f)'
BY FamilyCounts, LimitsAreNat DEF FamilyWithin

LEMMA AccountWithinKept ==
    ASSUME TypeOK, TypeOK', RecMoves, NEW u \in Users, NoNewUpload(u), AccountWithin(u)
    PROVE  AccountWithin(u)'
BY AccountCounts, LimitsAreNat DEF AccountWithin

LEMMA BooksWithinKept ==
    ASSUME BookMoves, NEW f, NoNewBook(f), BooksWithin(f)
    PROVE  BooksWithin(f)'
BY BookCounts, LimitsAreNat DEF BooksWithin

\* A step that makes nothing exceeds nothing.
LEMMA NothingNew ==
    ASSUME TypeOK, TypeOK', RecMoves, BookMoves, WithinRecordingLimits, WithinBookLimits,
           \A r \in Recs : rec[r].status = "unused" => ~ Live(r)',
           \A b \in Books : book[b].status = "unused" => ~ LiveBook(b)'
    PROVE  WithinRecordingLimits' /\ WithinBookLimits'
<1>1. ASSUME NEW f PROVE NoNewRecording(f) /\ NoNewBook(f) /\ NoNewUpload(f)
  BY DEF NoNewRecording, NoNewBook, NoNewUpload
<1>2. /\ \A f \in Families : FamilyWithin(f) /\ BooksWithin(f)
      /\ \A u \in Users : AccountWithin(u)
  BY LimitParts
<1>3. /\ \A f \in Families : FamilyWithin(f)' /\ BooksWithin(f)'
      /\ \A u \in Users : AccountWithin(u)'
  BY <1>1, <1>2, FamilyWithinKept, AccountWithinKept, BooksWithinKept
<1> QED BY <1>3, LimitParts

-----------------------------------------------------------------------------
(* What a request relies on survives the steps of the others               *)

LEMMA Stable ==
    ASSUME IInv, TypeOK', NEW t \in Threads,
           req'[t] = req[t], held'[t] = held[t], want'[t] = want[t], Spares(t)
    PROVE  Local(t)'
<1> DEFINE q == req[t]
           f == q.family
<1>1. /\ TypeOK /\ NothingLeftBehind /\ q \in RequestRow /\ (q.op = "none" => q.at = "idle")
      /\ Idle(t) /\ Uploading(t) /\ Binding(t) /\ Removing(t) /\ Closing(t) /\ Leaving(t) /\ Touching(t)
  BY Facts
<1>2. /\ Pending(t)' = Pending(t) /\ Asked(t)' = Asked(t) /\ (OneBatch(t) => OneBatch(t)')
      /\ Touches(t)' = Touches(t) /\ SourceRows(t)' = SourceRows(t)
  BY DEF Pending, Asked, OneBatch, Touches, SourceRows
<1>3. /\ families' \subseteq families /\ \A g \in families : FamilyLock(g) \in held[t] => g \in families'
      /\ RecMoves /\ BookMoves
  BY DEF Spares
<1>4. ASSUME NEW g, FamilyLock(g) \in held[t] PROVE NoNewRecording(g) /\ NoNewBook(g)
  BY <1>4 DEF Spares, NoNewRecording, NoNewBook
<1>5. ASSUME NEW u, UserLock(u) \in held[t] PROVE NoNewUpload(u)
  BY <1>5 DEF Spares, NoNewUpload
<1>6. Idle(t)'
  BY <1>1 DEF Idle
<1>7. Uploading(t)'
  <2> SUFFICES ASSUME q.op = "create_recording" PROVE Uploading(t)'
    BY DEF Uploading
  <2>1. rec'[q.on].status = "unused"
    BY <1>1 DEF Uploading, Spares
  <2>2. ASSUME q.at = "publish" PROVE f \in families' /\ RecordingAllowed(q.user, f, q.dur)'
    <3>1. /\ FamilyLock(f) \in held[t] /\ UserLock(q.user) \in held[t] /\ f \in families
          /\ q.user \in Users /\ RecordingAllowed(q.user, f, q.dur)
      BY <1>1, <2>2 DEF Uploading
    <3>2. q.dur \in Nat
      BY <1>1, ContentAssumption DEF RequestRow
    <3>3. NoNewRecording(f) /\ NoNewUpload(q.user)
      BY <1>4, <1>5, <3>1
    <3>4. RecordingAllowed(q.user, f, q.dur)'
      BY <1>1, <1>3, <3>1, <3>2, <3>3, AllowedKept
    <3> QED BY <1>3, <3>1, <3>4
  <2> QED BY <1>1, <1>2, <2>1, <2>2 DEF Uploading
<1>8. Binding(t)'
  <2> SUFFICES ASSUME q.op = "create_book" PROVE Binding(t)'
    BY DEF Binding
  <2>1. book'[q.book].status = "unused"
    BY <1>1 DEF Binding, Spares
  <2>2. ASSUME q.at \in {"sources", "insert"}
        PROVE  /\ f \in families' /\ BookAllowed(f)'
               /\ \A r \in q.sources :
                     rec'[r].status = "deleted" \/ (rec'[r].status = "completed" /\ rec'[r].family = f)
    <3>1. /\ FamilyLock(f) \in held[t] /\ f \in families /\ BookAllowed(f)
          /\ \A r \in q.sources :
                rec[r].status = "deleted" \/ (rec[r].status = "completed" /\ rec[r].family = f)
      BY <1>1, <2>2 DEF Binding
    <3>2. BookAllowed(f)'
      BY <1>3, <1>4, <3>1, BookAllowedKept
    <3>3. q.sources \subseteq Recs
      BY <1>1 DEF RequestRow
    <3>4. ASSUME NEW r \in q.sources
          PROVE  rec'[r].status = "deleted" \/ (rec'[r].status = "completed" /\ rec'[r].family = f)
      BY <1>3, <3>1, <3>3 DEF RecMoves, Live
    <3> QED BY <1>3, <3>1, <3>2, <3>4
  <2>3. ASSUME q.at = "insert" PROVE q.sources \subseteq RecsOf(f)'
    <3>1. FamilyLock(f) \in held[t] /\ SourceRows(t) \subseteq held[t] /\ q.sources \subseteq RecsOf(f)
      BY <1>1, <2>3 DEF Binding
    <3>2. ASSUME NEW r \in q.sources PROVE r \in RecsOf(f)'
      <4>1. RecLock(r) \in held[t] /\ r \in Recs /\ Live(r) /\ rec[r].family = f
        BY <3>1 DEF SourceRows, RecsOf
      <4>2. Live(r)'
        BY <3>1, <4>1 DEF Spares
      <4>3. rec[r].status # "unused"
        BY <4>1 DEF Live
      <4> QED BY <1>3, <4>1, <4>2, <4>3 DEF RecMoves, RecsOf
    <3> QED BY <3>2
  <2> QED BY <1>1, <1>2, <2>1, <2>2, <2>3 DEF Binding
<1>9. Removing(t)'
  <2>1. ASSUME q.op = "delete_recording" PROVE rec'[q.on].status # "unused"
    BY <1>1, <1>3, <2>1 DEF Removing, RecMoves
  <2>2. ASSUME q.op = "delete_book" PROVE book'[q.on].status # "unused"
    BY <1>1, <1>3, <2>2 DEF Removing, BookMoves
  <2> QED BY <1>1, <1>2, <2>1, <2>2 DEF Removing
<1>10. Closing(t)'
  BY <1>1, <1>2, <1>3 DEF Closing
<1>11. Leaving(t)'
  <2>1. Ascending(t) => Ascending(t)'
    BY <1>2 DEF Ascending
  <2> QED BY <1>1, <1>2, <1>3, <2>1 DEF Leaving
<1>12. Touching(t)'
  <2>1. ASSUME NEW r \in Recs, rec[r].status # "unused"
        PROVE  /\ rec'[r].status # "unused" /\ rec'[r].user \in {rec[r].user, NoUser}
               /\ Live(r)' => Live(r) /\ rec'[r].family = rec[r].family
    BY <1>3, <2>1 DEF RecMoves
  <2>2. ASSUME NEW b \in Books, book[b].status # "unused"
        PROVE  /\ book'[b].status # "unused" /\ book'[b].user \in {book[b].user, NoUser}
               /\ LiveBook(b)' => LiveBook(b) /\ book'[b].family = book[b].family
    BY <1>3, <2>2 DEF BookMoves
  <2>3. FamilyOp(t)' <=> FamilyOp(t)
    BY DEF FamilyOp
  <2> QED BY <1>1, <1>2, <2>1, <2>2, <2>3 DEF Touching
<1> QED BY <1>1, <1>6, <1>7, <1>8, <1>9, <1>10, <1>11, <1>12 DEF Local

-----------------------------------------------------------------------------
(* Steps that only lock and read                                           *)

\* What a step leaves the thread that takes it, and between it and the others.
OwnStep(t) ==
    /\ LockTypes' /\ ReqTypes' /\ Disjoint' /\ Others(t) /\ Local(t)'
    /\ \A s \in Threads \ {t} : Apart(s, t)'

\* What it does to the data, and to what the others rely on.
DataStep(t) ==
    /\ TypeOK' /\ WithinRecordingLimits' /\ WithinBookLimits' /\ NothingLeftBehind' /\ Owned'
    /\ \A s \in Threads \ {t} : Spares(s)

LEMMA QuietRows ==
    ASSUME TypeOK, UNCHANGED dataVars
    PROVE  /\ TypeOK' /\ RecMoves /\ BookMoves
           /\ users' = users /\ families' = families /\ rec' = rec /\ book' = book /\ queued' = queued
           /\ \A r : Live(r)' = Live(r)
           /\ \A b : LiveBook(b)' = LiveBook(b)
           /\ \A f : RecsOf(f)' = RecsOf(f) /\ BooksOf(f)' = BooksOf(f)
           /\ \A f : NoNewRecording(f) /\ NoNewUpload(f) /\ NoNewBook(f)
<1>1. users' = users /\ families' = families /\ rec' = rec /\ book' = book /\ queued' = queued
  BY DEF dataVars
<1>2. TypeOK'
  BY <1>1 DEF TypeOK
<1>3. /\ \A r : Live(r)' = Live(r)
      /\ \A b : LiveBook(b)' = LiveBook(b)
  BY <1>1 DEF Live, LiveBook
<1>4. \A f : RecsOf(f)' = RecsOf(f) /\ BooksOf(f)' = BooksOf(f)
  BY <1>1, <1>3 DEF RecsOf, BooksOf
<1>5. RecMoves /\ BookMoves
  BY <1>1 DEF RecMoves, BookMoves, Live, LiveBook
<1>6. \A f : NoNewRecording(f) /\ NoNewUpload(f) /\ NoNewBook(f)
  BY <1>1 DEF NoNewRecording, NoNewUpload, NoNewBook, Live, LiveBook
<1> QED BY <1>1, <1>2, <1>3, <1>4, <1>5, <1>6

LEMMA QuietStep ==
    ASSUME IInv, UNCHANGED dataVars, NEW t \in Threads
    PROVE  DataStep(t)
<1>1. TypeOK /\ WithinRecordingLimits /\ WithinBookLimits /\ NothingLeftBehind /\ Owned
  BY DEF IInv
<1>2. /\ TypeOK' /\ RecMoves /\ BookMoves
      /\ rec' = rec /\ book' = book /\ families' = families /\ queued' = queued
  BY <1>1, QuietRows
<1>3. WithinRecordingLimits' /\ WithinBookLimits'
  BY <1>1, <1>2, NothingNew DEF Live, LiveBook
<1>4. NothingLeftBehind' /\ Owned'
  BY <1>1, <1>2 DEF NothingLeftBehind, Owned, Live, LiveBook
<1> QED BY <1>2, <1>3, <1>4, QuietSpares DEF DataStep

\* A transaction ends.
LEMMA FinishOwn ==
    ASSUME IInv, NEW t \in Threads, Finish(t)
    PROVE  OwnStep(t)
<1>1. /\ LockTypes' /\ ReqTypes' /\ Disjoint' /\ Others(t)
      /\ req'[t] = NoRequest /\ held'[t] = {} /\ want'[t] = <<>>
  BY Facts, FinishStep
<1>2. req'[t].op = "none" /\ req'[t].at = "idle"
  BY <1>1 DEF NoRequest
<1>3. /\ Idle(t)' /\ Uploading(t)' /\ Binding(t)' /\ Removing(t)' /\ Closing(t)' /\ Leaving(t)'
      /\ Touching(t)'
  BY <1>1, <1>2 DEF Idle, Uploading, Binding, Removing, Closing, Leaving, Touching, FamilyOp
<1>4. ASSUME NEW s PROVE Apart(s, t)'
  BY <1>2 DEF Apart, FamilyOp
<1> QED BY <1>1, <1>2, <1>3, <1>4 DEF OwnStep, Local

LEMMA RefuseStep ==
    ASSUME IInv, NEW t \in Threads, Refuse(t)
    PROVE  OwnStep(t) /\ DataStep(t)
BY FinishOwn, QuietStep DEF Refuse

\* A lock is granted.
LEMMA LockNextStep ==
    ASSUME IInv, NEW t \in Threads, LockNext(t)
    PROVE  OwnStep(t) /\ DataStep(t)
<1> DEFINE q == req[t]
           f == q.family
<1>1. /\ TypeOK /\ LockTypes /\ ReqTypes /\ Disjoint /\ q \in RequestRow /\ (q.op = "none" => q.at = "idle")
      /\ Idle(t) /\ Uploading(t) /\ Binding(t) /\ Removing(t) /\ Closing(t) /\ Leaving(t) /\ Touching(t)
      /\ \A s \in Threads \ {t} : Apart(s, t)
  BY Facts
<1>2. LockRow(t) /\ req' = req /\ UNCHANGED dataVars
  BY DEF LockNext
<1>3. /\ LockTypes' /\ Disjoint'
      /\ held[t] \subseteq held'[t] /\ Asked(t)' = Asked(t) /\ Pending(t)' \subseteq Pending(t)
      /\ want[t] # <<>> /\ (OneBatch(t) => OneBatch(t)')
      /\ \A s \in Threads \ {t} : held'[s] = held[s] /\ want'[s] = want[s]
  BY <1>1, <1>2, LockRowStep
<1>4. /\ rec' = rec /\ book' = book /\ families' = families
      /\ RecMoves /\ BookMoves /\ TypeOK'
      /\ \A g : NoNewRecording(g) /\ NoNewUpload(g) /\ NoNewBook(g)
      /\ RecsOf(f)' = RecsOf(f)
      /\ \A r : Live(r)' = Live(r)
      /\ \A b : LiveBook(b)' = LiveBook(b)
  BY <1>1, <1>2, QuietRows
<1>5. Touches(t)' = Touches(t) /\ SourceRows(t)' = SourceRows(t)
  BY <1>2, <1>3 DEF Touches, SourceRows
<1>6. Idle(t)'
  BY <1>1, <1>2, <1>3 DEF Idle
<1>7. Uploading(t)'
  <2> SUFFICES ASSUME q.op = "create_recording" PROVE Uploading(t)'
    BY <1>2 DEF Uploading
  <2>1. ASSUME q.at = "publish" PROVE RecordingAllowed(q.user, f, q.dur)'
    <3>1. q.user \in Users /\ RecordingAllowed(q.user, f, q.dur)
      BY <1>1, <2>1 DEF Uploading
    <3>2. q.dur \in Nat
      BY <1>1, ContentAssumption DEF RequestRow
    <3>3. NoNewRecording(f) /\ NoNewUpload(q.user)
      BY <1>4
    <3> QED BY <1>1, <1>2, <1>4, <3>1, <3>2, <3>3, AllowedKept
  <2> QED BY <1>1, <1>2, <1>3, <1>4, <2>1 DEF Uploading
<1>8. Binding(t)'
  <2> SUFFICES ASSUME q.op = "create_book" PROVE Binding(t)'
    BY <1>2 DEF Binding
  <2>1. BookAllowed(f) => BookAllowed(f)'
    BY <1>2, <1>4, BookAllowedKept
  <2> QED BY <1>1, <1>2, <1>3, <1>4, <1>5, <2>1 DEF Binding
<1>9. Removing(t)' /\ Closing(t)'
  BY <1>1, <1>2, <1>3, <1>4 DEF Removing, Closing
<1>10. Leaving(t)'
  <2>1. Ascending(t) => Ascending(t)'
    BY <1>1, <1>2, LockRowAscends
  <2> QED BY <1>1, <1>2, <1>3, <1>4, <2>1 DEF Leaving
<1>11. Touching(t)'
  BY <1>1, <1>2, <1>3, <1>4, <1>5 DEF Touching, FamilyOp
<1>12. Others(t) /\ ReqTypes'
  BY <1>1, <1>2, <1>3 DEF Others, ReqTypes
<1>13. ASSUME NEW s \in Threads \ {t} PROVE Apart(s, t)'
  <2>1. Asked(s)' = Asked(s) /\ Touches(s)' = Touches(s)
    BY <1>2, <1>3 DEF Asked, Pending, Touches
  <2> QED BY <1>1, <1>2, <1>3, <1>5, <2>1 DEF Apart, FamilyOp
<1>14. Local(t)'
  BY <1>1, <1>2, <1>6, <1>7, <1>8, <1>9, <1>10, <1>11 DEF Local
<1> QED BY <1>2, <1>3, <1>12, <1>13, <1>14, QuietStep DEF OwnStep

-----------------------------------------------------------------------------
(* Requests begin                                                          *)

LEMMA BeginStep ==
    ASSUME IInv, NEW t \in Threads, req[t].at = "idle", NEW r \in RequestRow, NEW s \in Stages,
           NEW rows \in SUBSET RowIds, Begin(t, r, s, rows)
    PROVE  /\ LockTypes' /\ ReqTypes' /\ Disjoint' /\ Others(t) /\ DataStep(t) /\ OneBatch(t)'
           /\ held'[t] = {} /\ Pending(t)' = rows /\ Asked(t)' = rows
           /\ req'[t].at = s /\ req'[t].op = r.op /\ req'[t].user = r.user
           /\ req'[t].family = r.family /\ req'[t].on = r.on /\ req'[t].book = r.book
           /\ req'[t].dur = r.dur /\ req'[t].sources = r.sources
           /\ rec' = rec /\ book' = book /\ families' = families
           /\ \A o \in Threads \ {t} : req'[o] = req[o] /\ Asked(o)' = Asked(o) /\ Touches(o)' = Touches(o)
<1>1. LockTypes /\ ReqTypes /\ Disjoint /\ held[t] = {} /\ TypeOK
  BY Facts DEF Idle
<1>2. Proceed(t, r, s, rows) /\ UNCHANGED dataVars
  BY DEF Begin
<1>3. /\ LockTypes' /\ ReqTypes' /\ Disjoint' /\ Others(t) /\ OneBatch(t)'
      /\ held'[t] = held[t] /\ Pending(t)' = rows \ held[t] /\ Asked(t)' = held[t] \cup rows
      /\ req'[t].at = s /\ req'[t].op = r.op /\ req'[t].user = r.user
      /\ req'[t].family = r.family /\ req'[t].on = r.on /\ req'[t].book = r.book
      /\ req'[t].dur = r.dur /\ req'[t].sources = r.sources
  BY <1>1, <1>2, ProceedStep
<1>4. rec' = rec /\ book' = book /\ families' = families
  BY <1>2 DEF dataVars
<1>5. ASSUME NEW o \in Threads \ {t}
      PROVE  req'[o] = req[o] /\ Asked(o)' = Asked(o) /\ Touches(o)' = Touches(o)
  BY <1>3 DEF Others, Asked, Pending, Touches
<1> QED BY <1>1, <1>2, <1>3, <1>4, <1>5, QuietStep

LEMMA BeginRecordingStep ==
    ASSUME IInv, NEW t \in Threads, req[t].at = "idle", NEW u \in Users, NEW f \in Families, NEW r \in Recs, NEW d \in Durations,
           BeginRecording(t, u, f, r, d)
    PROVE  OwnStep(t) /\ DataStep(t)
<1> DEFINE x == [NoRequest EXCEPT !.op = "create_recording", !.user = u, !.family = f, !.on = r, !.dur = d]
           rows == {UserLock(u)}
<1>1. /\ x \in RequestRow /\ x.op = "create_recording" /\ x.user = u /\ x.family = f /\ x.on = r
      /\ rows \in SUBSET RowIds /\ "user" \in Stages /\ Begin(t, x, "user", rows)
  <2>1. x \in RequestRow /\ x.op = "create_recording" /\ x.user = u /\ x.family = f /\ x.on = r
    <3>1. u \in Users /\ f \in 0..NumFamilies /\ r \in Recs /\ d \in 0..MaxDuration
      BY RowsAreIds, ContentAssumption DEF BeginRecording, Families
    <3>2. NoRequest \in RequestRow
      BY NoRequestType
    <3>3. NoRequest.on = "none"
      BY DEF NoRequest
    <3> QED BY ONLY <3>1, <3>2, <3>3 DEF RequestRow, Ops
  <2>2. rows \in SUBSET RowIds /\ "user" \in Stages
    BY RowsAreIds, ContentAssumption DEF Stages
  <2>3. Begin(t, x, "user", rows)
    BY DEF BeginRecording
  <2> QED BY <2>1, <2>2, <2>3
<1> HIDE DEF x
<1>2. /\ LockTypes' /\ ReqTypes' /\ Disjoint' /\ Others(t) /\ DataStep(t) /\ OneBatch(t)'
      /\ held'[t] = {} /\ Pending(t)' = rows /\ Asked(t)' = rows
      /\ req'[t].at = "user" /\ req'[t].op = x.op /\ req'[t].user = x.user
      /\ req'[t].family = x.family /\ req'[t].on = x.on /\ req'[t].book = x.book
      /\ req'[t].dur = x.dur /\ req'[t].sources = x.sources
      /\ rec' = rec /\ book' = book /\ families' = families
      /\ \A o \in Threads \ {t} : req'[o] = req[o] /\ Asked(o)' = Asked(o) /\ Touches(o)' = Touches(o)
  BY <1>1, BeginStep
<1>3. rec[r].status = "unused" /\ \A s \in Threads : req[s].on # r
  BY DEF BeginRecording
<1>l. Local(t)'
  <2>1. Uploading(t)'
    BY <1>1, <1>2, <1>3 DEF Uploading
  <2>2. /\ Idle(t)' /\ Binding(t)' /\ Removing(t)' /\ Closing(t)' /\ Leaving(t)' /\ Touching(t)'
    BY <1>1, <1>2 DEF Idle, Binding, Removing, Closing, Leaving, Touching, FamilyOp
  <2> QED BY <1>1, <1>2, <2>1, <2>2 DEF Local
<1>a. ASSUME NEW s \in Threads \ {t} PROVE Apart(s, t)'
  BY <1>1, <1>2, <1>3 DEF Apart, FamilyOp
<1> QED BY <1>2, <1>l, <1>a DEF OwnStep

LEMMA BeginBookStep ==
    ASSUME IInv, NEW t \in Threads, req[t].at = "idle", NEW u \in Users, NEW f \in Families, NEW b \in Books, NEW S \in SUBSET Recs,
           BeginBook(t, u, f, b, S)
    PROVE  OwnStep(t) /\ DataStep(t)
<1> DEFINE x == [NoRequest EXCEPT !.op = "create_book", !.user = u, !.family = f, !.book = b, !.sources = S]
           rows == {FamilyLock(f)}
<1>1. /\ x \in RequestRow /\ x.op = "create_book" /\ x.user = u /\ x.family = f /\ x.on = "none" /\ x.book = b
      /\ rows \in SUBSET RowIds /\ "family" \in Stages /\ Begin(t, x, "family", rows)
  <2>1. x \in RequestRow /\ x.op = "create_book" /\ x.user = u /\ x.family = f /\ x.on = "none" /\ x.book = b
    <3>1. u \in Users /\ f \in 0..NumFamilies /\ b \in Books /\ S \in SUBSET Recs
      BY RowsAreIds, ContentAssumption DEF BeginBook, Families
    <3>2. NoRequest \in RequestRow
      BY NoRequestType
    <3>3. NoRequest.on = "none"
      BY DEF NoRequest
    <3> QED BY ONLY <3>1, <3>2, <3>3 DEF RequestRow, Ops
  <2>2. rows \in SUBSET RowIds /\ "family" \in Stages
    BY RowsAreIds, ContentAssumption DEF Stages
  <2>3. Begin(t, x, "family", rows)
    BY DEF BeginBook
  <2> QED BY <2>1, <2>2, <2>3
<1> HIDE DEF x
<1>2. /\ LockTypes' /\ ReqTypes' /\ Disjoint' /\ Others(t) /\ DataStep(t) /\ OneBatch(t)'
      /\ held'[t] = {} /\ Pending(t)' = rows /\ Asked(t)' = rows
      /\ req'[t].at = "family" /\ req'[t].op = x.op /\ req'[t].user = x.user
      /\ req'[t].family = x.family /\ req'[t].on = x.on /\ req'[t].book = x.book
      /\ req'[t].dur = x.dur /\ req'[t].sources = x.sources
      /\ rec' = rec /\ book' = book /\ families' = families
      /\ \A o \in Threads \ {t} : req'[o] = req[o] /\ Asked(o)' = Asked(o) /\ Touches(o)' = Touches(o)
  BY <1>1, BeginStep
<1>3. book[b].status = "unused" /\ \A s \in Threads : req[s].book # b
  BY DEF BeginBook, NewBook
<1>4. Touches(t)' = {}
  BY <1>1, <1>2, ContentDiffers, ContentAssumption DEF Touches
<1>l. Local(t)'
  <2>1. Binding(t)'
    BY <1>1, <1>2, <1>3 DEF Binding
  <2>2. /\ Idle(t)' /\ Uploading(t)' /\ Removing(t)' /\ Closing(t)' /\ Leaving(t)'
    BY <1>1, <1>2 DEF Idle, Uploading, Removing, Closing, Leaving
  <2>3. Touching(t)'
    BY <1>1, <1>2, <1>4 DEF Touching
  <2> QED BY <1>1, <1>2, <2>1, <2>2, <2>3 DEF Local
<1>a. ASSUME NEW s \in Threads \ {t} PROVE Apart(s, t)'
  BY <1>1, <1>2, <1>3, <1>4 DEF Apart, FamilyOp
<1> QED BY <1>2, <1>l, <1>a DEF OwnStep

LEMMA BeginRegenerateStep ==
    ASSUME IInv, NEW t \in Threads, req[t].at = "idle", NEW u \in Users, NEW b \in Books, NEW old \in Books, NEW S \in SUBSET Recs,
           BeginRegenerate(t, u, b, old, S)
    PROVE  OwnStep(t) /\ DataStep(t)
<1> DEFINE x == [NoRequest EXCEPT !.op = "create_book", !.user = u, !.family = book[old].family, !.book = b, !.sources = S, !.on = old]
           rows == {FamilyLock(book[old].family)}
<1>0. LiveBook(old) /\ book[old].family \in Families
  BY Facts DEF BeginRegenerate, NothingLeftBehind, TypeOK
<1>1. /\ x \in RequestRow /\ x.op = "create_book" /\ x.user = u /\ x.family = book[old].family /\ x.on = old /\ x.book = b
      /\ rows \in SUBSET RowIds /\ "family" \in Stages /\ Begin(t, x, "family", rows)
  <2>1. x \in RequestRow /\ x.op = "create_book" /\ x.user = u /\ x.family = book[old].family /\ x.on = old /\ x.book = b
    <3>1. u \in Users /\ book[old].family \in 0..NumFamilies /\ b \in Books /\ old \in Books /\ S \in SUBSET Recs
      BY <1>0, RowsAreIds, ContentAssumption DEF BeginRegenerate, Families
    <3>2. NoRequest \in RequestRow
      BY NoRequestType
    <3>3. NoRequest.on = "none"
      BY DEF NoRequest
    <3> QED BY ONLY <3>1, <3>2, <3>3 DEF RequestRow, Ops
  <2>2. rows \in SUBSET RowIds /\ "family" \in Stages
    BY <1>0, RowsAreIds, ContentAssumption DEF Stages
  <2>3. Begin(t, x, "family", rows)
    BY DEF BeginRegenerate
  <2> QED BY <2>1, <2>2, <2>3
<1> HIDE DEF x
<1>2. /\ LockTypes' /\ ReqTypes' /\ Disjoint' /\ Others(t) /\ DataStep(t) /\ OneBatch(t)'
      /\ held'[t] = {} /\ Pending(t)' = rows /\ Asked(t)' = rows
      /\ req'[t].at = "family" /\ req'[t].op = x.op /\ req'[t].user = x.user
      /\ req'[t].family = x.family /\ req'[t].on = x.on /\ req'[t].book = x.book
      /\ req'[t].dur = x.dur /\ req'[t].sources = x.sources
      /\ rec' = rec /\ book' = book /\ families' = families
      /\ \A o \in Threads \ {t} : req'[o] = req[o] /\ Asked(o)' = Asked(o) /\ Touches(o)' = Touches(o)
  BY <1>1, BeginStep
<1>3. book[b].status = "unused" /\ \A s \in Threads : req[s].book # b
  BY DEF BeginRegenerate, NewBook
<1>4. Touches(t)' = {BookLock(old)}
  BY <1>1, <1>2, ContentDiffers DEF Touches
<1>l. Local(t)'
  <2>1. Binding(t)'
    BY <1>1, <1>2, <1>3, <1>0 DEF Binding
  <2>2. /\ Idle(t)' /\ Uploading(t)' /\ Removing(t)' /\ Closing(t)' /\ Leaving(t)'
    BY <1>1, <1>2 DEF Idle, Uploading, Removing, Closing, Leaving
  <2>3. Touching(t)'
    BY <1>0, <1>1, <1>2, <1>4, RowsDiffer DEF Touching, LiveBook
  <2> QED BY <1>1, <1>2, <2>1, <2>2, <2>3 DEF Local
<1>a. ASSUME NEW s \in Threads \ {t} PROVE Apart(s, t)'
  <2>1. FamilyOp(s) /\ BookLock(old) \in Touches(s) => req[s].family = book[old].family
    BY <1>0, Facts DEF Touching, Local
  <2> QED BY <1>1, <1>2, <1>3, <1>4, <2>1 DEF Apart, FamilyOp
<1> QED BY <1>2, <1>l, <1>a DEF OwnStep

LEMMA BeginDeleteRecordingStep ==
    ASSUME IInv, NEW t \in Threads, req[t].at = "idle", NEW r \in Recs,
           BeginDeleteRecording(t, r)
    PROVE  OwnStep(t) /\ DataStep(t)
<1> DEFINE x == [NoRequest EXCEPT !.op = "delete_recording", !.on = r]
           rows == {RecLock(r)}
<1>1. /\ x \in RequestRow /\ x.op = "delete_recording" /\ x.on = r
      /\ rows \in SUBSET RowIds /\ "commit" \in Stages /\ Begin(t, x, "commit", rows)
  <2>1. x \in RequestRow /\ x.op = "delete_recording" /\ x.on = r
    <3>1. r \in Recs
      BY RowsAreIds, ContentAssumption DEF BeginDeleteRecording, Families
    <3>2. NoRequest \in RequestRow
      BY NoRequestType
    <3>3. NoRequest.on = "none"
      BY DEF NoRequest
    <3> QED BY ONLY <3>1, <3>2, <3>3 DEF RequestRow, Ops
  <2>2. rows \in SUBSET RowIds /\ "commit" \in Stages
    BY RowsAreIds, ContentAssumption DEF Stages
  <2>3. Begin(t, x, "commit", rows)
    BY DEF BeginDeleteRecording
  <2> QED BY <2>1, <2>2, <2>3
<1> HIDE DEF x
<1>2. /\ LockTypes' /\ ReqTypes' /\ Disjoint' /\ Others(t) /\ DataStep(t) /\ OneBatch(t)'
      /\ held'[t] = {} /\ Pending(t)' = rows /\ Asked(t)' = rows
      /\ req'[t].at = "commit" /\ req'[t].op = x.op /\ req'[t].user = x.user
      /\ req'[t].family = x.family /\ req'[t].on = x.on /\ req'[t].book = x.book
      /\ req'[t].dur = x.dur /\ req'[t].sources = x.sources
      /\ rec' = rec /\ book' = book /\ families' = families
      /\ \A o \in Threads \ {t} : req'[o] = req[o] /\ Asked(o)' = Asked(o) /\ Touches(o)' = Touches(o)
  BY <1>1, BeginStep
<1>l. Local(t)'
  <2>1. Live(r)
    BY DEF BeginDeleteRecording
  <2>2. Removing(t)'
    BY <1>1, <1>2, <2>1 DEF Removing, Live
  <2>3. /\ Idle(t)' /\ Uploading(t)' /\ Binding(t)' /\ Closing(t)' /\ Leaving(t)' /\ Touching(t)'
    BY <1>1, <1>2 DEF Idle, Uploading, Binding, Closing, Leaving, Touching, FamilyOp
  <2> QED BY <1>1, <1>2, <2>2, <2>3 DEF Local
<1>a. ASSUME NEW s \in Threads \ {t} PROVE Apart(s, t)'
  BY <1>1, <1>2 DEF Apart, FamilyOp
<1> QED BY <1>2, <1>l, <1>a DEF OwnStep

LEMMA BeginDeleteBookStep ==
    ASSUME IInv, NEW t \in Threads, req[t].at = "idle", NEW b \in Books,
           BeginDeleteBook(t, b)
    PROVE  OwnStep(t) /\ DataStep(t)
<1> DEFINE x == [NoRequest EXCEPT !.op = "delete_book", !.on = b]
           rows == {BookLock(b)}
<1>1. /\ x \in RequestRow /\ x.op = "delete_book" /\ x.on = b
      /\ rows \in SUBSET RowIds /\ "commit" \in Stages /\ Begin(t, x, "commit", rows)
  <2>1. x \in RequestRow /\ x.op = "delete_book" /\ x.on = b
    <3>1. b \in Books
      BY RowsAreIds, ContentAssumption DEF BeginDeleteBook, Families
    <3>2. NoRequest \in RequestRow
      BY NoRequestType
    <3>3. NoRequest.on = "none"
      BY DEF NoRequest
    <3> QED BY ONLY <3>1, <3>2, <3>3 DEF RequestRow, Ops
  <2>2. rows \in SUBSET RowIds /\ "commit" \in Stages
    BY RowsAreIds, ContentAssumption DEF Stages
  <2>3. Begin(t, x, "commit", rows)
    BY DEF BeginDeleteBook
  <2> QED BY <2>1, <2>2, <2>3
<1> HIDE DEF x
<1>2. /\ LockTypes' /\ ReqTypes' /\ Disjoint' /\ Others(t) /\ DataStep(t) /\ OneBatch(t)'
      /\ held'[t] = {} /\ Pending(t)' = rows /\ Asked(t)' = rows
      /\ req'[t].at = "commit" /\ req'[t].op = x.op /\ req'[t].user = x.user
      /\ req'[t].family = x.family /\ req'[t].on = x.on /\ req'[t].book = x.book
      /\ req'[t].dur = x.dur /\ req'[t].sources = x.sources
      /\ rec' = rec /\ book' = book /\ families' = families
      /\ \A o \in Threads \ {t} : req'[o] = req[o] /\ Asked(o)' = Asked(o) /\ Touches(o)' = Touches(o)
  BY <1>1, BeginStep
<1>l. Local(t)'
  <2>1. LiveBook(b)
    BY DEF BeginDeleteBook
  <2>2. Removing(t)'
    BY <1>1, <1>2, <2>1 DEF Removing, LiveBook
  <2>3. /\ Idle(t)' /\ Uploading(t)' /\ Binding(t)' /\ Closing(t)' /\ Leaving(t)' /\ Touching(t)'
    BY <1>1, <1>2 DEF Idle, Uploading, Binding, Closing, Leaving, Touching, FamilyOp
  <2> QED BY <1>1, <1>2, <2>2, <2>3 DEF Local
<1>a. ASSUME NEW s \in Threads \ {t} PROVE Apart(s, t)'
  BY <1>1, <1>2 DEF Apart, FamilyOp
<1> QED BY <1>2, <1>l, <1>a DEF OwnStep

LEMMA BeginDeleteFamilyStep ==
    ASSUME IInv, NEW t \in Threads, req[t].at = "idle", NEW f \in Families,
           BeginDeleteFamily(t, f)
    PROVE  OwnStep(t) /\ DataStep(t)
<1> DEFINE x == [NoRequest EXCEPT !.op = "delete_family", !.family = f]
           rows == {FamilyLock(f)}
<1>1. /\ x \in RequestRow /\ x.op = "delete_family" /\ x.on = "none" /\ x.family = f
      /\ rows \in SUBSET RowIds /\ "recordings" \in Stages /\ Begin(t, x, "recordings", rows)
  <2>1. x \in RequestRow /\ x.op = "delete_family" /\ x.on = "none" /\ x.family = f
    <3>1. f \in 0..NumFamilies
      BY RowsAreIds, ContentAssumption DEF BeginDeleteFamily, Families
    <3>2. NoRequest \in RequestRow
      BY NoRequestType
    <3>3. NoRequest.on = "none"
      BY DEF NoRequest
    <3> QED BY ONLY <3>1, <3>2, <3>3 DEF RequestRow, Ops
  <2>2. rows \in SUBSET RowIds /\ "recordings" \in Stages
    BY RowsAreIds, ContentAssumption DEF Stages
  <2>3. Begin(t, x, "recordings", rows)
    BY DEF BeginDeleteFamily
  <2> QED BY <2>1, <2>2, <2>3
<1> HIDE DEF x
<1>2. /\ LockTypes' /\ ReqTypes' /\ Disjoint' /\ Others(t) /\ DataStep(t) /\ OneBatch(t)'
      /\ held'[t] = {} /\ Pending(t)' = rows /\ Asked(t)' = rows
      /\ req'[t].at = "recordings" /\ req'[t].op = x.op /\ req'[t].user = x.user
      /\ req'[t].family = x.family /\ req'[t].on = x.on /\ req'[t].book = x.book
      /\ req'[t].dur = x.dur /\ req'[t].sources = x.sources
      /\ rec' = rec /\ book' = book /\ families' = families
      /\ \A o \in Threads \ {t} : req'[o] = req[o] /\ Asked(o)' = Asked(o) /\ Touches(o)' = Touches(o)
  BY <1>1, BeginStep
<1>4. Touches(t)' = {}
  BY <1>1, <1>2, ContentDiffers, ContentAssumption DEF Touches
<1>l. Local(t)'
  <2>1. Closing(t)'
    BY <1>1, <1>2 DEF Closing
  <2>2. /\ Idle(t)' /\ Uploading(t)' /\ Binding(t)' /\ Removing(t)' /\ Leaving(t)'
    BY <1>1, <1>2 DEF Idle, Uploading, Binding, Removing, Leaving
  <2>3. Touching(t)'
    BY <1>1, <1>2, <1>4 DEF Touching
  <2> QED BY <1>1, <1>2, <2>1, <2>2, <2>3 DEF Local
<1>a. ASSUME NEW s \in Threads \ {t} PROVE Apart(s, t)'
  BY <1>1, <1>2, <1>4 DEF Apart, FamilyOp
<1> QED BY <1>2, <1>l, <1>a DEF OwnStep

LEMMA BeginDeleteAccountStep ==
    ASSUME IInv, NEW t \in Threads, req[t].at = "idle", NEW u \in Users,
           BeginDeleteAccount(t, u)
    PROVE  OwnStep(t) /\ DataStep(t)
<1> DEFINE x == [NoRequest EXCEPT !.op = "delete_account", !.user = u]
           rows == {UserLock(u)}
<1>1. /\ x \in RequestRow /\ x.op = "delete_account" /\ x.user = u
      /\ rows \in SUBSET RowIds /\ "families" \in Stages /\ Begin(t, x, "families", rows)
  <2>1. x \in RequestRow /\ x.op = "delete_account" /\ x.user = u
    <3>1. u \in Users
      BY RowsAreIds, ContentAssumption DEF BeginDeleteAccount, Families
    <3>2. NoRequest \in RequestRow
      BY NoRequestType
    <3>3. NoRequest.on = "none"
      BY DEF NoRequest
    <3> QED BY ONLY <3>1, <3>2, <3>3 DEF RequestRow, Ops
  <2>2. rows \in SUBSET RowIds /\ "families" \in Stages
    BY RowsAreIds, ContentAssumption DEF Stages
  <2>3. Begin(t, x, "families", rows)
    BY DEF BeginDeleteAccount
  <2> QED BY <2>1, <2>2, <2>3
<1> HIDE DEF x
<1>2. /\ LockTypes' /\ ReqTypes' /\ Disjoint' /\ Others(t) /\ DataStep(t) /\ OneBatch(t)'
      /\ held'[t] = {} /\ Pending(t)' = rows /\ Asked(t)' = rows
      /\ req'[t].at = "families" /\ req'[t].op = x.op /\ req'[t].user = x.user
      /\ req'[t].family = x.family /\ req'[t].on = x.on /\ req'[t].book = x.book
      /\ req'[t].dur = x.dur /\ req'[t].sources = x.sources
      /\ rec' = rec /\ book' = book /\ families' = families
      /\ \A o \in Threads \ {t} : req'[o] = req[o] /\ Asked(o)' = Asked(o) /\ Touches(o)' = Touches(o)
  BY <1>1, BeginStep
<1>4. \A y \in Asked(t)' : y \notin ContentIds
  BY <1>2, ContentDiffers
<1>l. Local(t)'
  <2>1. Leaving(t)'
    BY <1>1, <1>2 DEF Leaving
  <2>2. /\ Idle(t)' /\ Uploading(t)' /\ Binding(t)' /\ Removing(t)' /\ Closing(t)'
    BY <1>1, <1>2 DEF Idle, Uploading, Binding, Removing, Closing
  <2>3. Touching(t)'
    BY <1>1, <1>2, <1>4, RowsAreIds DEF Touching, FamilyOp
  <2> QED BY <1>1, <1>2, <2>1, <2>2, <2>3 DEF Local
<1>a. ASSUME NEW s \in Threads \ {t} PROVE Apart(s, t)'
  BY <1>1, <1>2, <1>4 DEF Apart, FamilyOp
<1> QED BY <1>2, <1>l, <1>a DEF OwnStep

-----------------------------------------------------------------------------
(* Statements that only lock and read                                      *)

LEMMA AdvanceStep ==
    ASSUME IInv, NEW t \in Threads, NEW r \in RequestRow, NEW s \in Stages,
           NEW rows \in SUBSET RowIds, UNCHANGED dataVars, Proceed(t, r, s, rows)
    PROVE  /\ LockTypes' /\ ReqTypes' /\ Disjoint' /\ Others(t) /\ DataStep(t) /\ OneBatch(t)'
           /\ held'[t] = held[t] /\ Pending(t)' = rows \ held[t] /\ Asked(t)' = held[t] \cup rows
           /\ req'[t].at = s /\ req'[t].op = r.op /\ req'[t].user = r.user
           /\ req'[t].family = r.family /\ req'[t].on = r.on /\ req'[t].book = r.book
           /\ req'[t].dur = r.dur /\ req'[t].sources = r.sources
           /\ rec' = rec /\ book' = book /\ families' = families
<1>1. LockTypes /\ ReqTypes /\ Disjoint
  BY Facts
<1>2. rec' = rec /\ book' = book /\ families' = families
  BY DEF dataVars
<1> QED BY <1>1, <1>2, ProceedStep, QuietStep

\* What a request newly asks for is its family's.
LEMMA FamilyApart ==
    ASSUME IInv, NEW t \in Threads, NEW s \in Threads \ {t}, Others(t), FamilyOp(t),
           req'[t].op = req[t].op, req'[t].family = req[t].family, req'[t].on = req[t].on,
           req'[t].book = req[t].book,
           \A y \in Asked(t)' \cap ContentIds :
              \/ y \in Touches(t)
              \/ \E r \in Recs : y = RecLock(r) /\ Live(r) /\ rec[r].family = req[t].family
              \/ \E b \in Books : y = BookLock(b) /\ LiveBook(b) /\ book[b].family = req[t].family
    PROVE  Apart(s, t)'
<1>1. Apart(s, t) /\ Touching(s)
  BY Facts DEF Local
<1>2. /\ req'[s] = req[s] /\ Asked(s)' = Asked(s) /\ Touches(s)' = Touches(s)
  BY DEF Others, Asked, Pending, Touches
<1>3. ASSUME FamilyOp(s), NEW y \in Touches(s), y \in Touches(t)'
      PROVE  req[s].family = req[t].family
  <2>1. y \in Touches(t) \/ y \in Asked(t)' \cap ContentIds
    BY <1>3 DEF Touches
  <2>2. CASE y \in Touches(t)
    BY <1>1, <1>3, <2>2 DEF Apart
  <2>3. ASSUME NEW r \in Recs, y = RecLock(r), Live(r), rec[r].family = req[t].family
        PROVE  req[s].family = req[t].family
    BY <1>1, <1>3, <2>3 DEF Touching
  <2>4. ASSUME NEW b \in Books, y = BookLock(b), LiveBook(b), book[b].family = req[t].family
        PROVE  req[s].family = req[t].family
    BY <1>1, <1>3, <2>4 DEF Touching
  <2> QED BY <2>1, <2>2, <2>3, <2>4
<1> QED BY <1>1, <1>2, <1>3 DEF Apart, FamilyOp

LEMMA RecordingUserStep ==
    ASSUME IInv, NEW t \in Threads, RecordingUser(t)
    PROVE  OwnStep(t) /\ DataStep(t)
<1> DEFINE q == req[t]
<1>1. /\ q.op = "create_recording" /\ q.at = "user" /\ want[t] = <<>> /\ Asked(t) = held[t]
      /\ UNCHANGED dataVars
  BY GrantedHolds DEF RecordingUser
<1>2. q \in RequestRow /\ Uploading(t) /\ \A s \in Threads \ {t} : Apart(s, t)
  BY Facts
<1>3. held[t] = {UserLock(q.user)} /\ q.user \in Users /\ q.family \in Families /\ q.on \in Recs
      /\ rec[q.on].status = "unused"
  BY <1>1, <1>2 DEF Uploading
<1>4. CASE Proceed(t, q, "family", {FamilyLock(q.family)})
  <2>1. {FamilyLock(q.family)} \in SUBSET RowIds /\ "family" \in Stages
    BY <1>3, RowsAreIds DEF Stages
  <2>2. /\ LockTypes' /\ ReqTypes' /\ Disjoint' /\ Others(t) /\ DataStep(t) /\ OneBatch(t)'
        /\ held'[t] = held[t] /\ Asked(t)' = held[t] \cup {FamilyLock(q.family)}
        /\ req'[t].at = "family" /\ req'[t].op = q.op /\ req'[t].user = q.user
        /\ req'[t].family = q.family /\ req'[t].on = q.on /\ req'[t].book = q.book
        /\ rec' = rec
    BY <1>1, <1>2, <1>4, <2>1, AdvanceStep
  <2>3. Uploading(t)'
    BY <1>1, <1>3, <2>2 DEF Uploading
  <2>4. /\ Idle(t)' /\ Binding(t)' /\ Removing(t)' /\ Closing(t)' /\ Leaving(t)' /\ Touching(t)'
    BY <1>1, <2>2 DEF Idle, Binding, Removing, Closing, Leaving, Touching, FamilyOp
  <2>5. ASSUME NEW s \in Threads \ {t} PROVE Apart(s, t)'
    BY <1>1, <1>2, <2>2 DEF Apart, FamilyOp, Others
  <2> QED BY <1>1, <2>2, <2>3, <2>4, <2>5 DEF OwnStep, Local
<1>5. CASE Finish(t)
  BY <1>1, <1>5, RefuseStep DEF Refuse
<1> QED BY <1>4, <1>5 DEF RecordingUser

LEMMA RecordingQuotaStep ==
    ASSUME IInv, NEW t \in Threads, RecordingQuota(t)
    PROVE  OwnStep(t) /\ DataStep(t)
<1> DEFINE q == req[t]
<1>1. /\ q.op = "create_recording" /\ q.at = "family" /\ want[t] = <<>> /\ Asked(t) = held[t]
      /\ UNCHANGED dataVars
  BY GrantedHolds DEF RecordingQuota
<1>2. TypeOK /\ q \in RequestRow /\ Uploading(t) /\ \A s \in Threads \ {t} : Apart(s, t)
  BY Facts
<1>3. /\ held[t] = {UserLock(q.user), FamilyLock(q.family)} /\ q.user \in Users /\ q.family \in Families
      /\ q.on \in Recs /\ rec[q.on].status = "unused"
  BY <1>1, <1>2 DEF Uploading
<1>4. CASE q.family \in families /\ RecordingAllowed(q.user, q.family, q.dur) /\ Proceed(t, q, "publish", {})
  <2> DEFINE rows == {}
  <2>1. rows \in SUBSET RowIds /\ "publish" \in Stages /\ Proceed(t, q, "publish", rows)
    BY <1>4 DEF Stages
  <2>r. held[t] \cup rows = held[t]
    OBVIOUS
  <2> HIDE DEF rows
  <2>2. /\ LockTypes' /\ ReqTypes' /\ Disjoint' /\ Others(t) /\ DataStep(t) /\ OneBatch(t)'
        /\ held'[t] = held[t] /\ Asked(t)' = held[t] \cup rows
        /\ req'[t].at = "publish" /\ req'[t].op = q.op /\ req'[t].user = q.user
        /\ req'[t].family = q.family /\ req'[t].on = q.on /\ req'[t].book = q.book /\ req'[t].dur = q.dur
        /\ rec' = rec /\ families' = families
    BY <1>1, <1>2, <2>1, AdvanceStep
  <2>3. RecordingAllowed(q.user, q.family, q.dur)'
    <3>1. TypeOK' /\ RecMoves /\ NoNewRecording(q.family) /\ NoNewUpload(q.user)
      BY <1>1, <1>2, QuietRows
    <3>2. q.dur \in Nat /\ q.user \in Users
      BY <1>2, <1>3, ContentAssumption DEF RequestRow
    <3>3. ASSUME NEW d, d = q.dur PROVE q'.dur = d
      BY <2>2, <3>3
    <3>4. TypeOK /\ q.user = req'[t].user /\ q.family = req'[t].family /\ q.dur = req'[t].dur
      BY <1>2, <2>2
    <3> QED BY <1>4, <3>1, <3>2, <3>4, AllowedKept
  <2>4. Uploading(t)'
    BY <1>1, <1>3, <1>4, <2>2, <2>3, <2>r DEF Uploading
  <2>5. /\ Idle(t)' /\ Binding(t)' /\ Removing(t)' /\ Closing(t)' /\ Leaving(t)' /\ Touching(t)'
    BY <1>1, <2>2 DEF Idle, Binding, Removing, Closing, Leaving, Touching, FamilyOp
  <2>6. ASSUME NEW s \in Threads \ {t} PROVE Apart(s, t)'
    BY <1>1, <1>2, <2>2 DEF Apart, FamilyOp, Others
  <2> QED BY <1>1, <2>2, <2>4, <2>5, <2>6 DEF OwnStep, Local
<1>5. CASE Finish(t)
  BY <1>1, <1>5, RefuseStep DEF Refuse
<1> QED BY <1>4, <1>5 DEF RecordingQuota

LEMMA BookQuotaStep ==
    ASSUME IInv, NEW t \in Threads, BookQuota(t)
    PROVE  OwnStep(t) /\ DataStep(t)
<1> DEFINE q == req[t]
           f == q.family
           S == ResolvedSources(f, q.sources)
           x == [q EXCEPT !.sources = S]
           rows == {RecLock(r) : r \in S}
<1>1. /\ q.op = "create_book" /\ q.at = "family" /\ want[t] = <<>> /\ Asked(t) = held[t]
      /\ UNCHANGED dataVars
  BY GrantedHolds DEF BookQuota
<1>2. TypeOK /\ q \in RequestRow /\ Binding(t) /\ Touching(t) /\ \A s \in Threads \ {t} : Apart(s, t)
  BY Facts
<1>3. /\ held[t] = {FamilyLock(f)} /\ q.user \in Users /\ f \in Families /\ q.book \in Books
      /\ q.on \in Books \cup {"none"} /\ book[q.book].status = "unused"
  BY <1>1, <1>2 DEF Binding
<1>4. CASE f \in families /\ BookAllowed(f) /\ SourcesOk(f, S) /\ Proceed(t, x, "sources", rows)
  <2>1. S # {} /\ S \subseteq Recs /\ \A r \in S : Live(r) /\ rec[r].status = "completed" /\ rec[r].family = f
    BY <1>4 DEF SourcesOk, Eligible, RecsOf
  <2> HIDE DEF S
  <2>2. /\ x \in RequestRow
        /\ x.op = q.op /\ x.user = q.user /\ x.family = f /\ x.on = q.on /\ x.book = q.book /\ x.sources = S
    BY <1>2, <2>1 DEF RequestRow
  <2>3. rows \in SUBSET RowIds /\ "sources" \in Stages
    BY <2>1, RowsAreIds DEF Stages
  <2> HIDE DEF x
  <2>4. /\ LockTypes' /\ ReqTypes' /\ Disjoint' /\ Others(t) /\ DataStep(t) /\ OneBatch(t)'
        /\ held'[t] = held[t] /\ Asked(t)' = held[t] \cup rows
        /\ req'[t].at = "sources" /\ req'[t].op = q.op /\ req'[t].user = q.user
        /\ req'[t].family = f /\ req'[t].on = q.on /\ req'[t].book = q.book /\ req'[t].sources = S
        /\ rec' = rec /\ book' = book /\ families' = families
    BY <1>1, <1>4, <2>2, <2>3, AdvanceStep
  <2>5. BookAllowed(f)'
    <3>1. BookMoves /\ NoNewBook(f)
      BY <1>1, <1>2, QuietRows
    <3>2. f = req'[t].family
      BY <2>4
    <3> QED BY <1>4, <3>1, <3>2, BookAllowedKept
  <2>6. SourceRows(t)' = rows
    BY <2>4 DEF SourceRows
  <2>7. Binding(t)'
    BY <1>1, <1>3, <1>4, <2>1, <2>4, <2>5, <2>6 DEF Binding
  <2>8. ASSUME NEW y \in Asked(t)' \cap ContentIds
        PROVE  \E r \in S : y = RecLock(r)
    BY <1>3, <2>4, <2>8, ContentDiffers
  <2>9. Touching(t)'
    <3>1. ASSUME NEW r \in Recs, RecLock(r) \in Touches(t)'
          PROVE  rec[r].status # "unused" /\ rec[r].family = f
      <4>1. RecLock(r) \in Asked(t)' \cap ContentIds
        BY <3>1, RowsDiffer DEF Touches
      <4>2. r \in S
        BY <2>8, <4>1, RowsDiffer
      <4> QED BY <2>1, <4>2
    <3>2. ASSUME NEW b \in Books, BookLock(b) \in Touches(t)'
          PROVE  BookLock(b) \in Touches(t)
      <4>1. BookLock(b) \notin Asked(t)' \cap ContentIds
        BY <2>8, RowsDiffer
      <4> QED BY <2>4, <3>2, <4>1 DEF Touches
    <3>3. /\ \A r : Live(r)' = Live(r)
          /\ \A b : LiveBook(b)' = LiveBook(b)
      BY <1>1, <1>2, QuietRows
    <3> QED BY <1>1, <1>2, <2>4, <3>1, <3>2, <3>3 DEF Touching, FamilyOp
  <2>10. /\ Idle(t)' /\ Uploading(t)' /\ Removing(t)' /\ Closing(t)' /\ Leaving(t)'
    BY <1>1, <2>4 DEF Idle, Uploading, Removing, Closing, Leaving
  <2>11. ASSUME NEW s \in Threads \ {t} PROVE Apart(s, t)'
    <3>1. \A y \in Asked(t)' \cap ContentIds :
             \E r \in Recs : y = RecLock(r) /\ Live(r) /\ rec[r].family = f
      BY <2>1, <2>8
    <3> QED BY <1>1, <2>4, <3>1, FamilyApart DEF FamilyOp
  <2> QED BY <1>1, <2>4, <2>7, <2>9, <2>10, <2>11 DEF OwnStep, Local
<1>5. CASE Finish(t)
  BY <1>1, <1>5, RefuseStep DEF Refuse
<1> QED BY <1>4, <1>5 DEF BookQuota

LEMMA LockSourcesStep ==
    ASSUME IInv, NEW t \in Threads, LockSources(t)
    PROVE  OwnStep(t) /\ DataStep(t)
<1> DEFINE q == req[t]
           f == q.family
           S == q.sources
           rows == {UserLock(q.user)} \cup (IF q.on \in Books THEN {BookLock(q.on)} ELSE {})
<1>1. /\ q.op = "create_book" /\ q.at = "sources" /\ want[t] = <<>> /\ Asked(t) = held[t]
      /\ UNCHANGED dataVars
  BY GrantedHolds DEF LockSources
<1>2. TypeOK /\ q \in RequestRow /\ Binding(t) /\ Touching(t) /\ \A s \in Threads \ {t} : Apart(s, t)
  BY Facts
<1>3. /\ held[t] = {FamilyLock(f)} \cup SourceRows(t)
      /\ q.user \in Users /\ f \in Families /\ q.book \in Books /\ f \in families /\ BookAllowed(f)
      /\ q.on \in Books \cup {"none"} /\ book[q.book].status = "unused" /\ S # {} /\ S \subseteq Recs
      /\ FamilyLock(f) \in held[t]
      /\ \A r \in S : rec[r].status = "deleted" \/ (rec[r].status = "completed" /\ rec[r].family = f)
  BY <1>1, <1>2 DEF Binding, RequestRow
<1>4. CASE S \subseteq RecsOf(f) /\ Proceed(t, q, "insert", rows)
  <2>1. rows \in SUBSET RowIds /\ "insert" \in Stages
    BY <1>3, RowsAreIds DEF Stages
  <2>2. /\ LockTypes' /\ ReqTypes' /\ Disjoint' /\ Others(t) /\ DataStep(t) /\ OneBatch(t)'
        /\ held'[t] = held[t] /\ Pending(t)' = rows \ held[t] /\ Asked(t)' = held[t] \cup rows
        /\ req'[t].at = "insert" /\ req'[t].op = q.op /\ req'[t].user = q.user
        /\ req'[t].family = f /\ req'[t].on = q.on /\ req'[t].book = q.book /\ req'[t].sources = S
        /\ rec' = rec /\ book' = book /\ families' = families
    BY <1>1, <1>2, <1>4, <2>1, AdvanceStep
  <2>3. BookAllowed(f)' /\ RecsOf(f)' = RecsOf(f)
    <3>1. BookMoves /\ NoNewBook(f) /\ RecsOf(f)' = RecsOf(req[t].family)'
      BY <1>1, <1>2, <2>2, QuietRows
    <3>2. f = req'[t].family
      BY <2>2
    <3>3. BookAllowed(f)'
      BY <1>3, <3>1, <3>2, BookAllowedKept
    <3>4. \A g : RecsOf(g)' = RecsOf(g)
      BY <1>1, <1>2, QuietRows
    <3> QED BY <3>2, <3>3, <3>4
  <2>4. SourceRows(t)' = SourceRows(t)
    BY <2>2 DEF SourceRows
  <2>5. /\ Asked(t)' \subseteq {FamilyLock(f), UserLock(q.user)} \cup ContentIds
        /\ Pending(t)' \subseteq {UserLock(q.user), BookLock(q.on)}
    <3>1. SourceRows(t) \subseteq ContentIds
      BY <1>3, RowsAreIds DEF SourceRows
    <3>2. rows \subseteq {UserLock(q.user), BookLock(q.on)} /\ rows \subseteq {UserLock(q.user)} \cup ContentIds
      BY RowsAreIds
    <3> HIDE DEF rows
    <3> QED BY <1>3, <2>2, <3>1, <3>2
  <2>6. Binding(t)'
    <3>1. SourceRows(t)' \subseteq held'[t] /\ S \subseteq RecsOf(f)'
      BY <1>3, <1>4, <2>2, <2>3, <2>4
    <3>2. /\ FamilyLock(f) \in held'[t] /\ f \in families' /\ BookAllowed(f)' /\ S # {}
          /\ \A r \in S : rec'[r].status = "deleted" \/ (rec'[r].status = "completed" /\ rec'[r].family = f)
      BY <1>3, <2>2, <2>3
    <3>3. req'[t].op = "create_book" /\ req'[t].at = "insert" /\ book'[q.book].status = "unused"
      BY <1>1, <1>3, <2>2
    <3> HIDE DEF rows
    <3> QED BY <1>3, <2>2, <2>5, <3>1, <3>2, <3>3 DEF Binding
  <2>7. Asked(t)' \cap ContentIds \subseteq Touches(t) /\ Touches(t)' = Touches(t)
    <3>1. rows \cap ContentIds \subseteq {BookLock(b) : b \in Books \cap {q.on}}
      BY ContentDiffers
    <3>2. Asked(t)' \cap ContentIds \subseteq Touches(t)
      BY <1>1, <2>2, <3>1 DEF Touches
    <3>3. Touches(t) \subseteq Touches(t)'
      BY <1>1, <2>2 DEF Touches
    <3> HIDE DEF rows
    <3> QED BY <2>2, <3>2, <3>3 DEF Touches
  <2>8. Touching(t)'
    <3>1. /\ \A r : Live(r)' = Live(r)
          /\ \A b : LiveBook(b)' = LiveBook(b)
      BY <1>1, <1>2, QuietRows
    <3> QED BY <1>1, <1>2, <2>2, <2>7, <3>1 DEF Touching, FamilyOp
  <2>9. /\ Idle(t)' /\ Uploading(t)' /\ Removing(t)' /\ Closing(t)' /\ Leaving(t)'
    BY <1>1, <2>2 DEF Idle, Uploading, Removing, Closing, Leaving
  <2>10. ASSUME NEW s \in Threads \ {t} PROVE Apart(s, t)'
    BY <1>1, <2>2, <2>7, FamilyApart DEF FamilyOp
  <2> QED BY <1>1, <2>2, <2>6, <2>8, <2>9, <2>10 DEF OwnStep, Local
<1>5. CASE Finish(t)
  BY <1>1, <1>5, RefuseStep DEF Refuse
<1> QED BY <1>4, <1>5 DEF LockSources

\* The two statements of a family's deletion that lock its recordings and its books.
LEMMA ClosingStep ==
    ASSUME IInv, NEW t \in Threads, NEW s \in {"books", "commit"}, NEW rows \in SUBSET ContentIds,
           UNCHANGED dataVars, req[t].op = "delete_family", want[t] = <<>>,
           FamilyLock(req[t].family) \in held[t], req[t].family \in families,
           held[t] \subseteq {FamilyLock(req[t].family)} \cup ContentIds,
           \A y \in rows :
              \/ \E r \in Recs : y = RecLock(r) /\ Live(r) /\ rec[r].family = req[t].family
              \/ \E b \in Books : y = BookLock(b) /\ LiveBook(b) /\ book[b].family = req[t].family,
           Proceed(t, req[t], s, rows)
    PROVE  OwnStep(t) /\ DataStep(t)
<1> DEFINE q == req[t]
           f == q.family
<1>1. Asked(t) = held[t]
  BY NothingPending
<1>2. TypeOK /\ q \in RequestRow /\ Closing(t) /\ Touching(t) /\ \A o \in Threads \ {t} : Apart(o, t)
  BY Facts
<1>3. f \in Families /\ q.on = "none"
  BY <1>2 DEF Closing
<1>4. rows \in SUBSET RowIds /\ s \in Stages
  BY RowsAreIds DEF Stages
<1>5. /\ LockTypes' /\ ReqTypes' /\ Disjoint' /\ Others(t) /\ DataStep(t) /\ OneBatch(t)'
      /\ held'[t] = held[t] /\ Pending(t)' = rows \ held[t] /\ Asked(t)' = held[t] \cup rows
      /\ req'[t].at = s /\ req'[t].op = q.op /\ req'[t].user = q.user
      /\ req'[t].family = f /\ req'[t].on = q.on /\ req'[t].book = q.book
      /\ rec' = rec /\ book' = book /\ families' = families
  BY <1>2, <1>4, AdvanceStep
<1>6. Closing(t)'
  BY <1>3, <1>5 DEF Closing
<1>7. Touching(t)'
  <2>1. \A y \in Touches(t)' : y \in Touches(t) \/ y \in rows
    BY <1>1, <1>3, <1>5 DEF Touches
  <2>2. ASSUME NEW r \in Recs, RecLock(r) \in Touches(t)'
        PROVE  rec[r].status # "unused" /\ (Live(r) => rec[r].family = f)
    <3>1. CASE RecLock(r) \in Touches(t)
      BY <1>2, <3>1 DEF Touching, FamilyOp
    <3>2. CASE RecLock(r) \in rows
      <4>1. PICK o \in Recs : RecLock(r) = RecLock(o) /\ Live(o) /\ rec[o].family = f
        BY <3>2, RowsDiffer
      <4> QED BY <4>1, RowsDiffer DEF Live
    <3> QED BY <2>1, <2>2, <3>1, <3>2
  <2>3. ASSUME NEW b \in Books, BookLock(b) \in Touches(t)'
        PROVE  book[b].status # "unused" /\ (LiveBook(b) => book[b].family = f)
    <3>1. CASE BookLock(b) \in Touches(t)
      BY <1>2, <3>1 DEF Touching, FamilyOp
    <3>2. CASE BookLock(b) \in rows
      <4>1. PICK o \in Books : BookLock(b) = BookLock(o) /\ LiveBook(o) /\ book[o].family = f
        BY <3>2, RowsDiffer
      <4> QED BY <4>1, RowsDiffer DEF LiveBook
    <3> QED BY <2>1, <2>3, <3>1, <3>2
  <2>4. /\ \A r : Live(r)' = Live(r)
        /\ \A b : LiveBook(b)' = LiveBook(b)
    BY <1>2, QuietRows
  <2> QED BY <1>5, <2>2, <2>3, <2>4 DEF Touching, FamilyOp
<1>8. /\ Idle(t)' /\ Uploading(t)' /\ Binding(t)' /\ Removing(t)' /\ Leaving(t)'
  BY <1>5 DEF Idle, Uploading, Binding, Removing, Leaving
<1>9. ASSUME NEW o \in Threads \ {t} PROVE Apart(o, t)'
  <2>1. \A y \in Asked(t)' \cap ContentIds : y \in Touches(t) \/ y \in rows
    BY <1>1, <1>5 DEF Touches
  <2> QED BY <1>5, <2>1, FamilyApart DEF FamilyOp
<1> QED BY <1>5, <1>6, <1>7, <1>8, <1>9 DEF OwnStep, Local

LEMMA DeleteFamilyLocksStep ==
    ASSUME IInv, NEW t \in Threads, DeleteFamilyRecordings(t) \/ DeleteFamilyBooks(t)
    PROVE  OwnStep(t) /\ DataStep(t)
<1> DEFINE q == req[t]
           f == q.family
<1>1. q.op = "delete_family" /\ want[t] = <<>> /\ Asked(t) = held[t] /\ UNCHANGED dataVars
  BY GrantedHolds DEF DeleteFamilyRecordings, DeleteFamilyBooks
<1>2. Closing(t)
  BY Facts
<1>3. CASE DeleteFamilyRecordings(t) /\ f \in families
  <2>1. q.at = "recordings"
    BY <1>3, GrantedHolds DEF DeleteFamilyRecordings
  <2>2. held[t] = {FamilyLock(f)}
    BY <1>1, <1>2, <2>1 DEF Closing
  <2> DEFINE rows == {RecLock(r) : r \in RecsOf(f)}
  <2>3. Proceed(t, q, "books", rows)
    BY <1>3 DEF DeleteFamilyRecordings
  <2>4. /\ rows \in SUBSET ContentIds
        /\ \A y \in rows : \E r \in Recs : y = RecLock(r) /\ Live(r) /\ rec[r].family = f
    BY RowsAreIds DEF RecsOf
  <2> HIDE DEF rows
  <2> QED BY <1>1, <1>3, <2>2, <2>3, <2>4, ClosingStep
<1>4. CASE DeleteFamilyRecordings(t) /\ f \notin families
  <2>1. Finish(t)
    BY <1>4 DEF DeleteFamilyRecordings
  <2> QED BY <1>1, <2>1, RefuseStep DEF Refuse
<1>5. CASE DeleteFamilyBooks(t)
  <2>1. q.at = "books"
    BY <1>5, GrantedHolds DEF DeleteFamilyBooks
  <2>2. /\ FamilyLock(f) \in held[t] /\ f \in families
        /\ held[t] \subseteq {FamilyLock(f)} \cup ContentIds
    BY <1>1, <1>2, <2>1 DEF Closing
  <2> DEFINE rows == {BookLock(b) : b \in BooksOf(f)}
  <2>3. Proceed(t, q, "commit", rows)
    BY <1>5 DEF DeleteFamilyBooks
  <2>4. /\ rows \in SUBSET ContentIds
        /\ \A y \in rows : \E b \in Books : y = BookLock(b) /\ LiveBook(b) /\ book[b].family = f
    BY RowsAreIds DEF BooksOf
  <2> HIDE DEF rows
  <2> QED BY <1>1, <2>2, <2>3, <2>4, ClosingStep
<1> QED BY <1>3, <1>4, <1>5

LEMMA DeleteAccountFamiliesStep ==
    ASSUME IInv, NEW t \in Threads, DeleteAccountFamilies(t)
    PROVE  OwnStep(t) /\ DataStep(t)
<1> DEFINE q == req[t]
           u == q.user
           batches == ByKey(families, FamilyLock)
<1>1. /\ q.op = "delete_account" /\ q.at = "families" /\ want[t] = <<>> /\ Asked(t) = held[t]
      /\ UNCHANGED dataVars
  BY GrantedHolds DEF DeleteAccountFamilies
<1>2. /\ TypeOK /\ LockTypes /\ ReqTypes /\ Disjoint /\ q \in RequestRow /\ Leaving(t)
      /\ \A s \in Threads \ {t} : Apart(s, t)
  BY Facts
<1>3. held[t] = {UserLock(u)} /\ u \in Users
  BY <1>1, <1>2 DEF Leaving
<1>4. CASE req' = [req EXCEPT ![t].at = "books"] /\ Statement(t, batches)
  <2>1. families \in SUBSET Families
    BY <1>2 DEF TypeOK
  <2>2. /\ batches \in Seq(SUBSET RowIds)
        /\ \A f \in families : \E n \in DOMAIN batches : FamilyLock(f) \in batches[n]
    BY <2>1, ByKeyCovers
  <2>3. /\ \A n \in DOMAIN batches : batches[n] \subseteq {FamilyLock(f) : f \in families}
        /\ \A m, n \in DOMAIN batches : \A i, j \in Families :
              FamilyLock(i) \in batches[m] /\ FamilyLock(j) \in batches[n] => (i < j <=> m < n)
    BY <2>1, ByKeyAscends
  <2> HIDE DEF batches
  <2>4. /\ held' = held /\ want'[t] = batches /\ LockTypes' /\ Disjoint'
        /\ \A s \in Threads \ {t} : want'[s] = want[s]
    BY <1>2, <1>4, <2>2 DEF Statement, LockTypes, Disjoint
  <2>5. /\ req'[t].op = q.op /\ req'[t].at = "books" /\ req'[t].user = u /\ req'[t].family = q.family
        /\ req'[t].on = q.on /\ req'[t].book = q.book /\ ReqTypes'
        /\ \A s \in Threads \ {t} : req'[s] = req[s]
    <3> DEFINE x == [q EXCEPT !.at = "books"]
    <3>1. x \in RequestRow /\ x.op = q.op /\ x.at = "books" /\ x.user = u /\ x.family = q.family
          /\ x.on = q.on /\ x.book = q.book
      BY <1>2 DEF RequestRow, Stages
    <3>2. req' = [req EXCEPT ![t] = x]
      BY <1>4
    <3> HIDE DEF x
    <3> QED BY <1>2, <3>1, <3>2 DEF ReqTypes
  <2>6. /\ Pending(t)' \subseteq {FamilyLock(f) : f \in Families}
        /\ \A f \in families : FamilyLock(f) \in Pending(t)'
    BY <2>1, <2>2, <2>3, <2>4 DEF Pending
  <2>7. /\ Asked(t)' = held[t] \cup Pending(t)' /\ held'[t] = held[t]
        /\ Asked(t)' \cap ContentIds = {}
    BY <1>3, <2>4, <2>6, ContentDiffers DEF Asked
  <2>8. Ascending(t)'
    <3>1. \A i, j \in Families : ~ (FamilyLock(i) \in held'[t])
      BY <1>3, <2>7, RowsDiffer
    <3> QED BY <2>3, <2>4, <3>1 DEF Ascending
  <2>9. families' = families
    BY <1>1 DEF dataVars
  <2>10. Leaving(t)'
    BY <1>1, <1>3, <2>5, <2>6, <2>7, <2>8, <2>9, RowsDiffer DEF Leaving
  <2>11. Touching(t)'
    BY <1>1, <2>5, <2>7, RowsAreIds DEF Touching, FamilyOp
  <2>12. /\ Idle(t)' /\ Uploading(t)' /\ Binding(t)' /\ Removing(t)' /\ Closing(t)'
    BY <1>1, <2>5 DEF Idle, Uploading, Binding, Removing, Closing
  <2>13. Others(t)
    BY <2>4, <2>5 DEF Others
  <2>14. ASSUME NEW s \in Threads \ {t} PROVE Apart(s, t)'
    BY <1>1, <2>5, <2>7 DEF Apart, FamilyOp
  <2> QED BY <1>1, <2>4, <2>5, <2>10, <2>11, <2>12, <2>13, <2>14, QuietStep DEF OwnStep, Local
<1>5. CASE Finish(t)
  BY <1>1, <1>5, RefuseStep DEF Refuse
<1> QED BY <1>4, <1>5 DEF DeleteAccountFamilies

LEMMA DeleteAccountBooksStep ==
    ASSUME IInv, NEW t \in Threads, DeleteAccountBooks(t)
    PROVE  OwnStep(t) /\ DataStep(t)
<1> DEFINE q == req[t]
           u == q.user
           rows == {BookLock(b) : b \in {c \in Books : book[c].user = u}} \cup {RecLock(r) : r \in ByUser(u)}
<1>1. /\ q.op = "delete_account" /\ q.at = "books" /\ want[t] = <<>> /\ Asked(t) = held[t] /\ Pending(t) = {}
      /\ UNCHANGED dataVars /\ Proceed(t, q, "commit", rows)
  BY GrantedHolds DEF DeleteAccountBooks
<1>2. /\ TypeOK /\ Disjoint /\ Owned /\ q \in RequestRow /\ Leaving(t) /\ Touching(t)
      /\ \A s \in Threads \ {t} : Local(s) /\ Apart(s, t)
  BY Facts
<1>3. /\ u \in Users /\ u # NoUser /\ UserLock(u) \in held[t]
      /\ held[t] \subseteq {UserLock(u)} \cup {FamilyLock(f) : f \in Families}
      /\ \A f \in families : FamilyLock(f) \in held[t]
  BY <1>1, <1>2, ContentAssumption DEF Leaving
<1>4. rows \subseteq ContentIds /\ rows \in SUBSET RowIds /\ "commit" \in Stages
  BY RowsAreIds DEF ByUser, Stages
<1>5. /\ \A r \in Recs : RecLock(r) \in rows => Live(r) /\ rec[r].user = u
      /\ \A b \in Books : BookLock(b) \in rows => LiveBook(b) /\ book[b].user = u
  <2>1. ASSUME NEW r \in Recs, RecLock(r) \in rows PROVE Live(r) /\ rec[r].user = u
    <3>1. r \in ByUser(u)
      BY <2>1, RowsDiffer
    <3> QED BY <3>1 DEF ByUser
  <2>2. ASSUME NEW b \in Books, BookLock(b) \in rows PROVE LiveBook(b) /\ book[b].user = u
    <3>1. book[b].user = u
      BY <2>2, RowsDiffer
    <3> QED BY <1>2, <1>3, <3>1 DEF Owned
  <2> QED BY <2>1, <2>2
<1>6. held[t] \cap ContentIds = {}
  BY <1>3, ContentDiffers
<1> HIDE DEF rows
<1>7. /\ LockTypes' /\ ReqTypes' /\ Disjoint' /\ Others(t) /\ DataStep(t) /\ OneBatch(t)'
      /\ held'[t] = held[t] /\ Pending(t)' = rows \ held[t] /\ Asked(t)' = held[t] \cup rows
      /\ req'[t].at = "commit" /\ req'[t].op = q.op /\ req'[t].user = u
      /\ req'[t].family = q.family /\ req'[t].on = q.on /\ req'[t].book = q.book
      /\ rec' = rec /\ book' = book /\ families' = families
  BY <1>1, <1>2, <1>4, AdvanceStep
<1>8. Leaving(t)'
  BY <1>1, <1>3, <1>4, <1>7, ContentDiffers DEF Leaving
<1>9. Asked(t)' \cap ContentIds = rows
  BY <1>4, <1>6, <1>7
<1>10. Touching(t)'
  <2>1. ASSUME NEW r \in Recs, RecLock(r) \in Asked(t)'
        PROVE  rec'[r].status # "unused" /\ rec'[r].user = u
    BY <1>5, <1>7, <1>9, <2>1, RowsAreIds DEF Live
  <2>2. ASSUME NEW b \in Books, BookLock(b) \in Asked(t)'
        PROVE  book'[b].status # "unused" /\ book'[b].user = u
    BY <1>5, <1>7, <1>9, <2>2, RowsAreIds DEF LiveBook
  <2> QED BY <1>1, <1>7, <2>1, <2>2 DEF Touching, FamilyOp
<1>11. /\ Idle(t)' /\ Uploading(t)' /\ Binding(t)' /\ Removing(t)' /\ Closing(t)'
  BY <1>1, <1>7 DEF Idle, Uploading, Binding, Removing, Closing
<1>12. ASSUME NEW s \in Threads \ {t} PROVE Apart(s, t)'
  <2>1. req'[s] = req[s] /\ Asked(s)' = Asked(s)
    BY <1>7 DEF Others, Asked, Pending
  <2>2. ASSUME req[s].op = "delete_account", NEW y \in Asked(s), y \in rows PROVE FALSE
    <3>1. Leaving(s) /\ Touching(s)
      BY <1>2 DEF Local
    <3>2. UserLock(req[s].user) \in held[s]
      <4>1. CASE req[s].at = "families"
        BY <1>4, <2>2, <3>1, <4>1, ContentDiffers DEF Leaving
      <4>2. CASE req[s].at \in {"books", "commit"}
        BY <2>2, <3>1, <4>2 DEF Leaving
      <4> QED BY <2>2, <3>1, <4>1, <4>2 DEF Leaving
    <3>3. req[s].user = u
      <4>1. y \in ContentIds
        BY <1>4, <2>2
      <4>2. CASE \E r \in Recs : y = RecLock(r)
        BY <1>3, <1>5, <2>2, <3>1, <4>2 DEF Touching
      <4>3. CASE \E b \in Books : y = BookLock(b)
        BY <1>3, <1>5, <2>2, <3>1, <4>3 DEF Touching
      <4> QED BY <4>1, <4>2, <4>3 DEF ContentIds
    <3> QED BY <1>2, <1>3, <3>2, <3>3 DEF Disjoint
  <2> QED BY <1>1, <1>7, <1>9, <2>1, <2>2 DEF Apart, FamilyOp
<1> QED BY <1>1, <1>7, <1>8, <1>10, <1>11, <1>12 DEF OwnStep, Local

LEMMA DeadlockAbortStep ==
    ASSUME IInv, NEW t \in Threads, DeadlockAbort(t)
    PROVE  OwnStep(t) /\ DataStep(t)
BY RefuseStep DEF DeadlockAbort

-----------------------------------------------------------------------------
(* Statements that write                                                   *)

\* A step with which no recording and no book comes.
LEMMA NoneComes ==
    ASSUME IInv, TypeOK', RecMoves, BookMoves,
           \A r \in Recs : rec[r].status = "unused" => rec'[r].status = "unused",
           \A b \in Books : book[b].status = "unused" => book'[b].status = "unused"
    PROVE  /\ WithinRecordingLimits' /\ WithinBookLimits'
           /\ \A s \in Threads :
                 /\ families' \subseteq families
                 /\ \A f \in families : FamilyLock(f) \in held[s] => f \in families'
                 /\ \A r \in Recs : Live(r) /\ ~ Live(r)' =>
                       RecLock(r) \notin held[s] \/ FamilyLock(rec[r].family) \notin held[s]
                 => Spares(s)
<1>1. TypeOK /\ WithinRecordingLimits /\ WithinBookLimits
  BY DEF IInv
<1>2. /\ \A r \in Recs : rec[r].status = "unused" => ~ Live(r)'
      /\ \A b \in Books : book[b].status = "unused" => ~ LiveBook(b)'
  BY DEF Live, LiveBook
<1>3. WithinRecordingLimits' /\ WithinBookLimits'
  BY <1>1, <1>2, NothingNew
<1>4. ASSUME NEW s \in Threads,
             families' \subseteq families,
             \A f \in families : FamilyLock(f) \in held[s] => f \in families',
             \A r \in Recs : Live(r) /\ ~ Live(r)' =>
                       RecLock(r) \notin held[s] \/ FamilyLock(rec[r].family) \notin held[s]
      PROVE  Spares(s)
  <2>1. Uploading(s) /\ Binding(s)
    BY Facts
  <2>2. req[s].op = "create_recording" => rec'[req[s].on].status = rec[req[s].on].status
    BY <2>1 DEF Uploading
  <2>3. req[s].op = "create_book" => book'[req[s].book].status = book[req[s].book].status
    BY <2>1 DEF Binding
  <2> QED BY <1>2, <1>4, <2>2, <2>3 DEF Spares
<1> QED BY <1>3, <1>4

LEMMA RowLockedAlone ==
    ASSUME IInv, NEW t \in Threads, NEW s \in Threads \ {t}, NEW x \in held[t]
    PROVE  x \notin held[s]
BY DEF IInv, Disjoint

\* The upload is stored and the recording appears.
LEMMA PublishWrites ==
    ASSUME IInv, NEW t \in Threads, Runs(t, "create_recording", "publish"),
           NEW r, NEW f, NEW u, NEW d,
           req[t].on = r, req[t].family = f, req[t].user = u, req[t].dur = d,
           rec' = [rec EXCEPT ![r] = [status |-> "active", family |-> f, user |-> u,
                                      recent |-> TRUE, dur |-> d]],
           UNCHANGED <<users, families, book, queued>>
    PROVE  DataStep(t)
<1>1. /\ TypeOK /\ WithinRecordingLimits /\ WithinBookLimits /\ NothingLeftBehind /\ Owned
      /\ req[t] \in RequestRow /\ Uploading(t)
  BY Facts DEF IInv
<1>2. req[t].op = "create_recording" /\ req[t].at = "publish"
  BY GrantedHolds
<1>3. /\ u \in Users /\ f \in Families /\ f \in families /\ r \in Recs /\ rec[r].status = "unused"
      /\ d \in 0..MaxDuration /\ d \in Nat
      /\ UserLock(u) \in held[t] /\ FamilyLock(f) \in held[t] /\ RecordingAllowed(u, f, d)
  BY <1>1, <1>2, ContentAssumption DEF Uploading, RequestRow
<1>4. /\ rec'[r].status = "active" /\ rec'[r].family = f /\ rec'[r].user = u /\ rec'[r].recent = TRUE
      /\ rec'[r].dur = d /\ rec'[r] \in RecordingRow
      /\ \A o \in Recs \ {r} : rec'[o] = rec[o]
      /\ rec' \in [Recs -> RecordingRow]
  <2> DEFINE x == [status |-> "active", family |-> f, user |-> u, recent |-> TRUE, dur |-> d]
  <2>1. /\ x \in RecordingRow
        /\ x.status = "active" /\ x.family = f /\ x.user = u /\ x.recent = TRUE /\ x.dur = d
    BY <1>3, ContentAssumption DEF RecordingRow, Families
  <2>2. rec' = [rec EXCEPT ![r] = x] /\ rec \in [Recs -> RecordingRow]
    BY <1>1 DEF TypeOK
  <2> HIDE DEF x
  <2> QED BY <1>3, <2>1, <2>2
<1>5. users' = users /\ families' = families /\ book' = book /\ queued' = queued
  OBVIOUS
<1>6. TypeOK'
  BY <1>1, <1>4, <1>5 DEF TypeOK
<1>7. /\ Live(r)' /\ ~ Live(r)
      /\ \A o \in Recs \ {r} : Live(o)' = Live(o)
      /\ \A b \in Books : LiveBook(b)' = LiveBook(b)
  BY <1>3, <1>4, <1>5 DEF Live, LiveBook
<1>8. RecMoves /\ BookMoves
  <2>1. BookMoves
    BY <1>5, <1>7 DEF BookMoves
  <2>2. RecMoves
    BY <1>3, <1>4, <1>7 DEF RecMoves
  <2> QED BY <2>1, <2>2
<1>9. /\ \A g : g # f => NoNewRecording(g)
      /\ \A v : v # u => NoNewUpload(v)
      /\ \A g : NoNewBook(g)
  <2>1. \A o \in Recs : rec[o].status = "unused" /\ Live(o)' => o = r
    BY <1>7 DEF Live
  <2>2. \A b \in Books : ~ (book[b].status = "unused" /\ LiveBook(b)')
    BY <1>7 DEF LiveBook
  <2> QED BY <1>4, <2>1, <2>2 DEF NoNewRecording, NoNewUpload, NoNewBook
<1>10. \A S \in SUBSET Recs : r \notin S =>
          /\ IsFiniteSet(S) /\ Cardinality(S) \in Nat /\ Cardinality(S \cup {r}) = Cardinality(S) + 1
          /\ Total(Durs, S) \in Nat /\ Total(Durs', S \cup {r}) = d + Total(Durs, S)
  <2> SUFFICES ASSUME NEW S \in SUBSET Recs, r \notin S
               PROVE  /\ IsFiniteSet(S) /\ Cardinality(S) \in Nat /\ Cardinality(S \cup {r}) = Cardinality(S) + 1
                      /\ Total(Durs, S) \in Nat /\ Total(Durs', S \cup {r}) = d + Total(Durs, S)
    OBVIOUS
  <2>1. IsFiniteSet(S) /\ Cardinality(S) \in Nat /\ Total(Durs, S) \in Nat
    BY <1>1, CountsAreNat
  <2>2. Cardinality(S \cup {r}) = Cardinality(S) + 1
    BY <2>1, FS_AddElement
  <2>3. \A x \in S : Durs[x] \in Nat /\ Durs'[x] = Durs[x]
    BY <1>1, <1>4, CountsAreNat DEF Durs
  <2>4. Durs'[r] = d
    BY <1>3, <1>4 DEF Durs
  <2>5. ASSUME NEW g, \A x \in S : g[x] = Durs[x], g[r] = d
        PROVE  Total(g, S \cup {r}) = d + Total(Durs, S)
    <3>1. Total(g, S) = Total(Durs, S)
      BY <2>1, <2>3, <2>5, TotalSame
    <3>2. \A x \in S \cup {r} : g[x] \in Nat
      BY <1>3, <2>3, <2>5
    <3>3. Total(g, S \cup {r}) = g[r] + Total(g, S)
      BY <2>1, <3>2, TotalWith
    <3> QED BY <2>5, <3>1, <3>3
  <2> QED BY <2>1, <2>2, <2>3, <2>4, <2>5
<1>11. /\ Cardinality(Active(f)) < MaxActive
       /\ Cardinality(Recent(RecsOf(f))) < MaxFamilyDaily
       /\ Cardinality(Recent(ByUser(u))) < MaxUserDaily
       /\ Cardinality(RecsOf(f)) + 1 <= MaxStorage
       /\ d # 0 => /\ Seconds(Recent(ByUser(u))) + d <= MaxUserSeconds
                   /\ Seconds(Recent(RecsOf(f))) + d <= MaxFamilySeconds
  BY <1>3, AllowedParts
<1>12. FamilyWithin(f)'
  <2>1. /\ RecsOf(f) \in SUBSET Recs /\ r \notin RecsOf(f) /\ RecsOf(f)' = RecsOf(f) \cup {r}
        /\ Active(f) \in SUBSET Recs /\ r \notin Active(f) /\ Active(f)' = Active(f) \cup {r}
    BY <1>3, <1>4, <1>7 DEF RecsOf, Active
  <2>2. /\ Recent(RecsOf(f)) \in SUBSET Recs /\ r \notin Recent(RecsOf(f))
        /\ Recent(RecsOf(f))' = Recent(RecsOf(f)) \cup {r}
    BY <1>4, <2>1 DEF Recent
  <2>3. /\ Cardinality(Active(f))' = Cardinality(Active(f)) + 1 /\ Cardinality(Active(f)) \in Nat
        /\ Cardinality(RecsOf(f))' = Cardinality(RecsOf(f)) + 1
        /\ Cardinality(Recent(RecsOf(f)))' = Cardinality(Recent(RecsOf(f))) + 1
        /\ Cardinality(Recent(RecsOf(f))) \in Nat
    BY <1>10, <2>1, <2>2
  <2>4. /\ Seconds(Recent(RecsOf(f)))' = d + Seconds(Recent(RecsOf(f)))
        /\ Seconds(Recent(RecsOf(f))) \in Nat
    BY <1>10, <2>2, SecondsAreTotals
  <2>5. Seconds(Recent(RecsOf(f))) <= MaxFamilySeconds
    BY <1>1, <1>3, LimitParts DEF FamilyWithin
  <2> QED BY <1>3, <1>11, <2>3, <2>4, <2>5, LimitsAreNat DEF FamilyWithin
<1>13. AccountWithin(u)'
  <2>1. ByUser(u) \in SUBSET Recs /\ r \notin ByUser(u) /\ ByUser(u)' = ByUser(u) \cup {r}
    BY <1>3, <1>4, <1>7 DEF ByUser
  <2>2. /\ Recent(ByUser(u)) \in SUBSET Recs /\ r \notin Recent(ByUser(u))
        /\ Recent(ByUser(u))' = Recent(ByUser(u)) \cup {r}
    BY <1>4, <2>1 DEF Recent
  <2>3. /\ Cardinality(Recent(ByUser(u)))' = Cardinality(Recent(ByUser(u))) + 1
        /\ Cardinality(Recent(ByUser(u))) \in Nat
    BY <1>10, <2>2
  <2>4. /\ Seconds(Recent(ByUser(u)))' = d + Seconds(Recent(ByUser(u)))
        /\ Seconds(Recent(ByUser(u))) \in Nat
    BY <1>10, <2>2, SecondsAreTotals
  <2>5. Seconds(Recent(ByUser(u))) <= MaxUserSeconds
    BY <1>1, <1>3, LimitParts DEF AccountWithin
  <2> QED BY <1>3, <1>11, <2>3, <2>4, <2>5, LimitsAreNat DEF AccountWithin
<1>14. WithinRecordingLimits' /\ WithinBookLimits'
  <2>1. /\ \A g \in Families : FamilyWithin(g) /\ BooksWithin(g)
        /\ \A v \in Users : AccountWithin(v)
    BY <1>1, LimitParts
  <2>2. \A g \in Families : FamilyWithin(g)'
    <3> TAKE g \in Families
    <3>1. CASE g # f
      BY <1>1, <1>6, <1>8, <1>9, <2>1, <3>1, FamilyWithinKept
    <3>2. CASE g = f
      BY <1>12, <3>2
    <3> QED BY <3>1, <3>2
  <2>3. \A v \in Users : AccountWithin(v)'
    <3> TAKE v \in Users
    <3>1. CASE v # u
      BY <1>1, <1>6, <1>8, <1>9, <2>1, <3>1, AccountWithinKept
    <3>2. CASE v = u
      BY <1>13, <3>2
    <3> QED BY <3>1, <3>2
  <2>4. \A g \in Families : BooksWithin(g)'
    BY <1>8, <1>9, <2>1, BooksWithinKept
  <2> QED BY <2>2, <2>3, <2>4, LimitParts
<1>15. NothingLeftBehind' /\ Owned'
  BY <1>1, <1>3, <1>4, <1>5, <1>7 DEF NothingLeftBehind, Owned
<1>16. ASSUME NEW s \in Threads \ {t} PROVE Spares(s)
  <2>1. Apart(s, t)
    BY Facts
  <2>2. FamilyLock(f) \notin held[s] /\ UserLock(u) \notin held[s]
    BY <1>3, RowLockedAlone
  <2>3. req[s].op = "create_recording" => rec'[req[s].on].status = rec[req[s].on].status
    <3>1. req[s].op = "create_recording" => req[s].on # r /\ req[s].on \in Recs
      BY <1>2, <2>1, Facts DEF Apart, Uploading
    <3> QED BY <1>4, <3>1
  <2>4. \A o \in Recs : rec[o].status = "unused" /\ Live(o)' => o = r
    BY <1>7 DEF Live
  <2>5. /\ \A o \in Recs : Live(o) => Live(o)'
        /\ \A b \in Books : ~ (book[b].status = "unused" /\ LiveBook(b)')
    BY <1>7 DEF LiveBook
  <2> QED BY <1>4, <1>5, <1>8, <2>2, <2>3, <2>4, <2>5 DEF Spares
<1> QED BY <1>6, <1>14, <1>15, <1>16 DEF DataStep

LEMMA PublishRecordingStep ==
    ASSUME IInv, NEW t \in Threads, PublishRecording(t)
    PROVE  OwnStep(t) /\ DataStep(t)
<1> DEFINE q == req[t]
<1>1. Runs(t, "create_recording", "publish")
  BY DEF PublishRecording
<1>2. CASE Refuse(t)
  BY <1>2, RefuseStep
<1>3. CASE /\ rec' = [rec EXCEPT ![q.on] = [status |-> "active", family |-> q.family,
                           user |-> q.user, recent |-> TRUE, dur |-> q.dur]]
           /\ Finish(t)
           /\ UNCHANGED <<users, families, book, queued>>
  <2>1. OwnStep(t)
    BY <1>3, FinishOwn
  <2>2. DataStep(t)
    BY <1>1, <1>3, PublishWrites
  <2> QED BY <2>1, <2>2
<1>4. CASE /\ queued' = queued \cup {q.on}
           /\ Finish(t)
           /\ UNCHANGED <<users, families, rec, book>>
  <2>1. OwnStep(t)
    BY <1>4, FinishOwn
  <2>2. TypeOK /\ NothingLeftBehind /\ Owned /\ Uploading(t)
    BY Facts
  <2>3. q.on \in Recs
    BY <1>1, <2>2, GrantedHolds DEF Uploading
  <2>4. users' = users /\ families' = families /\ rec' = rec /\ book' = book
    BY <1>4
  <2>5. TypeOK' /\ NothingLeftBehind' /\ Owned'
    BY <1>4, <2>2, <2>3, <2>4 DEF TypeOK, NothingLeftBehind, Owned, Live, LiveBook
  <2>6. RecMoves /\ BookMoves
    BY <2>4 DEF RecMoves, BookMoves, Live, LiveBook
  <2>7. WithinRecordingLimits' /\ WithinBookLimits'
    BY <2>4, <2>5, <2>6, NoneComes
  <2> QED BY <2>1, <2>4, <2>5, <2>7, QuietSpares DEF DataStep
<1> QED BY <1>2, <1>3, <1>4 DEF PublishRecording

\* The book, its snapshot and its job appear.
LEMMA CreateBookWrites ==
    ASSUME IInv, NEW t \in Threads, Runs(t, "create_book", "insert"),
           NEW b, NEW f, NEW u, NEW S, NEW old \in Books \cup {NoBook},
           req[t].book = b, req[t].family = f, req[t].user = u, req[t].sources = S,
           book' = [book EXCEPT ![b] = [status |-> "active", family |-> f, user |-> u,
                                        recent |-> TRUE, sources |-> S, supersedes |-> old]],
           UNCHANGED <<users, families, rec, queued>>
    PROVE  DataStep(t)
<1>1. /\ TypeOK /\ WithinRecordingLimits /\ WithinBookLimits /\ NothingLeftBehind /\ Owned
      /\ req[t] \in RequestRow /\ Binding(t)
  BY Facts DEF IInv
<1>2. req[t].op = "create_book" /\ req[t].at = "insert"
  BY GrantedHolds
<1>3. /\ u \in Users /\ f \in Families /\ f \in families /\ b \in Books /\ book[b].status = "unused"
      /\ S \in SUBSET Recs /\ FamilyLock(f) \in held[t] /\ BookAllowed(f)
  BY <1>1, <1>2 DEF Binding, RequestRow
<1>4. /\ book'[b].status = "active" /\ book'[b].family = f /\ book'[b].user = u /\ book'[b].recent = TRUE
      /\ \A o \in Books \ {b} : book'[o] = book[o]
      /\ book' \in [Books -> BookRow]
  <2> DEFINE x == [status |-> "active", family |-> f, user |-> u, recent |-> TRUE, sources |-> S,
                   supersedes |-> old]
  <2>1. /\ x \in BookRow
        /\ x.status = "active" /\ x.family = f /\ x.user = u /\ x.recent = TRUE
    BY <1>3, ContentAssumption DEF BookRow, Families
  <2>2. book' = [book EXCEPT ![b] = x] /\ book \in [Books -> BookRow]
    BY <1>1 DEF TypeOK
  <2> HIDE DEF x
  <2>3. book'[b] = x /\ \A o \in Books \ {b} : book'[o] = book[o]
    BY <1>3, <2>2
  <2>4. book' \in [Books -> BookRow]
    BY <2>1, <2>2
  <2> QED BY <2>1, <2>3, <2>4
<1>5. users' = users /\ families' = families /\ rec' = rec /\ queued' = queued
  OBVIOUS
<1>6. TypeOK'
  BY <1>1, <1>4, <1>5 DEF TypeOK
<1>7. /\ LiveBook(b)' /\ ~ LiveBook(b)
      /\ \A o \in Books \ {b} : LiveBook(o)' = LiveBook(o)
      /\ \A r \in Recs : Live(r)' = Live(r)
  BY <1>3, <1>4, <1>5 DEF Live, LiveBook
<1>8. RecMoves /\ BookMoves
  <2>1. RecMoves
    BY <1>5, <1>7 DEF RecMoves
  <2>2. BookMoves
    BY <1>3, <1>4, <1>7 DEF BookMoves
  <2> QED BY <2>1, <2>2
<1>9. /\ \A g : g # f => NoNewBook(g)
      /\ \A g : NoNewRecording(g) /\ NoNewUpload(g)
  <2>1. \A o \in Books : book[o].status = "unused" /\ LiveBook(o)' => o = b
    BY <1>7 DEF LiveBook
  <2>2. \A r \in Recs : ~ (rec[r].status = "unused" /\ Live(r)')
    BY <1>7 DEF Live
  <2> QED BY <1>4, <2>1, <2>2 DEF NoNewRecording, NoNewUpload, NoNewBook
<1>10. BooksWithin(f)'
  <2>1. /\ ActiveBooks(f) \in SUBSET Books /\ b \notin ActiveBooks(f)
        /\ RecentBooks(f) \in SUBSET Books /\ b \notin RecentBooks(f)
    BY <1>7 DEF ActiveBooks, RecentBooks, BooksOf
  <2>2. ActiveBooks(f)' = ActiveBooks(f) \cup {b} /\ RecentBooks(f)' = RecentBooks(f) \cup {b}
    BY <1>3, <1>4, <1>7 DEF ActiveBooks, RecentBooks, BooksOf
  <2>3. \A T \in SUBSET Books : b \notin T => Cardinality(T \cup {b}) = Cardinality(T) + 1 /\ Cardinality(T) \in Nat
    <3> TAKE T \in SUBSET Books
    <3>1. IsFiniteSet(T) /\ Cardinality(T) \in Nat
      BY <1>1, CountsAreNat
    <3> QED BY <3>1, FS_AddElement
  <2>4. Cardinality(ActiveBooks(f)) < MaxActiveBooks /\ Cardinality(RecentBooks(f)) < MaxBooksDaily
    BY <1>3, AllowedParts
  <2> QED BY <2>1, <2>2, <2>3, <2>4, LimitsAreNat DEF BooksWithin
<1>11. WithinRecordingLimits' /\ WithinBookLimits'
  <2>1. /\ \A g \in Families : FamilyWithin(g) /\ BooksWithin(g)
        /\ \A v \in Users : AccountWithin(v)
    BY <1>1, LimitParts
  <2>2. \A g \in Families : BooksWithin(g)'
    <3> TAKE g \in Families
    <3>1. CASE g # f
      BY <1>8, <1>9, <2>1, <3>1, BooksWithinKept
    <3>2. CASE g = f
      BY <1>10, <3>2
    <3> QED BY <3>1, <3>2
  <2>3. \A g \in Families : FamilyWithin(g)'
    BY <1>1, <1>6, <1>8, <1>9, <2>1, FamilyWithinKept
  <2>4. \A v \in Users : AccountWithin(v)'
    BY <1>1, <1>6, <1>8, <1>9, <2>1, AccountWithinKept
  <2> QED BY <2>2, <2>3, <2>4, LimitParts
<1>12. NothingLeftBehind' /\ Owned'
  BY <1>1, <1>3, <1>4, <1>5, <1>7 DEF NothingLeftBehind, Owned
<1>13. ASSUME NEW s \in Threads \ {t} PROVE Spares(s)
  <2>1. Apart(s, t)
    BY Facts
  <2>2. FamilyLock(f) \notin held[s]
    BY <1>3, RowLockedAlone
  <2>3. req[s].op = "create_book" => book'[req[s].book].status = book[req[s].book].status
    <3>1. req[s].op = "create_book" => req[s].book # b /\ req[s].book \in Books
      BY <1>2, <2>1, Facts DEF Apart, Binding
    <3> QED BY <1>4, <3>1
  <2>4. \A o \in Books : book[o].status = "unused" /\ LiveBook(o)' => o = b
    BY <1>7 DEF LiveBook
  <2>5. /\ \A r \in Recs : Live(r) => Live(r)'
        /\ \A r \in Recs : ~ (rec[r].status = "unused" /\ Live(r)')
    BY <1>7 DEF Live
  <2> QED BY <1>4, <1>5, <1>8, <2>2, <2>3, <2>4, <2>5 DEF Spares
<1> QED BY <1>6, <1>11, <1>12, <1>13 DEF DataStep

LEMMA CreateBookStep ==
    ASSUME IInv, NEW t \in Threads, CreateBook(t)
    PROVE  OwnStep(t) /\ DataStep(t)
<1> DEFINE q == req[t]
           old == IF q.on \in Books THEN q.on ELSE NoBook
<1>1. Runs(t, "create_book", "insert")
  BY DEF CreateBook
<1>2. CASE Refuse(t)
  BY <1>2, RefuseStep
<1>3. CASE /\ book' = [book EXCEPT ![q.book] = [status |-> "active", family |-> q.family,
                             user |-> q.user, recent |-> TRUE, sources |-> q.sources,
                             supersedes |-> old]]
           /\ Finish(t)
           /\ UNCHANGED <<users, families, rec, queued>>
  <2>1. OwnStep(t)
    BY <1>3, FinishOwn
  <2>2. old \in Books \cup {NoBook}
    OBVIOUS
  <2>3. DataStep(t)
    <3> HIDE DEF old
    <3> QED BY <1>1, <1>3, <2>2, CreateBookWrites
  <2> QED BY <2>1, <2>3
<1> QED BY <1>2, <1>3 DEF CreateBook

\* Books go, and those that superseded them forget it.
LEMMA BooksGo ==
    ASSUME TypeOK, Owned, NEW S \in SUBSET Books, \A b \in S : LiveBook(b), book' = WithoutBooks(S)
    PROVE  /\ book' \in [Books -> BookRow] /\ BookMoves
           /\ \A b \in S : book'[b].status = "deleted" /\ book'[b].user = NoUser /\ ~ LiveBook(b)'
           /\ \A b \in Books \ S :
                 /\ book'[b].status = book[b].status /\ book'[b].user = book[b].user
                 /\ book'[b].family = book[b].family /\ LiveBook(b)' = LiveBook(b)
<1> DEFINE gone == [NoBookRow EXCEPT !.status = "deleted"]
           kept(b) == [book[b] EXCEPT !.supersedes = IF @ \in S THEN NoBook ELSE @]
<1>1. \A b \in Books : book'[b] = IF b \in S THEN gone ELSE kept(b)
  BY DEF WithoutBooks
<1>2. /\ gone \in BookRow /\ gone.status = "deleted" /\ gone.user = NoUser
  <2>1. 0 \in 0..NumFamilies /\ 0 \in 0..MaxDuration
    BY ContentAssumption
  <2>2. NoBookRow \in BookRow
    BY <2>1 DEF NoBookRow, BookRow
  <2>3. NoBookRow.user = NoUser
    BY DEF NoBookRow
  <2> QED BY ONLY <2>2, <2>3 DEF BookRow
<1>3. ASSUME NEW b \in Books
      PROVE  /\ kept(b) \in BookRow /\ kept(b).status = book[b].status /\ kept(b).user = book[b].user
             /\ kept(b).family = book[b].family /\ kept(b).recent = book[b].recent
  <2>1. book[b] \in BookRow
    BY DEF TypeOK
  <2> QED BY <2>1 DEF BookRow
<1> HIDE DEF gone, kept
<1>4. \A b \in Books : book'[b] \in BookRow
  BY <1>1, <1>2, <1>3
<1>5. book' \in [Books -> BookRow]
  BY <1>4 DEF WithoutBooks
<1>6. \A b \in S : book'[b].status = "deleted" /\ book'[b].user = NoUser /\ ~ LiveBook(b)'
  BY <1>1, <1>2 DEF LiveBook
<1>7. \A b \in Books \ S :
         /\ book'[b].status = book[b].status /\ book'[b].user = book[b].user
         /\ book'[b].family = book[b].family /\ book'[b].recent = book[b].recent
         /\ LiveBook(b)' = LiveBook(b)
  BY <1>1, <1>3 DEF LiveBook
<1>8. BookMoves
  <2>1. ASSUME NEW b \in Books
        PROVE  /\ book[b].status # "unused" => book'[b].status # "unused" /\ book'[b].user \in {book[b].user, NoUser}
               /\ book[b].status # "unused" /\ LiveBook(b)' =>
                     /\ LiveBook(b) /\ book'[b].family = book[b].family
                     /\ book'[b].recent => book[b].recent
                     /\ book'[b].status = "active" => book[b].status = "active"
    <3>1. CASE b \in S
      BY <1>6, <3>1
    <3>2. CASE b \notin S
      BY <1>7, <3>2
    <3> QED BY <3>1, <3>2
  <2> QED BY <2>1 DEF BookMoves
<1> QED BY <1>5, <1>6, <1>7, <1>8

\* Recordings go.
RecsGo(S) ==
    /\ \A r \in S : rec'[r] = [NoRecording EXCEPT !.status = "deleted"]
    /\ \A r \in Recs \ S : rec'[r] = rec[r]
    /\ DOMAIN rec' = Recs /\ rec' = [r \in Recs |-> rec'[r]]

LEMMA RecordingsGo ==
    ASSUME TypeOK, NEW S \in SUBSET Recs, \A r \in S : Live(r), RecsGo(S)
    PROVE  /\ rec' \in [Recs -> RecordingRow] /\ RecMoves
           /\ \A r \in S : rec'[r].status = "deleted" /\ rec'[r].user = NoUser /\ ~ Live(r)'
           /\ \A r \in Recs \ S : rec'[r] = rec[r] /\ Live(r)' = Live(r)
<1> DEFINE gone == [NoRecording EXCEPT !.status = "deleted"]
<1>1. gone \in RecordingRow /\ gone.status = "deleted" /\ gone.user = NoUser
  <2>1. 0 \in 0..NumFamilies /\ 0 \in 0..MaxDuration
    BY ContentAssumption
  <2>2. NoRecording \in RecordingRow
    BY <2>1 DEF NoRecording, RecordingRow
  <2>3. NoRecording.user = NoUser
    BY DEF NoRecording
  <2> QED BY ONLY <2>2, <2>3 DEF RecordingRow
<1>2. /\ \A r \in S : rec'[r] = gone
      /\ \A r \in Recs \ S : rec'[r] = rec[r]
      /\ rec' = [r \in Recs |-> rec'[r]]
  BY DEF RecsGo
<1> HIDE DEF gone
<1>3. \A r \in Recs : rec'[r] \in RecordingRow
  BY <1>1, <1>2 DEF TypeOK
<1>4. rec' \in [Recs -> RecordingRow]
  BY <1>2, <1>3
<1>5. /\ \A r \in S : rec'[r].status = "deleted" /\ rec'[r].user = NoUser /\ ~ Live(r)'
      /\ \A r \in Recs \ S : rec'[r] = rec[r] /\ Live(r)' = Live(r)
  BY <1>1, <1>2 DEF Live
<1>6. RecMoves
  <2>1. ASSUME NEW r \in Recs
        PROVE  /\ rec[r].status # "unused" => rec'[r].status # "unused" /\ rec'[r].user \in {rec[r].user, NoUser}
               /\ rec[r].status = "completed" => rec'[r].status \in {"completed", "deleted"}
               /\ rec[r].status = "deleted" => rec'[r].status = "deleted"
               /\ rec[r].status # "unused" /\ Live(r)' =>
                     /\ Live(r) /\ rec'[r].family = rec[r].family /\ rec'[r].dur = rec[r].dur
                     /\ rec'[r].recent => rec[r].recent
                     /\ rec'[r].status = "active" => rec[r].status = "active"
    <3>1. CASE r \in S
      BY <1>5, <3>1
    <3>2. CASE r \notin S
      BY <1>5, <3>2
    <3> QED BY <3>1, <3>2
  <2> QED BY <2>1 DEF RecMoves
<1> QED BY <1>4, <1>5, <1>6

LEMMA DeleteRecordingStep ==
    ASSUME IInv, NEW t \in Threads, DeleteRecording(t)
    PROVE  OwnStep(t) /\ DataStep(t)
<1> SUFFICES ASSUME NEW r, r = req[t].on PROVE OwnStep(t) /\ DataStep(t)
  OBVIOUS
<1>1. req[t].op = "delete_recording" /\ req[t].at = "commit" /\ Asked(t) = held[t]
  BY GrantedHolds DEF DeleteRecording
<1>2. CASE Refuse(t)
  BY <1>2, RefuseStep
<1>3. CASE /\ Live(r)
           /\ rec' = [rec EXCEPT ![r] = [NoRecording EXCEPT !.status = "deleted"]]
           /\ queued' = queued \cup {r}
           /\ Finish(t)
           /\ UNCHANGED <<users, families, book>>
  <2>1. OwnStep(t)
    BY <1>3, FinishOwn
  <2>2. TypeOK /\ NothingLeftBehind /\ Owned /\ Removing(t)
    BY Facts
  <2>3. r \in Recs /\ RecLock(r) \in held[t]
    BY <1>1, <2>2 DEF Removing
  <2>4. users' = users /\ families' = families /\ book' = book
    BY <1>3
  <2>5. RecsGo({r}) /\ {r} \in SUBSET Recs /\ \A o \in {r} : Live(o)
    BY <1>3, <2>2, <2>3 DEF RecsGo, TypeOK
  <2>6. /\ rec' \in [Recs -> RecordingRow] /\ RecMoves
        /\ rec'[r].status = "deleted" /\ rec'[r].user = NoUser /\ ~ Live(r)'
        /\ \A o \in Recs \ {r} : rec'[o] = rec[o] /\ Live(o)' = Live(o)
    BY <2>2, <2>5, RecordingsGo
  <2>7. BookMoves /\ \A b \in Books : LiveBook(b)' = LiveBook(b)
    BY <2>4 DEF BookMoves, LiveBook
  <2>8. TypeOK'
    BY <1>3, <2>2, <2>3, <2>4, <2>6 DEF TypeOK
  <2>9. NothingLeftBehind' /\ Owned'
    BY <1>3, <2>2, <2>4, <2>6, <2>7 DEF NothingLeftBehind, Owned
  <2>10. rec[r].status # "unused"
    BY <1>3 DEF Live
  <2>11. /\ \A o \in Recs : rec[o].status = "unused" => rec'[o].status = "unused"
         /\ \A b \in Books : book[b].status = "unused" => book'[b].status = "unused"
    BY <2>4, <2>6, <2>10
  <2>12. \A s \in Threads \ {t} : Spares(s)
    <3> TAKE s \in Threads \ {t}
    <3>1. RecLock(r) \notin held[s]
      BY <2>3, RowLockedAlone
    <3> QED BY <2>4, <2>6, <2>7, <2>8, <2>11, <3>1, NoneComes
  <2>13. WithinRecordingLimits' /\ WithinBookLimits'
    BY <2>6, <2>7, <2>8, <2>11, NoneComes
  <2> QED BY <2>1, <2>8, <2>9, <2>12, <2>13 DEF DataStep
<1> QED BY <1>2, <1>3 DEF DeleteRecording

LEMMA DeleteBookStep ==
    ASSUME IInv, NEW t \in Threads, DeleteBook(t)
    PROVE  OwnStep(t) /\ DataStep(t)
<1> SUFFICES ASSUME NEW b, b = req[t].on PROVE OwnStep(t) /\ DataStep(t)
  OBVIOUS
<1>1. req[t].op = "delete_book" /\ req[t].at = "commit"
  BY GrantedHolds DEF DeleteBook
<1>2. CASE Refuse(t)
  BY <1>2, RefuseStep
<1>3. CASE /\ LiveBook(b)
           /\ book' = WithoutBooks({b})
           /\ queued' = queued \cup {b}
           /\ Finish(t)
           /\ UNCHANGED <<users, families, rec>>
  <2>1. OwnStep(t)
    BY <1>3, FinishOwn
  <2>2. TypeOK /\ NothingLeftBehind /\ Owned /\ Removing(t)
    BY Facts
  <2>3. b \in Books
    BY <1>1, <2>2 DEF Removing
  <2>4. users' = users /\ families' = families /\ rec' = rec
    BY <1>3
  <2>5. {b} \in SUBSET Books /\ \A o \in {b} : LiveBook(o)
    BY <1>3, <2>3
  <2>6. /\ book' \in [Books -> BookRow] /\ BookMoves
        /\ \A o \in {b} : book'[o].status = "deleted" /\ book'[o].user = NoUser /\ ~ LiveBook(o)'
        /\ \A o \in Books \ {b} :
              /\ book'[o].status = book[o].status /\ book'[o].user = book[o].user
              /\ book'[o].family = book[o].family /\ LiveBook(o)' = LiveBook(o)
    BY <1>3, <2>2, <2>5, BooksGo
  <2>7. RecMoves /\ \A r \in Recs : Live(r)' = Live(r)
    BY <2>4 DEF RecMoves, Live
  <2>8. TypeOK'
    BY <1>3, <2>2, <2>3, <2>4, <2>6 DEF TypeOK
  <2>9. NothingLeftBehind' /\ Owned'
    <3>1. NothingLeftBehind'
      BY <1>3, <2>2, <2>4, <2>6, <2>7 DEF NothingLeftBehind
    <3>2. Owned'
      BY <2>2, <2>4, <2>6, <2>7 DEF Owned
    <3> QED BY <3>1, <3>2
  <2>10. book[b].status # "unused"
    BY <1>3 DEF LiveBook
  <2>11. /\ \A r \in Recs : rec[r].status = "unused" => rec'[r].status = "unused"
         /\ \A o \in Books : book[o].status = "unused" => book'[o].status = "unused"
    BY <2>4, <2>6, <2>10
  <2>12. (\A s \in Threads : Spares(s)) /\ WithinRecordingLimits' /\ WithinBookLimits'
    BY <2>4, <2>6, <2>7, <2>8, <2>11, NoneComes
  <2> QED BY <2>1, <2>8, <2>9, <2>12 DEF DataStep
<1> QED BY <1>2, <1>3 DEF DeleteBook

LEMMA DeleteFamilyStep ==
    ASSUME IInv, NEW t \in Threads, DeleteFamily(t)
    PROVE  OwnStep(t) /\ DataStep(t)
<1> SUFFICES ASSUME NEW f, f = req[t].family PROVE OwnStep(t) /\ DataStep(t)
  OBVIOUS
<1> DEFINE R == RecsOf(f)
           B == BooksOf(f)
<1>1. req[t].op = "delete_family" /\ req[t].at = "commit"
  BY GrantedHolds DEF DeleteFamily
<1>2. /\ queued' = queued \cup R \cup B
      /\ rec' = [r \in Recs |-> IF r \in R THEN [NoRecording EXCEPT !.status = "deleted"] ELSE rec[r]]
      /\ book' = WithoutBooks(B) /\ families' = families \ {f} /\ users' = users
      /\ Finish(t)
  BY DEF DeleteFamily
<1>3. TypeOK /\ NothingLeftBehind /\ Owned /\ Closing(t)
  BY Facts
<1>4. FamilyLock(f) \in held[t] /\ f \in families
  BY <1>1, <1>3 DEF Closing
<1>5. /\ R \in SUBSET Recs /\ \A r \in R : Live(r) /\ rec[r].family = f
      /\ B \in SUBSET Books /\ \A b \in B : LiveBook(b) /\ book[b].family = f
      /\ \A r \in Recs \ R : Live(r) => rec[r].family # f
      /\ \A b \in Books \ B : LiveBook(b) => book[b].family # f
  BY DEF RecsOf, BooksOf
<1> SUFFICES ASSUME NEW S, S = R, NEW T, T = B PROVE OwnStep(t) /\ DataStep(t)
  OBVIOUS
<1> HIDE DEF R, B
<1>6. /\ queued' = queued \cup S \cup T /\ families' = families \ {f} /\ users' = users
      /\ RecsGo(S) /\ book' = WithoutBooks(T)
      /\ S \in SUBSET Recs /\ \A r \in S : Live(r) /\ rec[r].family = f
      /\ T \in SUBSET Books /\ \A b \in T : LiveBook(b) /\ book[b].family = f
      /\ \A r \in Recs \ S : Live(r) => rec[r].family # f
      /\ \A b \in Books \ T : LiveBook(b) => book[b].family # f
  BY <1>2, <1>5 DEF RecsGo
<1>7. /\ rec' \in [Recs -> RecordingRow] /\ RecMoves
      /\ \A r \in S : rec'[r].status = "deleted" /\ rec'[r].user = NoUser /\ ~ Live(r)'
      /\ \A r \in Recs \ S : rec'[r] = rec[r] /\ Live(r)' = Live(r)
  BY <1>3, <1>6, RecordingsGo
<1>8. /\ book' \in [Books -> BookRow] /\ BookMoves
      /\ \A b \in T : book'[b].status = "deleted" /\ book'[b].user = NoUser /\ ~ LiveBook(b)'
      /\ \A b \in Books \ T :
            /\ book'[b].status = book[b].status /\ book'[b].user = book[b].user
            /\ book'[b].family = book[b].family /\ LiveBook(b)' = LiveBook(b)
  BY <1>3, <1>6, BooksGo
<1>9. TypeOK'
  BY <1>3, <1>6, <1>7, <1>8 DEF TypeOK
<1>10. NothingLeftBehind'
  <2>1. ASSUME NEW r \in Recs, Live(r)' PROVE rec'[r].family \in families'
    BY <1>3, <1>6, <1>7, <2>1 DEF NothingLeftBehind
  <2>2. ASSUME NEW b \in Books, LiveBook(b)' PROVE book'[b].family \in families'
    BY <1>3, <1>6, <1>8, <2>2 DEF NothingLeftBehind
  <2>3. ASSUME NEW r \in Recs, rec'[r].status = "deleted" PROVE r \in queued'
    BY <1>3, <1>6, <1>7, <2>3 DEF NothingLeftBehind
  <2>4. ASSUME NEW b \in Books, book'[b].status = "deleted" PROVE b \in queued'
    BY <1>3, <1>6, <1>8, <2>4 DEF NothingLeftBehind
  <2> QED BY <2>1, <2>2, <2>3, <2>4 DEF NothingLeftBehind
<1>11. Owned'
  BY <1>3, <1>7, <1>8 DEF Owned
<1>12. /\ \A r \in Recs : rec[r].status = "unused" => rec'[r].status = "unused"
       /\ \A b \in Books : book[b].status = "unused" => book'[b].status = "unused"
  BY <1>6, <1>7, <1>8 DEF Live, LiveBook
<1>13. \A s \in Threads \ {t} : Spares(s)
  <2> TAKE s \in Threads \ {t}
  <2>1. FamilyLock(f) \notin held[s]
    BY <1>4, RowLockedAlone
  <2>2. /\ families' \subseteq families
        /\ \A g \in families : FamilyLock(g) \in held[s] => g \in families'
        /\ \A r \in Recs : Live(r) /\ ~ Live(r)' => FamilyLock(rec[r].family) \notin held[s]
    BY <1>6, <1>7, <2>1
  <2> QED BY <1>7, <1>8, <1>9, <1>12, <2>2, NoneComes
<1>14. WithinRecordingLimits' /\ WithinBookLimits'
  BY <1>7, <1>8, <1>9, <1>12, NoneComes
<1> QED BY <1>2, <1>9, <1>10, <1>11, <1>13, <1>14, FinishOwn DEF DataStep

LEMMA DeleteAccountStep ==
    ASSUME IInv, NEW t \in Threads, DeleteAccount(t)
    PROVE  OwnStep(t) /\ DataStep(t)
<1> SUFFICES ASSUME NEW u, u = req[t].user PROVE OwnStep(t) /\ DataStep(t)
  OBVIOUS
<1>1. /\ users' = users \ {u} /\ families' = families /\ queued' = queued
      /\ rec' = [r \in Recs |-> IF rec[r].user = u THEN [rec[r] EXCEPT !.user = NoUser] ELSE rec[r]]
      /\ book' = [b \in Books |-> IF book[b].user = u THEN [book[b] EXCEPT !.user = NoUser] ELSE book[b]]
      /\ Finish(t)
  BY DEF DeleteAccount
<1>2. TypeOK /\ NothingLeftBehind /\ Owned
  BY Facts
<1>3. ASSUME NEW r \in Recs
      PROVE  /\ rec'[r] \in RecordingRow /\ rec'[r].status = rec[r].status /\ rec'[r].family = rec[r].family
             /\ rec'[r].dur = rec[r].dur /\ rec'[r].recent = rec[r].recent
             /\ rec'[r].user \in {rec[r].user, NoUser}
  <2>1. rec[r] \in RecordingRow
    BY <1>2 DEF TypeOK
  <2>2. rec'[r] = IF rec[r].user = u THEN [rec[r] EXCEPT !.user = NoUser] ELSE rec[r]
    BY <1>1
  <2> QED BY <2>1, <2>2 DEF RecordingRow
<1>4. ASSUME NEW b \in Books
      PROVE  /\ book'[b] \in BookRow /\ book'[b].status = book[b].status /\ book'[b].family = book[b].family
             /\ book'[b].recent = book[b].recent /\ book'[b].user \in {book[b].user, NoUser}
  <2>1. book[b] \in BookRow
    BY <1>2 DEF TypeOK
  <2>2. book'[b] = IF book[b].user = u THEN [book[b] EXCEPT !.user = NoUser] ELSE book[b]
    BY <1>1
  <2> QED BY <2>1, <2>2 DEF BookRow
<1>5. rec' \in [Recs -> RecordingRow] /\ book' \in [Books -> BookRow]
  BY <1>1, <1>3, <1>4
<1>6. TypeOK'
  BY <1>1, <1>2, <1>5 DEF TypeOK
<1>7. /\ \A r \in Recs : Live(r)' = Live(r)
      /\ \A b \in Books : LiveBook(b)' = LiveBook(b)
  BY <1>3, <1>4 DEF Live, LiveBook
<1>8. RecMoves /\ BookMoves
  BY <1>3, <1>4, <1>7 DEF RecMoves, BookMoves
<1>9. NothingLeftBehind' /\ Owned'
  BY <1>1, <1>2, <1>3, <1>4, <1>7 DEF NothingLeftBehind, Owned
<1>10. (\A s \in Threads : Spares(s)) /\ WithinRecordingLimits' /\ WithinBookLimits'
  BY <1>1, <1>3, <1>4, <1>6, <1>7, <1>8, NoneComes
<1> QED BY <1>1, <1>6, <1>9, <1>10, FinishOwn DEF DataStep

\* What happens meanwhile spares every request.
LEMMA ElsewhereStep ==
    ASSUME IInv, Elsewhere
    PROVE  /\ TypeOK' /\ WithinRecordingLimits' /\ WithinBookLimits' /\ NothingLeftBehind' /\ Owned'
           /\ \A s \in Threads : Spares(s)
           /\ req' = req /\ held' = held /\ want' = want
<1>1. TypeOK /\ NothingLeftBehind /\ Owned
  BY DEF IInv
<1>2. req' = req /\ held' = held /\ want' = want /\ users' = users /\ families' = families /\ queued' = queued
  BY DEF Elsewhere, EndRecording, Ages, EndBook, AgesBook
<1>3. /\ rec' \in [Recs -> RecordingRow]
      /\ \A r \in Recs :
            /\ rec'[r].family = rec[r].family /\ rec'[r].user = rec[r].user /\ rec'[r].dur = rec[r].dur
            /\ rec'[r].recent => rec[r].recent
            /\ \/ rec'[r].status = rec[r].status
               \/ rec[r].status = "active" /\ rec'[r].status \in {"completed", "failed"}
  <2>1. ASSUME NEW r \in Recs, NEW s \in {"completed", "failed"}, rec[r].status = "active",
               rec' = [rec EXCEPT ![r].status = s]
        PROVE  <1>3!1 /\ <1>3!2
    BY <1>1, <2>1 DEF TypeOK, RecordingRow
  <2>2. ASSUME NEW r \in Recs, rec[r].recent, rec' = [rec EXCEPT ![r].recent = FALSE]
        PROVE  <1>3!1 /\ <1>3!2
    BY <1>1, <2>2 DEF TypeOK, RecordingRow
  <2>3. CASE rec' = rec
    BY <1>1, <2>3 DEF TypeOK
  <2> QED BY <2>1, <2>2, <2>3 DEF Elsewhere, EndRecording, Ages, EndBook, AgesBook
<1>4. /\ book' \in [Books -> BookRow]
      /\ \A b \in Books :
            /\ book'[b].family = book[b].family /\ book'[b].user = book[b].user
            /\ book'[b].recent => book[b].recent
            /\ \/ book'[b].status = book[b].status
               \/ book[b].status = "active" /\ book'[b].status = "terminal"
  <2>1. ASSUME NEW b \in Books, book[b].status = "active", book' = [book EXCEPT ![b].status = "terminal"]
        PROVE  <1>4!1 /\ <1>4!2
    BY <1>1, <2>1 DEF TypeOK, BookRow
  <2>2. ASSUME NEW b \in Books, book[b].recent, book' = [book EXCEPT ![b].recent = FALSE]
        PROVE  <1>4!1 /\ <1>4!2
    BY <1>1, <2>2 DEF TypeOK, BookRow
  <2>3. CASE book' = book
    BY <1>1, <2>3 DEF TypeOK
  <2> QED BY <2>1, <2>2, <2>3 DEF Elsewhere, EndRecording, Ages, EndBook, AgesBook
<1>5. TypeOK'
  BY <1>1, <1>2, <1>3, <1>4 DEF TypeOK
<1>6. /\ \A r \in Recs : Live(r)' = Live(r)
      /\ \A b \in Books : LiveBook(b)' = LiveBook(b)
  BY <1>3, <1>4 DEF Live, LiveBook
<1>7. RecMoves /\ BookMoves
  <2>1. RecMoves
    BY <1>3, <1>6 DEF RecMoves
  <2>2. BookMoves
    BY <1>4, <1>6 DEF BookMoves
  <2> QED BY <2>1, <2>2
<1>8. NothingLeftBehind' /\ Owned'
  BY <1>1, <1>2, <1>3, <1>4, <1>6 DEF NothingLeftBehind, Owned
<1>9. (\A s \in Threads : Spares(s)) /\ WithinRecordingLimits' /\ WithinBookLimits'
  BY <1>2, <1>3, <1>4, <1>5, <1>6, <1>7, NoneComes
<1> QED BY <1>2, <1>5, <1>8, <1>9

-----------------------------------------------------------------------------
(* The invariant is inductive                                              *)

LEMMA IInvInit == ASSUME Init PROVE IInv
<1>1. TypeOK
  <2>1. 0 \in 0..NumFamilies /\ 0 \in 0..MaxDuration
    BY ContentAssumption
  <2>2. NoRecording \in RecordingRow /\ NoBookRow \in BookRow
    BY <2>1 DEF NoRecording, RecordingRow, NoBookRow, BookRow
  <2> QED BY <2>2 DEF Init, TypeOK
<1>2. /\ \A r \in Recs : rec[r].status = "unused" /\ rec[r].user = NoUser /\ ~ Live(r)
      /\ \A b \in Books : book[b].status = "unused" /\ book[b].user = NoUser /\ ~ LiveBook(b)
  BY DEF Init, NoRecording, NoBookRow, Live, LiveBook
<1>3. /\ \A t \in Threads : held[t] = {} /\ want[t] = <<>> /\ req[t] = NoRequest
      /\ held = [t \in Threads |-> {}] /\ want = [t \in Threads |-> <<>>]
      /\ req = [t \in Threads |-> NoRequest]
  BY DEF Init, InitLocks
<1>4. ReqTypes /\ LockTypes /\ Disjoint
  <2>1. <<>> \in Seq(SUBSET RowIds)
    OBVIOUS
  <2> QED BY <1>3, <2>1, NoRequestType DEF ReqTypes, LockTypes, Disjoint
<1>5. NothingLeftBehind /\ Owned
  BY <1>2 DEF NothingLeftBehind, Owned
<1>6. WithinRecordingLimits /\ WithinBookLimits
  <2>1. Cardinality({}) = 0
    BY FS_EmptySet
  <2>2. \A f : Active(f) = {} /\ RecsOf(f) = {} /\ Recent(RecsOf(f)) = {} /\ ActiveBooks(f) = {} /\ RecentBooks(f) = {}
    BY <1>2 DEF Active, RecsOf, Recent, ActiveBooks, RecentBooks, BooksOf
  <2>3. \A u : Recent(ByUser(u)) = {}
    BY <1>2 DEF ByUser, Recent
  <2>4. /\ \A f : Seconds(Recent(RecsOf(f))) = 0
        /\ \A u : Seconds(Recent(ByUser(u))) = 0
    BY <2>2, <2>3, SecondsAreTotals, TotalEmpty
  <2>5. /\ \A f \in Families : FamilyWithin(f) /\ BooksWithin(f)
        /\ \A u \in Users : AccountWithin(u)
    BY <2>1, <2>2, <2>3, <2>4, LimitsAreNat DEF FamilyWithin, BooksWithin, AccountWithin
  <2> QED BY <2>5, LimitParts
<1>7. (\A t \in Threads : Local(t)) /\ \A s, t \in Threads : s # t => Apart(s, t)
  BY <1>3, IdleLocal
<1> QED BY <1>1, <1>4, <1>5, <1>6, <1>7 DEF IInv

LEMMA ThreadStep ==
    ASSUME IInv, NEW t \in Threads, OwnStep(t), DataStep(t)
    PROVE  IInv'
<1>1. /\ LockTypes' /\ ReqTypes' /\ Disjoint' /\ Others(t) /\ Local(t)'
      /\ \A s \in Threads \ {t} : Apart(s, t)'
      /\ TypeOK' /\ WithinRecordingLimits' /\ WithinBookLimits' /\ NothingLeftBehind' /\ Owned'
      /\ \A s \in Threads \ {t} : Spares(s)
  BY DEF OwnStep, DataStep
<1>2. \A s \in Threads : Local(s)'
  <2> TAKE s \in Threads
  <2>1. CASE s = t
    BY <1>1, <2>1
  <2>2. CASE s # t
    BY <1>1, <2>2, Stable DEF Others
  <2> QED BY <2>1, <2>2
<1>3. \A a, b \in Threads : a # b => Apart(a, b)'
  BY <1>1, AllApart
<1> QED BY <1>1, <1>2, <1>3 DEF IInv

LEMMA RequestStep ==
    ASSUME IInv, NEW t \in Threads, Request(t)
    PROVE  OwnStep(t) /\ DataStep(t)
<1>1. req[t].at = "idle"
  BY DEF Request
<1> QED BY <1>1, BeginRecordingStep, BeginBookStep, BeginRegenerateStep, BeginDeleteRecordingStep,
           BeginDeleteBookStep, BeginDeleteFamilyStep, BeginDeleteAccountStep DEF Request

LEMMA TransactStep ==
    ASSUME IInv, NEW t \in Threads, Transact(t)
    PROVE  OwnStep(t) /\ DataStep(t)
BY LockNextStep, DeadlockAbortStep, RecordingUserStep, RecordingQuotaStep, PublishRecordingStep,
   BookQuotaStep, LockSourcesStep, CreateBookStep, DeleteRecordingStep, DeleteBookStep,
   DeleteFamilyLocksStep, DeleteFamilyStep, DeleteAccountFamiliesStep, DeleteAccountBooksStep,
   DeleteAccountStep DEF Transact

LEMMA IInvStep == ASSUME IInv, [Next]_vars PROVE IInv'
<1>1. ASSUME NEW t \in Threads, Request(t) \/ Transact(t) PROVE IInv'
  BY <1>1, RequestStep, TransactStep, ThreadStep
<1>2. CASE Elsewhere
  <2>1. /\ TypeOK' /\ WithinRecordingLimits' /\ WithinBookLimits' /\ NothingLeftBehind' /\ Owned'
        /\ \A s \in Threads : Spares(s)
        /\ req' = req /\ held' = held /\ want' = want
    BY <1>2, ElsewhereStep
  <2>2. ReqTypes' /\ LockTypes' /\ Disjoint'
    BY <2>1 DEF IInv, ReqTypes, LockTypes, Disjoint
  <2>3. \A s \in Threads : Local(s)'
    BY <2>1, Stable
  <2>4. \A s : Asked(s)' = Asked(s) /\ Touches(s)' = Touches(s)
    BY <2>1 DEF Asked, Pending, Touches
  <2>5. \A s, t \in Threads : s # t => Apart(s, t)'
    BY <2>1, <2>4 DEF IInv, Apart, FamilyOp
  <2> QED BY <2>1, <2>2, <2>3, <2>5 DEF IInv
<1>3. CASE UNCHANGED vars
  <2>1. /\ UNCHANGED dataVars /\ req' = req /\ held' = held /\ want' = want
        /\ rec' = rec /\ book' = book /\ families' = families
    BY <1>3 DEF vars, dataVars
  <2>2. TypeOK /\ WithinRecordingLimits /\ WithinBookLimits /\ NothingLeftBehind /\ Owned
    BY DEF IInv
  <2>3. TypeOK' /\ RecMoves /\ BookMoves /\ (\A r : Live(r)' = Live(r)) /\ \A b : LiveBook(b)' = LiveBook(b)
    BY <2>1, <2>2, QuietRows
  <2>4. WithinRecordingLimits' /\ WithinBookLimits'
    BY <2>1, <2>2, <2>3, NothingNew DEF Live, LiveBook
  <2>5. NothingLeftBehind' /\ Owned'
    BY <1>3, <2>1, <2>2, <2>3 DEF NothingLeftBehind, Owned, vars
  <2>6. ReqTypes' /\ LockTypes' /\ Disjoint'
    BY <2>1 DEF IInv, ReqTypes, LockTypes, Disjoint
  <2>7. \A s \in Threads : Local(s)'
    BY <2>1, <2>3, QuietSpares, Stable
  <2>8. \A s : Asked(s)' = Asked(s) /\ Touches(s)' = Touches(s)
    BY <2>1 DEF Asked, Pending, Touches
  <2>9. \A s, t \in Threads : s # t => Apart(s, t)'
    BY <2>1, <2>8 DEF IInv, Apart, FamilyOp
  <2> QED BY <2>3, <2>4, <2>5, <2>6, <2>7, <2>9 DEF IInv
<1> QED BY <1>1, <1>2, <1>3 DEF Next

\* Whatever its requests do at once, the invariant holds in every reachable state.
THEOREM Inductive == Spec => []IInv
<1>1. Init => IInv
  BY IInvInit
<1>2. IInv /\ [Next]_vars => IInv'
  BY IInvStep
<1> QED BY <1>1, <1>2, PTL DEF Spec

-----------------------------------------------------------------------------
(* Requests that wait for each other                                       *)

FamilyRows == {FamilyLock(f) : f \in Families}

\* A request that has some row and waits for another one is in one of five situations.
AwaitsFamily(t) ==
    /\ req[t].op = "create_recording"
    /\ held[t] \subseteq {UserLock(req[t].user)} /\ Pending(t) \subseteq FamilyRows

HasFamily(t) ==
    FamilyOp(t) /\ req[t].family \in families /\ FamilyLock(req[t].family) \in held[t]

AwaitsContent(t) == HasFamily(t) /\ Pending(t) \subseteq ContentIds

AwaitsCreator(t) ==
    /\ HasFamily(t) /\ req[t].op = "create_book" /\ req[t].at = "insert"
    /\ Pending(t) \subseteq {UserLock(req[t].user)} \cup ContentIds
    /\ held[t] \subseteq {UserLock(req[t].user)} \cup FamilyRows \cup ContentIds

AwaitsFamilies(t) ==
    /\ req[t].op = "delete_account" /\ Ascending(t)
    /\ held[t] \subseteq {UserLock(req[t].user)} \cup FamilyRows /\ Pending(t) \subseteq FamilyRows

AwaitsCreated(t) ==
    /\ req[t].op = "delete_account" /\ Pending(t) \subseteq ContentIds
    /\ \A f \in families : FamilyLock(f) \in held[t]

LEMMA Waiters ==
    ASSUME IInv, NEW t \in Threads, Pending(t) # {}, held[t] # {}
    PROVE  /\ AwaitsFamily(t) \/ AwaitsContent(t) \/ AwaitsCreator(t) \/ AwaitsFamilies(t) \/ AwaitsCreated(t)
           /\ ~ AwaitsFamilies(t) => Pending(t) \cap held[t] = {}
<1> DEFINE q == req[t]
<1>1. /\ TypeOK /\ (q.op = "none" => q.at = "idle") /\ q \in RequestRow
      /\ Idle(t) /\ Uploading(t) /\ Binding(t) /\ Removing(t) /\ Closing(t) /\ Leaving(t)
  BY Facts
<1>2. want[t] # <<>>
  BY DEF Pending
<1>3. q.at # "idle" /\ q.op # "none"
  BY <1>1, <1>2 DEF Idle
<1>4. OneBatch(t) => Pending(t) \cap held[t] = {}
  <2>1. SUFFICES ASSUME NEW rows, want[t] = <<rows>>, rows \cap held[t] = {}
                 PROVE  Pending(t) \cap held[t] = {}
    BY <1>2 DEF OneBatch
  <2> QED BY <2>1 DEF Pending
<1>5. Pending(t) \subseteq Asked(t) /\ held[t] \subseteq Asked(t) /\ Asked(t) = held[t] \cup Pending(t)
  BY DEF Asked
<1>6. ASSUME OneBatch(t), NEW x, Asked(t) = {x} PROVE FALSE
  BY <1>4, <1>5, <1>6
<1>7. CASE q.op = "create_recording"
  <2>1. OneBatch(t) /\ q.at # "user"
    BY <1>1, <1>6, <1>7 DEF Uploading
  <2>2. /\ UserLock(q.user) \in held[t] /\ Asked(t) = {UserLock(q.user), FamilyLock(q.family)}
        /\ q.family \in Families
    BY <1>1, <1>7, <2>1 DEF Uploading
  <2>3. held[t] \subseteq {UserLock(q.user)} /\ Pending(t) \subseteq {FamilyLock(q.family)}
    BY <1>4, <1>5, <2>1, <2>2
  <2> QED BY <1>4, <1>7, <2>1, <2>2, <2>3 DEF AwaitsFamily, FamilyRows
<1>8. CASE q.op = "create_book"
  <2>1. OneBatch(t) /\ q.at # "family"
    BY <1>1, <1>6, <1>8 DEF Binding
  <2>2. /\ q.at \in {"sources", "insert"} /\ HasFamily(t) /\ q.family \in Families /\ q.sources \subseteq Recs
    BY <1>1, <1>8, <2>1 DEF Binding, HasFamily, FamilyOp, RequestRow
  <2>3. FamilyLock(q.family) \notin Pending(t)
    BY <1>4, <2>1, <2>2 DEF HasFamily
  <2>4. CASE q.at = "sources"
    <3>1. SourceRows(t) \subseteq ContentIds
      BY <2>2, RowsAreIds DEF SourceRows
    <3>2. Asked(t) = {FamilyLock(q.family)} \cup SourceRows(t)
      BY <1>1, <1>8, <2>4 DEF Binding
    <3> QED BY <1>4, <1>5, <2>1, <2>2, <2>3, <3>1, <3>2 DEF AwaitsContent, AwaitsFamilies
  <2>5. CASE q.at = "insert"
    <3>1. Asked(t) \subseteq {FamilyLock(q.family), UserLock(q.user)} \cup ContentIds
      BY <1>1, <1>8, <2>5 DEF Binding
    <3> QED BY <1>4, <1>5, <1>8, <2>1, <2>2, <2>3, <2>5, <3>1 DEF AwaitsCreator, FamilyRows
  <2> QED BY <2>2, <2>4, <2>5
<1>9. CASE q.op \in {"delete_recording", "delete_book"}
  BY <1>1, <1>6, <1>9 DEF Removing
<1>10. CASE q.op = "delete_family"
  <2>1. OneBatch(t) /\ q.at # "recordings"
    BY <1>1, <1>6, <1>10 DEF Closing
  <2>2. HasFamily(t) /\ Pending(t) \subseteq ContentIds
    BY <1>1, <1>10, <2>1 DEF Closing, HasFamily, FamilyOp
  <2> QED BY <1>4, <2>1, <2>2 DEF AwaitsContent
<1>11. CASE q.op = "delete_account"
  <2>1. q.at # "families"
    BY <1>1, <1>6, <1>11 DEF Leaving
  <2>2. CASE q.at = "books"
    <3>1. /\ Asked(t) \subseteq {UserLock(q.user)} \cup FamilyRows
          /\ UserLock(q.user) \notin Pending(t) /\ Ascending(t)
      BY <1>1, <1>11, <2>2 DEF Leaving, FamilyRows
    <3> QED BY <1>5, <1>11, <3>1 DEF AwaitsFamilies
  <2>3. CASE q.at = "commit"
    BY <1>1, <1>4, <1>11, <2>3 DEF Leaving, AwaitsCreated
  <2> QED BY <1>1, <1>11, <2>1, <2>2, <2>3 DEF Leaving
<1> QED BY <1>1, <1>3, <1>7, <1>8, <1>9, <1>10, <1>11 DEF RequestRow, Ops

\* A book's insert and an upload or an account deletion of the book's creator.
MeetAt(s, t) ==
    /\ req[s].op = "create_book" /\ req[s].at = "insert"
    /\ req[t].op \in {"create_recording", "delete_account"} /\ req[t].user = req[s].user

\* Two requests, each with a row that the other one waits for.
Crossed(s, t, x, y) ==
    /\ x \in Pending(s) /\ x \in held[t] /\ y \in Pending(t) /\ y \in held[s]

\* Two requests that have their families' rows are about different families, and their
\* content is.
LEMMA FamiliesDiffer ==
    ASSUME IInv, NEW s \in Threads, NEW t \in Threads, s # t, HasFamily(s), HasFamily(t)
    PROVE  Asked(s) \cap Asked(t) \cap ContentIds = {}
<1>1. Apart(s, t) /\ Disjoint
  BY DEF IInv
<1>2. req[s].family # req[t].family
  BY <1>1 DEF HasFamily, Disjoint
<1>3. Touches(s) \cap Touches(t) = {}
  BY <1>1, <1>2 DEF Apart, HasFamily
<1> QED BY <1>3 DEF Touches

LEMMA NoCircleFrom ==
    ASSUME IInv, NEW s \in Threads, NEW t \in Threads, s # t, NEW x, NEW y, Crossed(s, t, x, y),
           AwaitsFamily(s) \/ AwaitsContent(s) \/ AwaitsFamilies(s) \/ AwaitsCreated(s)
    PROVE  MeetAt(t, s)
<1>1. /\ x \in Pending(s) /\ x \in held[t] /\ y \in Pending(t) /\ y \in held[s]
      /\ x \in Asked(s) /\ x \in Asked(t) /\ y \in Asked(s) /\ y \in Asked(t)
      /\ Disjoint /\ Apart(s, t)
  BY DEF Crossed, Asked, IInv
<1>2. /\ AwaitsFamily(t) \/ AwaitsContent(t) \/ AwaitsCreator(t) \/ AwaitsFamilies(t) \/ AwaitsCreated(t)
  BY <1>1, Waiters
<1>3. /\ FamilyRows \cap ContentIds = {}
      /\ \A u : UserLock(u) \notin FamilyRows /\ UserLock(u) \notin ContentIds
  BY RowsDiffer, ContentDiffers DEF FamilyRows
<1>4. CASE AwaitsFamily(s)
  <2>1. y = UserLock(req[s].user) /\ x \in FamilyRows
    BY <1>1, <1>4 DEF AwaitsFamily
  <2>2. CASE AwaitsCreator(t)
    <3>1. y = UserLock(req[t].user)
      BY <1>1, <1>3, <2>1, <2>2 DEF AwaitsCreator
    <3>2. UserLock(req[s].user) = UserLock(req[t].user)
      BY <2>1, <3>1
    <3> QED BY <1>4, <2>2, <3>2, RowsDiffer DEF AwaitsFamily, AwaitsCreator, MeetAt
  <2> QED BY <1>1, <1>2, <1>3, <2>1, <2>2 DEF AwaitsFamily, AwaitsContent, AwaitsFamilies, AwaitsCreated
<1>5. CASE AwaitsContent(s)
  <2>1. x \in ContentIds /\ HasFamily(s)
    BY <1>1, <1>5 DEF AwaitsContent
  <2>2. CASE HasFamily(t)
    BY <1>1, <2>1, <2>2, FamiliesDiffer
  <2>3. CASE AwaitsFamily(t) \/ AwaitsFamilies(t)
    BY <1>1, <1>3, <2>1, <2>3 DEF AwaitsFamily, AwaitsFamilies
  <2>4. CASE AwaitsCreated(t)
    BY <1>1, <2>1, <2>4 DEF AwaitsCreated, HasFamily, Disjoint
  <2> QED BY <1>2, <2>2, <2>3, <2>4 DEF AwaitsContent, AwaitsCreator
<1>6. CASE AwaitsFamilies(s)
  <2>1. x \in FamilyRows /\ y \in {UserLock(req[s].user)} \cup FamilyRows /\ req[s].op = "delete_account"
    BY <1>1, <1>6 DEF AwaitsFamilies
  <2>2. CASE AwaitsFamily(t)
    BY <1>1, <1>3, <2>1, <2>2 DEF AwaitsFamily
  <2>3. CASE AwaitsContent(t) \/ AwaitsCreated(t)
    BY <1>1, <1>3, <2>1, <2>3 DEF AwaitsContent, AwaitsCreated
  <2>4. CASE AwaitsCreator(t)
    <3>1. y = UserLock(req[s].user) /\ y = UserLock(req[t].user)
      BY <1>1, <1>3, <2>1, <2>4 DEF AwaitsCreator
    <3>2. UserLock(req[s].user) = UserLock(req[t].user)
      BY <3>1
    <3>3. req[s].user = req[t].user
      BY <3>2, RowsDiffer
    <3> QED BY <2>1, <2>4, <3>3 DEF AwaitsCreator, MeetAt
  <2>5. CASE AwaitsFamilies(t)
    <3>1. x \in FamilyRows /\ y \in FamilyRows
      BY <1>1, <2>1, <2>5 DEF AwaitsFamilies
    <3>2. PICK i \in Families, j \in Families : x = FamilyLock(i) /\ y = FamilyLock(j)
      BY <3>1 DEF FamilyRows
    <3>3. j < i /\ i < j
      BY <1>1, <1>6, <2>5, <3>2 DEF AwaitsFamilies, Ascending
    <3>4. i \in Int /\ j \in Int
      BY ContentAssumption DEF Families
    <3> QED BY <3>3, <3>4
  <2> QED BY <1>2, <2>2, <2>3, <2>4, <2>5
<1>7. CASE AwaitsCreated(s)
  <2>1. x \in ContentIds /\ req[s].op = "delete_account"
    BY <1>1, <1>7 DEF AwaitsCreated
  <2>2. CASE HasFamily(t)
    BY <1>1, <1>7, <2>2 DEF AwaitsCreated, HasFamily, Disjoint
  <2>3. CASE AwaitsFamily(t) \/ AwaitsFamilies(t)
    BY <1>1, <1>3, <2>1, <2>3 DEF AwaitsFamily, AwaitsFamilies
  <2>4. CASE AwaitsCreated(t)
    BY <1>1, <2>1, <2>4 DEF AwaitsCreated, Apart
  <2> QED BY <1>2, <2>2, <2>3, <2>4 DEF AwaitsContent, AwaitsCreator
<1> QED BY <1>4, <1>5, <1>6, <1>7

\* Two book requests that both insert do not cross: each has its family, and an account's
\* row is not both held and waited for.
LEMMA CreatorsDoNotCross ==
    ASSUME IInv, NEW s \in Threads, NEW t \in Threads, s # t, NEW x, NEW y, Crossed(s, t, x, y),
           AwaitsCreator(s), AwaitsCreator(t)
    PROVE  FALSE
<1>1. /\ x \in Pending(s) /\ x \in held[t] /\ y \in Pending(t) /\ y \in held[s]
      /\ x \in Asked(s) /\ x \in Asked(t) /\ y \in Asked(s) /\ y \in Asked(t)
  BY DEF Crossed, Asked
<1>2. Asked(s) \cap Asked(t) \cap ContentIds = {}
  BY FamiliesDiffer DEF AwaitsCreator
<1>3. x = UserLock(req[s].user) /\ y = UserLock(req[t].user)
  BY <1>1, <1>2 DEF AwaitsCreator
<1>4. \A u : UserLock(u) \notin FamilyRows /\ UserLock(u) \notin ContentIds
  BY RowsDiffer, ContentDiffers DEF FamilyRows
<1>5. x = UserLock(req[t].user)
  BY <1>1, <1>3, <1>4 DEF AwaitsCreator
<1>6. ~ AwaitsFamilies(t)
  BY DEF AwaitsCreator, AwaitsFamilies
<1>7. Pending(t) \cap held[t] = {}
  BY <1>1, <1>6, Waiters
<1> QED BY <1>1, <1>3, <1>5, <1>7

LEMMA CyclesMeet == ASSUME IInv PROVE CyclesNeedBookInsert
<1> SUFFICES ASSUME NEW s \in Threads, NEW t \in Threads, s # t, InCycle(s, t)
             PROVE  MeetAt(s, t) \/ MeetAt(t, s)
  BY DEF CyclesNeedBookInsert, MeetAt
<1>1. \A a \in Threads : NextRows(a) \subseteq Pending(a)
  <2> TAKE a \in Threads
  <2>1. want[a] \in Seq(SUBSET RowIds)
    BY DEF IInv, LockTypes
  <2>2. want[a] # <<>> => 1 \in DOMAIN want[a] /\ Head(want[a]) = want[a][1]
    BY <2>1
  <2> QED BY <2>2 DEF NextRows, Pending
<1>2. PICK x \in Pending(s) : x \in held[t]
  BY <1>1 DEF InCycle, Waits
<1>3. PICK y \in Pending(t) : y \in held[s]
  BY <1>1 DEF InCycle, Waits
<1>4. Crossed(s, t, x, y) /\ Crossed(t, s, y, x)
  BY <1>2, <1>3 DEF Crossed
<1>5. /\ AwaitsFamily(s) \/ AwaitsContent(s) \/ AwaitsCreator(s) \/ AwaitsFamilies(s) \/ AwaitsCreated(s)
      /\ AwaitsFamily(t) \/ AwaitsContent(t) \/ AwaitsCreator(t) \/ AwaitsFamilies(t) \/ AwaitsCreated(t)
  BY <1>2, <1>3, Waiters
<1>6. CASE AwaitsCreator(s) /\ AwaitsCreator(t)
  BY <1>4, <1>6, CreatorsDoNotCross
<1>7. CASE AwaitsFamily(s) \/ AwaitsContent(s) \/ AwaitsFamilies(s) \/ AwaitsCreated(s)
  BY <1>4, <1>7, NoCircleFrom
<1>8. CASE AwaitsFamily(t) \/ AwaitsContent(t) \/ AwaitsFamilies(t) \/ AwaitsCreated(t)
  BY <1>4, <1>8, NoCircleFrom
<1> QED BY <1>5, <1>6, <1>7, <1>8

\* Concurrent creations stay within the quotas, a deletion leaves nothing behind, and only a
\* book's insert can be part of a deadlock (check_creation_allowed, delete_family,
\* create_queued_book).
THEOREM ContentInvCorrect == Spec => []ContentInv
<1>1. IInv => ContentInv
  BY CyclesMeet DEF IInv, ContentInv
<1> QED BY <1>1, Inductive, PTL

-----------------------------------------------------------------------------
(* The sources of a new book                                               *)

\* Only the commit of a book request makes a book.
LEMMA OnlyCreateBook ==
    ASSUME IInv, [Next]_vars, NEW b \in Books, book[b].status = "unused", book'[b].status = "active"
    PROVE  \E t \in Threads : CreateBook(t) /\ ~ Refuse(t)
<1>1. TypeOK /\ Owned
  BY DEF IInv
<1>2. book' # book
  OBVIOUS
<1>3. ~ UNCHANGED dataVars
  BY <1>2 DEF dataVars
<1>4. ASSUME NEW t \in Threads, Request(t) PROVE FALSE
  BY <1>3, <1>4 DEF Request, BeginRecording, BeginBook, BeginRegenerate, BeginDeleteRecording,
                    BeginDeleteBook, BeginDeleteFamily, BeginDeleteAccount, Begin
<1>5. ASSUME NEW t \in Threads, NEW S \in SUBSET Books, \A o \in S : LiveBook(o), book' = WithoutBooks(S)
      PROVE  FALSE
  <2>1. /\ \A o \in S : book'[o].status = "deleted"
        /\ \A o \in Books \ S : book'[o].status = book[o].status
    BY <1>1, <1>5, BooksGo
  <2> QED BY <2>1
<1>6. ASSUME NEW t \in Threads, Transact(t), ~ (CreateBook(t) /\ ~ Refuse(t)) PROVE FALSE
  <2>1. ~ Refuse(t)
    BY <1>3 DEF Refuse
  <2>2. ~ CreateBook(t)
    BY <1>6, <2>1
  <2>3. ~ (DeleteBook(t) \/ DeleteFamily(t))
    <3>1. ASSUME DeleteBook(t) PROVE FALSE
      <4>1. LiveBook(req[t].on) /\ book' = WithoutBooks({req[t].on})
        BY <2>1, <3>1 DEF DeleteBook
      <4>2. req[t].on \in Books
        BY <3>1, GrantedHolds, Facts DEF DeleteBook, Removing
      <4> QED BY <1>5, <4>1, <4>2
    <3>2. ASSUME DeleteFamily(t) PROVE FALSE
      <4>1. book' = WithoutBooks(BooksOf(req[t].family))
        BY <3>2 DEF DeleteFamily
      <4> QED BY <1>5, <4>1 DEF BooksOf
    <3> QED BY <3>1, <3>2
  <2>4. ~ DeleteAccount(t)
    <3> SUFFICES ASSUME DeleteAccount(t) PROVE FALSE
      OBVIOUS
    <3>1. book'[b] = IF book[b].user = req[t].user THEN [book[b] EXCEPT !.user = NoUser] ELSE book[b]
      BY DEF DeleteAccount
    <3>2. book[b] \in BookRow
      BY <1>1 DEF TypeOK
    <3>3. book'[b].status = book[b].status
      BY <3>1, <3>2 DEF BookRow
    <3> QED BY <3>3
  <2>5. ~ (PublishRecording(t) \/ DeleteRecording(t))
    BY <1>2, <2>1 DEF PublishRecording, DeleteRecording
  <2>6. ~ (LockNext(t) \/ DeadlockAbort(t) \/ RecordingUser(t) \/ RecordingQuota(t) \/ BookQuota(t)
           \/ LockSources(t) \/ DeleteFamilyRecordings(t) \/ DeleteFamilyBooks(t)
           \/ DeleteAccountFamilies(t) \/ DeleteAccountBooks(t))
    BY <1>3, <2>1 DEF LockNext, DeadlockAbort, RecordingUser, RecordingQuota, BookQuota, LockSources,
         DeleteFamilyRecordings, DeleteFamilyBooks, DeleteAccountFamilies, DeleteAccountBooks
  <2> QED BY <1>6, <2>2, <2>3, <2>4, <2>5, <2>6 DEF Transact
<1>7. ASSUME Elsewhere PROVE FALSE
  <2>1. ASSUME NEW o \in Books, book' = [book EXCEPT ![o].status = "terminal"] PROVE FALSE
    BY <1>1, <2>1 DEF TypeOK, BookRow
  <2>2. ASSUME NEW o \in Books, book' = [book EXCEPT ![o].recent = FALSE] PROVE FALSE
    BY <1>1, <2>2 DEF TypeOK, BookRow
  <2> QED BY <1>2, <1>7, <2>1, <2>2 DEF Elsewhere, EndRecording, Ages, EndBook, AgesBook
<1>8. ~ UNCHANGED vars
  BY <1>2 DEF vars
<1> QED BY <1>4, <1>6, <1>7, <1>8 DEF Next

\* At the moment a book appears its sources exist, processed, in its family: no deletion
\* slips in between their selection and the snapshot (_lock_book_source_rows,
\* create_queued_book).
THEOREM SourcesExistCorrect == Spec => SourcesExist
<1>1. ASSUME IInv, [Next]_vars, NEW b \in Books, book[b].status = "unused", book'[b].status = "active"
      PROVE  book'[b].sources # {} /\ book'[b].sources \subseteq Eligible(book'[b].family)
  <2>1. PICK t \in Threads : CreateBook(t) /\ ~ Refuse(t)
    BY <1>1, OnlyCreateBook
  <2> DEFINE q == req[t]
             old == IF q.on \in Books THEN q.on ELSE NoBook
             x == [status |-> "active", family |-> q.family, user |-> q.user, recent |-> TRUE,
                   sources |-> q.sources, supersedes |-> old]
  <2>2. book' = [book EXCEPT ![q.book] = x]
    BY <2>1 DEF CreateBook
  <2>3. TypeOK /\ Binding(t) /\ q.op = "create_book" /\ q.at = "insert"
    BY <1>1, <2>1, Facts, GrantedHolds DEF CreateBook
  <2>4. /\ q.sources # {} /\ q.sources \subseteq RecsOf(q.family)
        /\ \A r \in q.sources : rec[r].status = "deleted" \/ rec[r].status = "completed"
    BY <2>3 DEF Binding
  <2>5. q.sources \subseteq Eligible(q.family)
    BY <2>4 DEF Eligible, RecsOf, Live
  <2>6. x.sources = q.sources /\ x.family = q.family
    OBVIOUS
  <2> HIDE DEF x
  <2>7. book'[b] = x
    BY <1>1, <2>2, <2>3 DEF TypeOK
  <2> QED BY <2>4, <2>5, <2>6, <2>7
<1>2. IInv /\ [Next]_vars => [\A b \in Books :
          book[b].status = "unused" /\ book'[b].status = "active"
            => book'[b].sources # {} /\ book'[b].sources \subseteq Eligible(book'[b].family)]_vars
  BY <1>1
<1> QED BY <1>2, Inductive, PTL DEF Spec, SourcesExist

=============================================================================
