------------------------------ MODULE RowLocks ------------------------------
(***************************************************************************)
(* Row locks of concurrent PostgreSQL transactions at READ COMMITTED.      *)
(*                                                                         *)
(* SELECT ... FOR UPDATE, UPDATE and DELETE lock the rows they match and   *)
(* wait for each of them; a lock is kept until the transaction ends.  An   *)
(* insert or update that names a row by a foreign key waits for that row   *)
(* in the same way.  When transactions wait for one another in a circle,   *)
(* the database aborts one of them.                                        *)
(***************************************************************************)
EXTENDS Integers, Sequences, FiniteSets

CONSTANT Threads   \* the transactions that run at once, one per thread

VARIABLES
    held,   \* the rows a thread's transaction has locked
    want    \* what its current statement still has to lock: batches of rows, one
            \* batch after the other, the rows of a batch in any order

lockVars == <<held, want>>

Free(t, row) == \A s \in Threads \ {t} : row \notin held[s]

NextRows(t) == IF want[t] = <<>> THEN {} ELSE Head(want[t])

Granted(t) == want[t] = <<>>

\* A statement that matches the given rows, in no particular order ...
AnyOrder(t, rows) == IF rows \subseteq held[t] THEN <<>> ELSE <<rows \ held[t]>>

\* ... or ORDER BY the key, for rows Row(k).
ByKey(keys, Row(_)) ==
    [n \in 1..Cardinality(keys) |->
       {Row(k) : k \in {j \in keys : Cardinality({i \in keys : i < j}) = n - 1}}]

LockRow(t) ==
    /\ \E row \in NextRows(t) :
          /\ Free(t, row)
          /\ held' = [held EXCEPT ![t] = @ \cup {row}]
          /\ want' = [want EXCEPT ![t] = IF Head(@) = {row} THEN Tail(@)
                                         ELSE <<Head(@) \ {row}>> \o Tail(@)]

\* The next statement of t, with its batches.
Statement(t, batches) ==
    /\ want' = [want EXCEPT ![t] = batches]
    /\ UNCHANGED held

\* Commit or rollback.
ReleaseAll(t) ==
    /\ held' = [held EXCEPT ![t] = {}]
    /\ want' = [want EXCEPT ![t] = <<>>]

Stuck(t) == NextRows(t) # {} /\ \A row \in NextRows(t) : ~ Free(t, row)

Waits(s, t) == NextRows(s) \cap held[t] # {}

\* Two transactions that wait for each other.
InCycle(s, t) == Stuck(s) /\ Stuck(t) /\ Waits(s, t) /\ Waits(t, s)

InitLocks == held = [t \in Threads |-> {}] /\ want = [t \in Threads |-> <<>>]

=============================================================================
