------------------------ MODULE ConnectionPoolProofs ------------------------
(***************************************************************************)
(* What each operation of the connection pool keeps, whoever calls it and  *)
(* whether or not he holds what he releases: the lemmas that PoolClients   *)
(* and Sessions both rest on.                                              *)
(***************************************************************************)
EXTENDS ConnectionPool, TLAPS

(* With the write lock free no caller is inside an increment. *)
LEMMA NoGetter ==
    ASSUME WriteLockFree, NEW k \in HostKeys
    PROVE  GettersOf(k) = {}
  BY DEF WriteLockFree, GettersOf

(* A caller inside GetConnection carries a key and a count. *)
LEMMA GetterType ==
    ASSUME PoolTypeOK, NEW p \in Procs, reading[p].at = "get"
    PROVE  /\ reading[p].key \in HostKeys
           /\ reading[p].n \in Nat
           /\ p \in GettersOf(reading[p].key)
  BY DEF PoolTypeOK, Outside, GettersOf

(* The pool starts empty, with nothing to miscount. *)
LEMMA PoolInitInv == PoolInit => PoolInv
  BY PoolAssumption
  DEF PoolInit, PoolInv, PoolTypeOK, PoolConsistent, ClosedWereDialed, PooledOnce,
      GetterSeesEntry, AloneUnlessRaced, Pooled, GettersOf, Outside

(* Steps that leave the pool alone keep its invariant. *)
LEMMA PoolStutter == PoolInv /\ UNCHANGED poolVars => PoolInv'
  BY DEF poolVars, PoolInv, PoolTypeOK, PoolConsistent, ClosedWereDialed, PooledOnce,
         GetterSeesEntry, AloneUnlessRaced, Pooled, GettersOf

(* The first half of an increment: a second caller on the key makes it     *)
(* raced, a first one is alone with the current count.                     *)
LEMMA GetLoadInv ==
    ASSUME PoolInv, NEW p \in Procs, NEW k \in HostKeys, GetLoad(p, k)
    PROVE  PoolInv'
<1> USE DEF GetLoad, PoolInv
<1>1. PoolTypeOK' /\ ClosedWereDialed'
  BY DEF PoolTypeOK, ClosedWereDialed, InGet
<1>2. PoolConsistent' /\ PooledOnce'
  BY DEF PoolConsistent, PooledOnce, Pooled
<1>3. \A q \in Procs : q # p => reading'[q] = reading[q]
  BY DEF PoolTypeOK
<1>4. reading'[p] = InGet(k, refs[k])
  BY DEF PoolTypeOK
<1>5. GetterSeesEntry'
  BY <1>3, <1>4 DEF GetterSeesEntry, Pooled, InGet
<1>6. AloneUnlessRaced'
  <2> SUFFICES ASSUME NEW j \in HostKeys \ raced', NEW q \in GettersOf(j)'
               PROVE  /\ reading'[q].n = refs'[j]
                      /\ \A r \in GettersOf(j)' : r = q
    BY DEF AloneUnlessRaced
  <2>1. j \notin raced
    OBVIOUS
  <2>2. CASE j = k
    <3>1. GettersOf(k) = {}
      BY <2>2
    <3>2. GettersOf(k)' = {p}
      BY <1>3, <1>4, <3>1 DEF GettersOf, InGet
    <3>3. QED
      BY <1>4, <2>2, <3>2 DEF InGet
  <2>3. CASE j # k
    <3>1. GettersOf(j)' = GettersOf(j)
      BY <1>3, <1>4, <2>3 DEF GettersOf, InGet, PoolTypeOK, Outside
    <3>2. q # p
      BY <1>4, <2>3 DEF GettersOf, InGet
    <3>3. QED
      BY <1>3, <2>1, <3>1, <3>2 DEF AloneUnlessRaced, GettersOf
  <2>4. QED
    BY <2>2, <2>3
<1>7. QED
  BY <1>1, <1>2, <1>5, <1>6

(* The second half: the entry is still there; on a key without a race the  *)
(* loaded count is the count, and the step increments it.                  *)
LEMMA GetStoreInv ==
    ASSUME PoolInv, NEW p \in Procs, GetStore(p)
    PROVE  /\ PoolInv'
           /\ reading[p].key \in HostKeys /\ reading[p].n \in Nat
           /\ refs'[reading[p].key] = reading[p].n + 1
           /\ \A j \in HostKeys : j # reading[p].key => refs'[j] = refs[j]
           /\ reading[p].key \notin raced => reading[p].n = refs[reading[p].key]
<1> DEFINE k == reading[p].key
           n == reading[p].n
<1>1. /\ k \in HostKeys /\ n \in Nat
      /\ p \in GettersOf(k)
      /\ Pooled(k)
      /\ k \notin raced => n = refs[k]
  BY GetterType DEF GetStore, PoolInv, GetterSeesEntry, AloneUnlessRaced
<1>2. /\ refs' = [refs EXCEPT ![k] = n + 1]
      /\ reading' = [reading EXCEPT ![p] = Outside]
      /\ UNCHANGED <<connections, closed, dialed, raced>>
  BY DEF GetStore
<1>3. /\ refs \in [HostKeys -> Nat]
      /\ refs' \in [HostKeys -> Nat]
      /\ refs'[k] = n + 1
      /\ \A j \in HostKeys : j # k => refs'[j] = refs[j]
  BY <1>1, <1>2 DEF PoolInv, PoolTypeOK
<1>4. /\ reading'[p].at = "out"
      /\ \A q \in Procs : q # p => reading'[q] = reading[q]
  BY <1>2 DEF PoolInv, PoolTypeOK, Outside
<1>5. PoolTypeOK' /\ ClosedWereDialed'
  BY <1>2, <1>3 DEF PoolInv, PoolTypeOK, ClosedWereDialed, Outside
<1>6. PoolConsistent' /\ PooledOnce'
  BY <1>1, <1>2, <1>3 DEF PoolInv, PoolConsistent, PooledOnce, Pooled
<1>7. GetterSeesEntry'
  BY <1>2, <1>4 DEF PoolInv, GetterSeesEntry, Pooled
<1>8. AloneUnlessRaced'
  <2> SUFFICES ASSUME NEW j \in HostKeys \ raced, NEW q \in GettersOf(j)'
               PROVE  /\ reading'[q].n = refs'[j]
                      /\ \A r \in GettersOf(j)' : r = q
    BY <1>2 DEF AloneUnlessRaced
  <2>1. GettersOf(j)' = GettersOf(j) \ {p}
    BY <1>4 DEF GettersOf
  <2>2. q \in GettersOf(j) /\ q # p /\ j \in HostKeys \ raced
    BY <2>1
  <2>3. reading[q].n = refs[j] /\ \A r \in GettersOf(j) : r = q
    BY <2>2 DEF PoolInv, AloneUnlessRaced
  <2>4. j # k
    BY <1>1, <2>2, <2>3
  <2>5. q \in Procs /\ reading'[q] = reading[q]
    BY <1>4, <2>2 DEF GettersOf
  <2>6. QED
    BY <1>3, <2>1, <2>3, <2>4, <2>5
<1>9. QED
  BY <1>1, <1>3, <1>5, <1>6, <1>7, <1>8 DEF PoolInv

(* SetConnection runs alone, and the client is counted, stored or not. *)
LEMMA SetConnectionInv ==
    ASSUME PoolInv, NEW k \in HostKeys, NEW c \in Clients, SetConnection(k, c)
    PROVE  /\ PoolInv'
           /\ refs'[k] = refs[k] + 1
           /\ \A j \in HostKeys : j # k => refs'[j] = refs[j]
<1> USE DEF SetConnection, PoolInv
<1>1. \A j \in HostKeys : GettersOf(j) = {} /\ GettersOf(j)' = {}
  BY DEF WriteLockFree, GettersOf
<1>2. PoolTypeOK' /\ ClosedWereDialed'
  BY DEF PoolTypeOK, ClosedWereDialed
<1>3. /\ refs'[k] = refs[k] + 1
      /\ \A j \in HostKeys : j # k => refs'[j] = refs[j]
  BY DEF PoolConsistent, PoolTypeOK
<1>4. PoolConsistent' /\ PooledOnce'
  <2>1. CASE Pooled(k)
    <3>1. /\ connections' = connections
          /\ refs' \in [HostKeys -> Nat]
          /\ \A j \in HostKeys : refs'[j] > 0 <=> refs[j] > 0
      BY <2>1 DEF PoolTypeOK, PoolConsistent
    <3>2. \A j \in HostKeys : Pooled(j) => connections[j] \in dialed \ closed
      BY DEF PoolConsistent
    <3>3. QED
      BY <3>1, <3>2 DEF PoolConsistent, PooledOnce, Pooled
  <2>2. CASE ~Pooled(k)
    <3>1. /\ connections'[k] = c /\ refs'[k] = 1 /\ c # NoClient
          /\ \A j \in HostKeys : j # k => connections'[j] = connections[j] /\ refs'[j] = refs[j]
      BY <2>2, PoolAssumption DEF PoolTypeOK
    <3>2. \A j \in HostKeys : Pooled(j) => connections[j] # c
      BY DEF PoolConsistent
    <3>3. c \notin closed
      BY DEF PoolTypeOK, ClosedWereDialed
    <3>4. PoolConsistent'
      BY <3>1, <3>3 DEF PoolConsistent, Pooled
    <3>5. PooledOnce'
      BY <3>1, <3>2 DEF PooledOnce, Pooled
    <3>6. QED
      BY <3>4, <3>5
  <2>3. QED
    BY <2>1, <2>2
<1>5. GetterSeesEntry' /\ AloneUnlessRaced'
  BY <1>1 DEF GetterSeesEntry, AloneUnlessRaced, WriteLockFree
<1>6. QED
  BY <1>2, <1>3, <1>4, <1>5

(* ReleaseConnection runs alone; the last count takes both entries away. *)
LEMMA ReleaseConnectionInv ==
    ASSUME PoolInv, NEW k \in HostKeys, ReleaseConnection(k)
    PROVE  /\ PoolInv'
           /\ refs'[k] = IF refs[k] = 0 THEN 0 ELSE refs[k] - 1
           /\ \A j \in HostKeys : j # k => refs'[j] = refs[j]
<1> USE DEF ReleaseConnection, PoolInv
<1>1. \A j \in HostKeys : GettersOf(j) = {} /\ GettersOf(j)' = {}
  BY DEF WriteLockFree, GettersOf
<1>2. PoolTypeOK'
  BY DEF PoolTypeOK
<1>3. /\ refs'[k] = IF refs[k] = 0 THEN 0 ELSE refs[k] - 1
      /\ \A j \in HostKeys : j # k => refs'[j] = refs[j]
  BY DEF PoolTypeOK
<1>4. PoolConsistent' /\ PooledOnce' /\ ClosedWereDialed'
  BY DEF PoolConsistent, PooledOnce, ClosedWereDialed, Pooled, PoolTypeOK
<1>5. GetterSeesEntry' /\ AloneUnlessRaced'
  BY <1>1 DEF GetterSeesEntry, AloneUnlessRaced, WriteLockFree
<1>6. QED
  BY <1>2, <1>3, <1>4, <1>5
=============================================================================
