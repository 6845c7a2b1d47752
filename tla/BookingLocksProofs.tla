-------------------------- MODULE BookingLocksProofs --------------------------
(***************************************************************************)
(* Proofs about BookingLocks, for every number of customers, visits and    *)
(* transactions: which operations may meet without waiting in a circle,    *)
(* and that the privacy run takes out nobody who has a visit ahead.        *)
(***************************************************************************)
EXTENDS BookingLocks, TLAPS

(* What a transaction does is one of the operations that meet.             *)
Acts(t) ==
  op[t] # None => /\ op[t] \in family
                  /\ on[t] \in IF op[t] \in Sweeping THEN Customers ELSE Visits

(* Who holds a row holds the first one that its operation takes.           *)
Holds(t) ==
  \A r \in Rows : owner[r] = t => r \in RowsOf(t) /\ owner[FirstRow(t)] = t

(* Who asks for a row lacks it, and has the first one or asks for it; a    *)
(* single visit's second row is asked for under the status that calls for  *)
(* it.                                                                     *)
Waits(t) ==
  asks[t] # None =>
    /\ op[t] # None /\ owner[asks[t]] # t
    /\ asks[t] # FirstRow(t) => owner[FirstRow(t)] = t
    /\ asks[t] # FirstRow(t) /\ op[t] \notin Sweeping =>
         \/ op[t] \in Calling /\ asks[t] = Visit(on[t])
         \/ op[t] \in Paying /\ asks[t] = Visit(on[t]) /\ status[on[t]] = "payment"
         \/ op[t] = "move" /\ asks[t] = Order(on[t]) /\ status[on[t]] = "confirmed"

(* A sweep that has an order or asks for one has the visits that it needs, *)
(* and has decided to strip the customer.                                  *)
Sweeps(t) ==
  op[t] \in Sweeping =>
    /\ \A v \in Visits : asks[t] = Visit(v) => v \in Swept(t)
    /\ \A v \in Visits : owner[Order(v)] = t \/ asks[t] = Order(v) =>
         Strips(t) /\ HoldsAll(t, SweptRows(t))

LocksInvariant ==
  TypeOK /\ \A t \in Txs : Acts(t) /\ Holds(t) /\ Waits(t) /\ Sweeps(t)
-----------------------------------------------------------------------------
(* Rows of different kinds, and of different records, are different.       *)
LEMMA RowKinds ==
  /\ \A c, d : Customer(c) # Visit(d) /\ Customer(c) # Order(d) /\ Visit(c) # Order(d)
  /\ \A c, d : c # d => Customer(c) # Customer(d) /\ Visit(c) # Visit(d)
                                                  /\ Order(c) # Order(d)
BY DEF Customer, Visit, Order

LEMMA NoneIsNoRow == ASSUME LocksAssumption PROVE None \notin Rows
BY DEF LocksAssumption, Rows, Customer, Visit, Order

(* The rows of a sweep are the customer, its visits and their orders.      *)
LEMMA RowsOfSweep ==
  ASSUME NEW t, op[t] \in Sweeping, NEW r \in RowsOf(t)
  PROVE  \/ r = Customer(on[t])
         \/ \E v \in Visits : CustomerOf[v] = on[t] /\ (r = Visit(v) \/ r = Order(v))
BY DEF RowsOf, VisitsOf

LEMMA RowsOfSingle ==
  ASSUME NEW t, op[t] \notin Sweeping, NEW r \in RowsOf(t)
  PROVE  r = Visit(on[t]) \/ r = Order(on[t])
BY DEF RowsOf

(* No transaction waits in a circle of operations that are safe together.  *)
LEMMA SafeFamiliesDoNotCircle ==
  ASSUME LocksAssumption, LocksInvariant, SafeTogether(family)
  PROVE  NobodyWaitsInACircle
<1> SUFFICES ASSUME NEW S \in SUBSET Txs, S # {},
                    \A t \in S : \E u \in S : Blocks(u, t)
             PROVE  FALSE
  BY DEF NobodyWaitsInACircle
<1> DEFINE Second(t) == asks[t] # FirstRow(t) /\ owner[FirstRow(t)] = t
<1> USE RowKinds, NoneIsNoRow
<1>1. \A t \in S : asks[t] # None /\ op[t] # None /\ asks[t] \in Rows /\ asks[t] \in RowsOf(t)
                   /\ owner[asks[t]] # t
  BY DEF Blocks, LocksInvariant, Waits, TypeOK
<1>2. ASSUME NEW t \in S, NEW u \in S, owner[asks[t]] = u
      PROVE  Second(u) /\ asks[t] \in RowsOf(u) /\ u # t
  BY <1>1, <1>2 DEF LocksInvariant, Holds, Waits
<1>3. ASSUME NEW t \in S, NEW u \in S, op[t] \in Sweeping, op[u] \in Sweeping,
             Second(t), owner[asks[t]] = u
      PROVE  FALSE
  <2>1. asks[t] # Customer(on[t])
    BY <1>3 DEF FirstRow
  <2>2. PICK v \in Visits :
          CustomerOf[v] = on[t] /\ (asks[t] = Visit(v) \/ asks[t] = Order(v))
    BY <1>1, <1>3, <2>1, RowsOfSweep
  <2>3. PICK w : CustomerOf[w] = on[u] /\ (asks[t] = Visit(w) \/ asks[t] = Order(w))
    BY <1>2, <1>3, <2>2, RowsOfSweep
  <2>4. on[t] = on[u]
    BY <2>2, <2>3
  <2> QED BY <1>2, <1>3, <2>4 DEF FirstRow
<1>4. ASSUME NEW t \in S, op[t] \in Sweeping, NEW v \in Visits, asks[t] = Order(v)
      PROVE  FALSE
  <2>1. PICK u \in S : owner[asks[t]] = u
    BY DEF Blocks
  <2>2. Second(t)
    <3>1. FirstRow(t) = Customer(on[t])
      BY <1>4 DEF FirstRow
    <3>2. Waits(t)
      BY DEF LocksInvariant
    <3> QED BY <1>1, <1>4, <3>1, <3>2 DEF Waits
  <2>3. op[u] \notin Sweeping
    BY <1>3, <1>4, <2>1, <2>2
  <2>4. asks[t] = Order(on[u])
    <3>1. asks[t] \in RowsOf(u)
      BY <1>2, <2>1
    <3>2. asks[t] = Visit(on[u]) \/ asks[t] = Order(on[u])
      BY <2>3, <3>1, RowsOfSingle
    <3> QED BY <1>4, <3>2
  <2>5. op[u] = "move" \/ op[u] \in Calling \cup Paying
    BY <1>1, <1>2, <2>1, <2>3 DEF LocksInvariant, Waits
  <2>6. op[u] \in family /\ op[t] \in family
    BY <1>1 DEF LocksInvariant, Acts
  <2>7. op[u] = "move"
    BY <2>5, <2>6, <1>4 DEF SafeTogether
  <2>8. asks[u] = Order(on[u])
    BY <1>1, <1>2, <2>1, <2>3, <2>7 DEF LocksInvariant, Waits, Calling, Paying
  <2> QED BY <1>1, <2>1, <2>4, <2>8
<1>5. ASSUME NEW t \in S, op[t] \notin Sweeping, Second(t)
      PROVE  FALSE
  <2>1. PICK u \in S : owner[asks[t]] = u
    BY DEF Blocks
  <2>2. op[t] \in family /\ op[u] \in family /\ on[t] \in Visits
    BY <1>1, <1>5 DEF LocksInvariant, Acts
  <2>3. CASE op[t] = "move"
    <3>1. asks[t] = Order(on[t]) /\ status[on[t]] = "confirmed" /\ owner[Visit(on[t])] = t
      BY <1>1, <1>5, <2>3 DEF LocksInvariant, Waits, FirstRow, Calling, Paying
    <3>2. op[u] \notin Sweeping
      <4> SUFFICES ASSUME op[u] \in Sweeping PROVE FALSE
        OBVIOUS
      <4>1. Strips(u) /\ HoldsAll(u, SweptRows(u))
        BY <2>1, <2>2, <3>1 DEF LocksInvariant, Sweeps
      <4>2. asks[u] # Customer(on[u])
        BY <1>2, <2>1 DEF FirstRow
      <4>3. \A v \in Visits : asks[u] # Visit(v)
        <5>1. Sweeps(u)
          BY DEF LocksInvariant
        <5> QED BY <1>1, <4>1, <5>1 DEF Sweeps, HoldsAll, SweptRows
      <4> QED BY <1>1, <1>4, <4>2, <4>3, RowsOfSweep
    <3>3. on[u] = on[t]
      <4>1. asks[t] \in RowsOf(u)
        BY <1>2, <2>1
      <4>2. asks[t] = Visit(on[u]) \/ asks[t] = Order(on[u])
        BY <3>2, <4>1, RowsOfSingle
      <4> QED BY <3>1, <4>2
    <3>4. op[u] # "move"
      BY <1>2, <2>1, <3>1, <3>3 DEF FirstRow, Sweeping
    <3>5. op[u] \in Calling \/ (op[u] \in Paying /\ status[on[u]] = "payment")
      BY <1>1, <1>2, <2>1, <3>2, <3>4 DEF LocksInvariant, Waits
    <3> QED BY <2>2, <2>3, <3>1, <3>3, <3>5 DEF SafeTogether
  <2>4. CASE op[t] # "move"
    <3>1. /\ op[t] \in Calling \cup Paying /\ asks[t] = Visit(on[t])
          /\ op[t] \in Paying => status[on[t]] = "payment"
      BY <1>1, <1>5, <2>4 DEF LocksInvariant, Waits, Calling, Paying
    <3>2. owner[Order(on[t])] = t
      BY <1>5, <3>1 DEF FirstRow, Calling, Paying
    <3>3. op[u] \notin Sweeping
      BY <2>2, <3>1 DEF SafeTogether
    <3>4. on[u] = on[t]
      <4>1. asks[t] \in RowsOf(u)
        BY <1>2, <2>1
      <4>2. asks[t] = Visit(on[u]) \/ asks[t] = Order(on[u])
        BY <3>3, <4>1, RowsOfSingle
      <4> QED BY <3>1, <4>2
    <3>5. op[u] # "move"
      <4> SUFFICES ASSUME op[u] = "move" PROVE FALSE
        OBVIOUS
      <4>1. status[on[u]] = "confirmed"
        BY <1>1, <1>2, <2>1, <3>3 DEF LocksInvariant, Waits, Calling, Paying
      <4> QED BY <2>2, <3>1, <3>4, <4>1 DEF SafeTogether
    <3>6. owner[Order(on[u])] = u
      BY <1>1, <1>2, <2>1, <3>3, <3>5 DEF LocksInvariant, Waits, FirstRow, Calling, Paying
    <3> QED BY <1>2, <2>1, <3>2, <3>4, <3>6
  <2> QED BY <2>3, <2>4
<1>6. ASSUME NEW t \in S, Second(t)
      PROVE  FALSE
  <2>1. PICK u \in S : owner[asks[t]] = u
    BY DEF Blocks
  <2>2. Second(u)
    BY <1>2, <2>1
  <2>3. op[t] \in Sweeping /\ op[u] \in Sweeping
    BY <1>5, <1>6, <2>2
  <2> QED BY <1>3, <1>6, <2>1, <2>3
<1>7. PICK t \in S : TRUE
  OBVIOUS
<1>8. PICK u \in S : owner[asks[t]] = u
  BY DEF Blocks
<1> QED BY <1>2, <1>6, <1>8
-----------------------------------------------------------------------------
(* The step leaves a transaction its operation, its request and its rows.  *)
Untouched(u) ==
  /\ op'[u] = op[u] /\ on'[u] = on[u] /\ asks'[u] = asks[u] /\ family' = family
  /\ \A r \in Rows : owner'[r] = u <=> owner[r] = u

(* The status under which it asks for its second row stays ...             *)
StatusKept(u) ==
  asks[u] # None /\ asks[u] # FirstRow(u) /\ op[u] \notin Sweeping \cup Calling =>
    status'[on[u]] = status[on[u]]

(* ... and so does what a sweep has read.                                  *)
SweepKept(u) ==
  op[u] \in Sweeping /\ owner[Customer(on[u])] = u =>
    /\ Swept(u)' = Swept(u)
    /\ Strips(u) /\ HoldsAll(u, SweptRows(u)) => Strips(u)'

LEMMA InRows ==
  /\ \A c \in Customers : Customer(c) \in Rows
  /\ \A v \in Visits : Visit(v) \in Rows /\ Order(v) \in Rows
BY DEF Rows

LEMMA FirstIsRow ==
  ASSUME LocksAssumption, NEW t \in Txs, op[t] # None, Acts(t)
  PROVE  FirstRow(t) \in Rows /\ FirstRow(t) \in RowsOf(t)
BY InRows DEF FirstRow, RowsOf, Acts

(* What the invariant says of a transaction that a step leaves alone stays *)
(* true.                                                                   *)
LEMMA UntouchedKeeps ==
  ASSUME LocksAssumption, LocksInvariant, NEW u \in Txs,
         Untouched(u), StatusKept(u), SweepKept(u)
  PROVE  Acts(u)' /\ Holds(u)' /\ Waits(u)' /\ Sweeps(u)'
<1>1. Acts(u) /\ Holds(u) /\ Waits(u) /\ Sweeps(u) /\ asks[u] \in Rows \cup {None}
  BY DEF LocksInvariant, TypeOK
<1>2. FirstRow(u)' = FirstRow(u) /\ RowsOf(u)' = RowsOf(u)
  BY DEF Untouched, FirstRow, RowsOf, Customer, Visit, Order
<1>3. op[u] # None => FirstRow(u) \in Rows
  BY <1>1, FirstIsRow
<1>4. Acts(u)'
  BY <1>1 DEF Untouched, Acts
<1>5. Holds(u)'
  <2> SUFFICES ASSUME NEW r \in Rows, owner'[r] = u
               PROVE  r \in RowsOf(u)' /\ owner'[FirstRow(u)'] = u
    BY DEF Holds
  <2>1. r \in RowsOf(u) /\ owner[FirstRow(u)] = u
    BY <1>1 DEF Untouched, Holds
  <2>2. op[u] # None
    BY <2>1 DEF RowsOf
  <2> QED BY <1>2, <1>3, <2>1, <2>2 DEF Untouched
<1>6. Waits(u)'
  <2> SUFFICES ASSUME asks[u] # None PROVE Waits(u)'
    BY DEF Untouched, Waits
  <2>1. op'[u] # None /\ owner'[asks'[u]] # u
    BY <1>1 DEF Untouched, Waits
  <2>2. asks'[u] # FirstRow(u)' => owner'[FirstRow(u)'] = u
    BY <1>1, <1>2, <1>3 DEF Untouched, Waits
  <2>3. asks'[u] # FirstRow(u)' /\ op'[u] \notin Sweeping =>
         \/ op'[u] \in Calling /\ asks'[u] = Visit(on'[u])
         \/ op'[u] \in Paying /\ asks'[u] = Visit(on'[u]) /\ status'[on'[u]] = "payment"
         \/ op'[u] = "move" /\ asks'[u] = Order(on'[u]) /\ status'[on'[u]] = "confirmed"
    <3> SUFFICES ASSUME asks[u] # FirstRow(u), op[u] \notin Sweeping
                 PROVE  \/ op[u] \in Calling /\ asks[u] = Visit(on[u])
                        \/ op[u] \in Paying /\ asks[u] = Visit(on[u])
                           /\ status'[on[u]] = "payment"
                        \/ op[u] = "move" /\ asks[u] = Order(on[u])
                           /\ status'[on[u]] = "confirmed"
      BY <1>2 DEF Untouched
    <3>1. op[u] \in Calling \/ status'[on[u]] = status[on[u]]
      BY DEF StatusKept
    <3> QED BY <1>1, <3>1 DEF Waits, Calling, Paying
  <2> QED BY <2>1, <2>2, <2>3 DEF Waits, Visit, Order
<1>7. Sweeps(u)'
  <2> SUFFICES ASSUME op[u] \in Sweeping PROVE Sweeps(u)'
    BY DEF Untouched, Sweeps
  <2>1. FirstRow(u) = Customer(on[u])
    BY DEF FirstRow
  <2>2. ASSUME NEW v \in Visits, asks'[u] = Visit(v) PROVE v \in Swept(u)'
    <3>1. asks[u] = Visit(v) /\ asks[u] # None
      BY <2>2, InRows, NoneIsNoRow DEF Untouched
    <3>2. owner[Customer(on[u])] = u
      BY <1>1, <2>1, <3>1, RowKinds DEF Waits
    <3>3. v \in Swept(u)
      BY <1>1, <3>1 DEF Sweeps
    <3> QED BY <3>2, <3>3 DEF SweepKept
  <2>3. ASSUME NEW v \in Visits, owner'[Order(v)] = u \/ asks'[u] = Order(v)
        PROVE  Strips(u)' /\ HoldsAll(u, SweptRows(u))'
    <3>1. owner[Order(v)] = u \/ asks[u] = Order(v)
      BY <2>3, InRows DEF Untouched
    <3>2. Strips(u) /\ HoldsAll(u, SweptRows(u))
      BY <1>1, <3>1 DEF Sweeps
    <3>3. owner[Customer(on[u])] = u
      <4>1. CASE owner[Order(v)] = u
        BY <1>1, <2>1, <4>1, InRows DEF Holds
      <4>2. CASE asks[u] = Order(v)
        BY <1>1, <2>1, <4>2, InRows, NoneIsNoRow, RowKinds DEF Waits
      <4> QED BY <3>1, <4>1, <4>2
    <3>4. Swept(u)' = Swept(u) /\ Strips(u)'
      BY <3>2, <3>3 DEF SweepKept
    <3>5. Swept(u) \subseteq Visits
      BY DEF Swept, VisitsOf
    <3>6. \A w \in Swept(u) : owner'[Visit(w)] = u
      BY <3>2, <3>5, InRows DEF Untouched, HoldsAll, SweptRows
    <3> QED BY <3>4, <3>6 DEF HoldsAll, SweptRows, Visit
  <2> QED BY <2>2, <2>3 DEF Sweeps, Visit, Order
<1> QED BY <1>4, <1>5, <1>6, <1>7
-----------------------------------------------------------------------------
(* Who is not at work holds nothing and asks for nothing.                  *)
LEMMA IdleIsFree ==
  ASSUME LocksInvariant, NEW t \in Txs, op[t] = None
  PROVE  asks[t] = None /\ \A r \in Rows : owner[r] # t
BY DEF LocksInvariant, TypeOK, Holds, RowsOf

LEMMA BeginKeeps ==
  ASSUME LocksAssumption, LocksInvariant, NEW t \in Txs, Begin(t)
  PROVE  LocksInvariant'
<1>1. asks[t] = None /\ \A r \in Rows : owner[r] # t
  BY IdleIsFree DEF Begin
<1>2. PICK o \in family : \E x \in (IF o \in Sweeping THEN Customers ELSE Visits) :
        op' = [op EXCEPT ![t] = o] /\ on' = [on EXCEPT ![t] = x]
  BY DEF Begin
<1>3. PICK x \in (IF o \in Sweeping THEN Customers ELSE Visits) :
        op' = [op EXCEPT ![t] = o] /\ on' = [on EXCEPT ![t] = x]
  BY <1>2
<1>4. op'[t] = o /\ on'[t] = x /\ o \in Operations /\ o # None
  BY <1>3 DEF LocksInvariant, TypeOK, LocksAssumption
<1>5. TypeOK'
  <2>1. \A u \in Txs : asks'[u] \in RowsOf(u)' \cup {None}
    BY <1>1, <1>3 DEF LocksInvariant, TypeOK, Begin, RowsOf, Customer, Visit, Order
  <2> QED BY <1>3, <1>4, <2>1 DEF LocksInvariant, TypeOK, Begin
<1>6. ASSUME NEW u \in Txs PROVE Acts(u)' /\ Holds(u)' /\ Waits(u)' /\ Sweeps(u)'
  <2>1. CASE u = t
    <3>1. Acts(u)' /\ Holds(u)' /\ Waits(u)'
      BY <1>1, <1>3, <1>4, <2>1 DEF Begin, Acts, Holds, Waits
    <3>2. Sweeps(u)'
      BY <1>1, <2>1, InRows, NoneIsNoRow DEF Begin, Sweeps, Visit, Order
    <3> QED BY <3>1, <3>2
  <2>2. CASE u # t
    <3>1. Untouched(u)
      BY <1>3, <2>2 DEF Untouched, Begin, LocksInvariant, TypeOK
    <3>2. StatusKept(u) /\ SweepKept(u)
      BY <3>1 DEF Begin, StatusKept, SweepKept, Untouched, Swept, Strips
    <3> QED BY <3>1, <3>2, UntouchedKeeps
  <2> QED BY <2>1, <2>2
<1> QED BY <1>5, <1>6 DEF LocksInvariant

(* What a transaction goes on to ask for is a row of its own.              *)
LEMMA NextRowsType ==
  ASSUME LocksAssumption, LocksInvariant, NEW t \in Txs, op[t] # None, NEW r \in NextRows(t)
  PROVE  r \in Rows /\ r \in RowsOf(t) /\ owner[r] # t
<1>1. Acts(t) /\ op[t] \in Operations
  BY DEF LocksInvariant, TypeOK
<1>2. FirstRow(t) \in Rows /\ FirstRow(t) \in RowsOf(t)
  BY <1>1, FirstIsRow
<1>3. owner[r] # t
  BY DEF NextRows
<1>4. CASE r \in LaterRows(t) /\ op[t] \in Sweeping
  <2>1. PICK v \in VisitsOf(on[t]) : r = Visit(v) \/ r = Order(v)
    BY <1>4 DEF LaterRows, SweepRows, SweptRows, Swept, VisitsOf
  <2> QED BY <1>3, <1>4, <2>1, InRows DEF RowsOf, VisitsOf
<1>5. CASE r \in LaterRows(t) /\ op[t] \notin Sweeping
  <2>1. r = Visit(on[t]) \/ r = Order(on[t])
    BY <1>5 DEF LaterRows
  <2> QED BY <1>1, <1>3, <1>5, <2>1, InRows DEF RowsOf, Acts
<1> QED BY <1>2, <1>3, <1>4, <1>5 DEF NextRows

LEMMA AskKeeps ==
  ASSUME LocksAssumption, LocksInvariant, NEW t \in Txs, Ask(t)
  PROVE  LocksInvariant'
<1>1. PICK r \in NextRows(t) : asks' = [asks EXCEPT ![t] = r]
  BY DEF Ask
<1>2. op[t] # None /\ asks[t] = None
  BY DEF Ask
<1>3. r \in Rows /\ r \in RowsOf(t) /\ owner[r] # t
  BY <1>2, NextRowsType
<1>4. asks'[t] = r
  BY <1>1 DEF LocksInvariant, TypeOK
<1>5. TypeOK'
  <2>1. \A u \in Txs : RowsOf(u)' = RowsOf(u)
    BY DEF Ask, RowsOf, Customer, Visit, Order
  <2>2. \A u \in Txs : asks'[u] \in RowsOf(u) \cup {None}
    BY <1>1, <1>3 DEF LocksInvariant, TypeOK
  <2> QED BY <1>1, <1>3, <2>1, <2>2 DEF LocksInvariant, TypeOK, Ask
<1>6. ASSUME NEW u \in Txs PROVE Acts(u)' /\ Holds(u)' /\ Waits(u)' /\ Sweeps(u)'
  <2>1. CASE u = t
    <3> DEFINE first == FirstRow(t)
    <3>1. Acts(t) /\ Holds(t) /\ Sweeps(t)
      BY DEF LocksInvariant
    <3>2. FirstRow(t)' = first /\ RowsOf(t)' = RowsOf(t)
      BY DEF Ask, FirstRow, RowsOf, Customer, Visit, Order
    <3>3. Acts(t)'
      BY <3>1 DEF Ask, Acts
    <3>4. Holds(t)'
      BY <3>1, <3>2 DEF Ask, Holds
    <3>5. r # first => owner[first] = t
      BY DEF NextRows
    <3>6. r # first /\ op[t] \notin Sweeping =>
           \/ op[t] \in Calling /\ r = Visit(on[t])
           \/ op[t] \in Paying /\ r = Visit(on[t]) /\ status[on[t]] = "payment"
           \/ op[t] = "move" /\ r = Order(on[t]) /\ status[on[t]] = "confirmed"
      BY DEF NextRows, LaterRows
    <3>7. Waits(t)'
      <4>1. owner'[asks'[t]] # t /\ op'[t] # None
        BY <1>2, <1>3, <1>4 DEF Ask
      <4> QED BY <1>4, <3>2, <3>5, <3>6, <4>1 DEF Ask, Waits, Visit, Order
    <3>8. Sweeps(t)'
      <4> SUFFICES ASSUME op[t] \in Sweeping PROVE Sweeps(t)'
        BY DEF Ask, Sweeps
      <4>1. first = Customer(on[t])
        BY DEF FirstRow
      <4>2. Swept(t)' = Swept(t) /\ Strips(t)' = Strips(t)
            /\ HoldsAll(t, SweptRows(t))' = HoldsAll(t, SweptRows(t))
        BY DEF Ask, Swept, Strips, HoldsAll, SweptRows, Visit
      <4>3. r = first \/ r \in SweepRows(t)
        BY DEF NextRows, LaterRows
      <4>4. ASSUME NEW v \in Visits, r = Visit(v) PROVE v \in Swept(t)
        BY <4>1, <4>3, <4>4, RowKinds DEF SweepRows, SweptRows
      <4>5. ASSUME NEW v \in Visits, r = Order(v)
            PROVE  Strips(t) /\ HoldsAll(t, SweptRows(t))
        BY <4>1, <4>3, <4>5, RowKinds DEF SweepRows, SweptRows
      <4>6. \A v \in Visits : owner[Order(v)] = t => Strips(t) /\ HoldsAll(t, SweptRows(t))
        BY <3>1 DEF Sweeps
      <4>7. owner' = owner /\ op' = op
        BY DEF Ask
      <4>8. \A v \in Visits : asks'[t] = Visit(v) => v \in Swept(t)'
        BY <1>4, <4>2, <4>4
      <4>9. \A v \in Visits : owner'[Order(v)] = t \/ asks'[t] = Order(v) =>
              Strips(t)' /\ HoldsAll(t, SweptRows(t))'
        BY <1>4, <4>2, <4>5, <4>6, <4>7
      <4> QED BY <4>8, <4>9 DEF Sweeps, Visit, Order
    <3> QED BY <2>1, <3>3, <3>4, <3>7, <3>8
  <2>2. CASE u # t
    <3>1. Untouched(u)
      BY <1>1, <2>2 DEF Untouched, Ask, LocksInvariant, TypeOK
    <3>2. StatusKept(u) /\ SweepKept(u)
      BY <3>1 DEF Ask, StatusKept, SweepKept, Untouched, Swept, Strips
    <3> QED BY <3>1, <3>2, UntouchedKeeps
  <2> QED BY <2>1, <2>2
<1> QED BY <1>5, <1>6 DEF LocksInvariant
LEMMA GetKeeps ==
  ASSUME LocksAssumption, LocksInvariant, NEW t \in Txs, Get(t)
  PROVE  LocksInvariant'
<1> DEFINE r == asks[t]
<1>1. r \in Rows /\ r # None /\ r \in RowsOf(t) /\ owner[r] = None
  BY DEF Get, LocksInvariant, TypeOK
<1>2. owner'[r] = t /\ asks'[t] = None /\ \A x \in Rows : x # r => owner'[x] = owner[x]
  BY <1>1 DEF Get, LocksInvariant, TypeOK
<1>3. TypeOK'
  <2>1. \A u \in Txs : RowsOf(u)' = RowsOf(u)
    BY DEF Get, RowsOf, Customer, Visit, Order
  <2>2. \A u \in Txs : asks'[u] \in RowsOf(u) \cup {None}
    BY DEF Get, LocksInvariant, TypeOK
  <2> QED BY <2>1, <2>2 DEF LocksInvariant, TypeOK, Get
<1>4. ASSUME NEW u \in Txs PROVE Acts(u)' /\ Holds(u)' /\ Waits(u)' /\ Sweeps(u)'
  <2>1. CASE u = t
    <3>1. Acts(t) /\ Holds(t) /\ Waits(t) /\ Sweeps(t)
      BY DEF LocksInvariant
    <3>2. FirstRow(t)' = FirstRow(t) /\ RowsOf(t)' = RowsOf(t)
      BY DEF Get, FirstRow, RowsOf, Customer, Visit, Order
    <3>3. op[t] # None
      BY <1>1 DEF RowsOf
    <3>4. Acts(t)' /\ Waits(t)'
      BY <1>2, <3>1 DEF Get, Acts, Waits
    <3>5. owner'[FirstRow(t)] = t
      <4>1. FirstRow(t) \in Rows
        BY <3>1, <3>3, FirstIsRow
      <4> QED BY <1>1, <1>2, <3>1, <4>1 DEF Waits
    <3>6. Holds(t)'
      <4>1. \A x \in Rows : owner'[x] = t => x \in RowsOf(t)
        BY <1>1, <1>2, <3>1 DEF Holds
      <4> QED BY <3>2, <3>5, <4>1 DEF Holds
    <3>7. Sweeps(t)'
      <4> SUFFICES ASSUME op[t] \in Sweeping PROVE Sweeps(t)'
        BY DEF Get, Sweeps
      <4>1. \A v \in Visits : asks'[t] # Visit(v) /\ asks'[t] # Order(v)
        BY <1>2, InRows, NoneIsNoRow
      <4>2. ASSUME NEW v \in Visits, owner'[Order(v)] = t
            PROVE  Strips(t) /\ HoldsAll(t, SweptRows(t))
        <5>1. owner[Order(v)] = t \/ asks[t] = Order(v)
          BY <1>2, <4>2, InRows
        <5> QED BY <3>1, <5>1 DEF Sweeps
      <4>3. Swept(t)' = Swept(t) /\ Strips(t)' = Strips(t) /\ SweptRows(t)' = SweptRows(t)
        BY DEF Get, Swept, Strips, SweptRows, Visit
      <4>4. SweptRows(t) \subseteq Rows
        BY InRows DEF SweptRows, Swept, VisitsOf
      <4>5. HoldsAll(t, SweptRows(t)) => HoldsAll(t, SweptRows(t))'
        BY <1>2, <4>3, <4>4 DEF HoldsAll
      <4>6. \A v \in Visits : owner'[Order(v)] = t => Strips(t)' /\ HoldsAll(t, SweptRows(t))'
        BY <4>2, <4>3, <4>5
      <4> QED BY <4>1, <4>6 DEF Sweeps, Visit, Order
    <3> QED BY <2>1, <3>4, <3>6, <3>7
  <2>2. CASE u # t
    <3>1. \A x \in Rows : owner'[x] = u <=> owner[x] = u
      BY <1>1, <1>2, <2>2 DEF LocksAssumption
    <3>2. Untouched(u)
      BY <2>2, <3>1 DEF Untouched, Get, LocksInvariant, TypeOK
    <3>3. StatusKept(u) /\ SweepKept(u)
      BY <3>2 DEF Get, StatusKept, SweepKept, Untouched, Swept, Strips
    <3> QED BY <3>2, <3>3, UntouchedKeeps
  <2> QED BY <2>1, <2>2
<1> QED BY <1>3, <1>4 DEF LocksInvariant

(* The end of a transaction leaves the others what they have.              *)
LEMMA EndKeeps ==
  ASSUME LocksAssumption, LocksInvariant, NEW t \in Txs, End(t),
         status' \in [Visits -> Statuses], ahead' \subseteq Visits,
         named' \subseteq Customers, personal' \subseteq Visits,
         \A u \in Txs \ {t} : StatusKept(u) /\ SweepKept(u)
  PROVE  LocksInvariant'
<1>1. op'[t] = None /\ asks'[t] = None /\ \A r \in Rows : owner'[r] # t
  BY DEF End, LocksInvariant, TypeOK, LocksAssumption
<1>2. \A u \in Txs \ {t} : Untouched(u)
  BY DEF End, Untouched, LocksInvariant, TypeOK, LocksAssumption
<1>3. TypeOK'
  <2>1. \A u \in Txs \ {t} : RowsOf(u)' = RowsOf(u)
    BY <1>2 DEF Untouched, RowsOf, Customer, Visit, Order
  <2>2. \A u \in Txs : asks'[u] \in RowsOf(u)' \cup {None}
    BY <1>1, <1>2, <2>1 DEF Untouched, LocksInvariant, TypeOK
  <2>3. Rows' = Rows
    OBVIOUS
  <2> QED BY <2>2 DEF LocksInvariant, TypeOK, End
<1>4. Acts(t)' /\ Holds(t)' /\ Waits(t)' /\ Sweeps(t)'
  BY <1>1 DEF Acts, Holds, Waits, Sweeps, Sweeping, LocksAssumption, Operations
<1>5. \A u \in Txs \ {t} : Acts(u)' /\ Holds(u)' /\ Waits(u)' /\ Sweeps(u)'
  BY <1>2, UntouchedKeeps
<1> QED BY <1>3, <1>4, <1>5 DEF LocksInvariant

LEMMA RollBackKeeps ==
  ASSUME LocksAssumption, LocksInvariant, NEW t \in Txs, RollBack(t)
  PROVE  LocksInvariant'
<1>1. \A u \in Txs \ {t} : StatusKept(u) /\ SweepKept(u)
  BY DEF RollBack, End, StatusKept, SweepKept, Swept, Strips, LocksInvariant, TypeOK
<1> QED BY <1>1, EndKeeps DEF RollBack, LocksInvariant, TypeOK

(* A transaction that has come to its end holds what its operation takes:  *)
(* who changes a status holds the visit, who ends the wait for a payment   *)
(* the order too.                                                          *)
LEMMA CommitHolds ==
  ASSUME LocksAssumption, LocksInvariant, NEW t \in Txs, op[t] # None, NextRows(t) = {}
  PROVE  /\ owner[FirstRow(t)] = t
         /\ op[t] \in Calling \/ (op[t] \in Paying /\ status[on[t]] = "payment") =>
              owner[Visit(on[t])] = t /\ owner[Order(on[t])] = t
         /\ op[t] = "move" \/ op[t] = "complete" => owner[Visit(on[t])] = t
<1>1. owner[FirstRow(t)] = t
  BY DEF NextRows
<1>2. \A r \in LaterRows(t) : owner[r] = t
  BY <1>1 DEF NextRows
<1> QED BY <1>1, <1>2 DEF FirstRow, LaterRows, Calling, Paying, Sweeping

LEMMA CommitKeeps ==
  ASSUME LocksAssumption, LocksInvariant, NEW t \in Txs, Commit(t)
  PROVE  LocksInvariant'
<1>1. op[t] # None /\ NextRows(t) = {} /\ End(t) /\ Acts(t)
  BY DEF Commit, LocksInvariant
<1>2. CASE ChangesVisit(t)
  <2>1. PICK s \in Outcomes(op[t], status[on[t]]) : status' = [status EXCEPT ![on[t]] = s]
    BY <1>2 DEF ChangesVisit
  <2>2. on[t] \in Visits /\ status[on[t]] \in Statuses
    BY <1>1, <1>2 DEF Acts, ChangesVisit, LocksInvariant, TypeOK
  <2>3. s \in Statuses
    BY <2>1, <2>2 DEF Outcomes, Statuses
  <2>4. s # status[on[t]] => \/ op[t] \in Calling
                             \/ op[t] \in Paying /\ status[on[t]] = "payment"
                             \/ op[t] = "complete" /\ status[on[t]] = "confirmed"
    BY <2>1 DEF Outcomes, Calling, Paying
  <2>5. ASSUME NEW u \in Txs \ {t} PROVE StatusKept(u)
    <3> SUFFICES ASSUME asks[u] # None, asks[u] # FirstRow(u), op[u] \notin Sweeping \cup Calling,
                        on[u] = on[t], s # status[on[t]]
                 PROVE  FALSE
      BY <2>1, <2>2 DEF StatusKept, LocksInvariant, TypeOK
    <3>1. Waits(u)
      BY DEF LocksInvariant
    <3>2. owner[FirstRow(u)] = u
      BY <3>1 DEF Waits
    <3>3. CASE op[u] = "move"
      <4>1. FirstRow(u) = Visit(on[t])
        BY <3>3 DEF FirstRow, Sweeping
      <4> QED BY <1>1, <2>4, <3>2, <4>1, CommitHolds
    <3>4. CASE op[u] # "move"
      <4>1. op[u] \in Paying /\ status[on[t]] = "payment"
        BY <3>1, <3>4 DEF Waits, Calling, Paying
      <4>2. FirstRow(u) = Order(on[t])
        BY <4>1 DEF FirstRow, Sweeping, Calling, Paying
      <4> QED BY <1>1, <2>4, <3>2, <4>1, <4>2, CommitHolds
    <3> QED BY <3>3, <3>4
  <2>6. ASSUME NEW u \in Txs \ {t} PROVE SweepKept(u)
    <3>1. named' = named /\ personal' = personal
      BY <1>2 DEF ChangesVisit
    <3>2. on'[u] = on[u] /\ op'[u] = op[u]
      BY <1>1 DEF End, LocksInvariant, TypeOK
    <3>3. Swept(u)' = Swept(u)
      BY <3>1, <3>2 DEF Swept
    <3>4. ASSUME op[u] \in Sweeping, Strips(u), HoldsAll(u, SweptRows(u)) PROVE Strips(u)'
      <4>1. ahead' # ahead => ahead' = ahead \cup {on[t]} /\ owner[Visit(on[t])] = t
        BY <1>1, <1>2, CommitHolds DEF ChangesVisit
      <4>2. op[u] = "erase" => \A v \in VisitsOf(on[u]) : owner[Visit(v)] = u
        BY <3>4 DEF Strips, HoldsAll, SweptRows, Swept
      <4>3. op[u] = "erase" => VisitsOf(on[u]) \cap ahead' = {}
        BY <3>4, <4>1, <4>2 DEF Strips
      <4> QED BY <3>1, <3>2, <3>4, <4>3 DEF Strips
    <3> QED BY <3>3, <3>4 DEF SweepKept
  <2>7. ahead' \subseteq Visits
    BY <1>2, <2>2 DEF ChangesVisit, LocksInvariant, TypeOK
  <2>8. status' \in [Visits -> Statuses]
    BY <2>1, <2>3 DEF LocksInvariant, TypeOK
  <2> QED BY <1>1, <1>2, <2>5, <2>6, <2>7, <2>8, EndKeeps
          DEF ChangesVisit, LocksInvariant, TypeOK
<1>3. CASE StripsCustomer(t)
  <2>1. on[t] \in Customers /\ owner[Customer(on[t])] = t
    BY <1>1, <1>3, CommitHolds DEF Acts, StripsCustomer, FirstRow
  <2>2. /\ status' = status /\ ahead' = ahead
        /\ named' \subseteq named /\ named \ {on[t]} \subseteq named'
        /\ personal' \subseteq personal /\ personal \ VisitsOf(on[t]) \subseteq personal'
    BY <1>3 DEF StripsCustomer
  <2>3. ASSUME NEW u \in Txs \ {t} PROVE StatusKept(u)
    BY <2>2 DEF StatusKept
  <2>4. ASSUME NEW u \in Txs \ {t} PROVE SweepKept(u)
    <3> SUFFICES ASSUME op[u] \in Sweeping, owner[Customer(on[u])] = u PROVE SweepKept(u)
      BY DEF SweepKept
    <3>1. on[u] # on[t]
      BY <2>1
    <3>2. on'[u] = on[u] /\ op'[u] = op[u]
      BY <1>1 DEF End, LocksInvariant, TypeOK
    <3>3. (on[u] \in named') = (on[u] \in named)
      BY <2>2, <3>1
    <3>4. VisitsOf(on[u]) \cap personal' = VisitsOf(on[u]) \cap personal
      BY <2>2, <3>1 DEF VisitsOf
    <3> QED BY <2>2, <3>2, <3>3, <3>4 DEF SweepKept, Swept, Strips
  <2> QED BY <1>1, <2>2, <2>3, <2>4, EndKeeps DEF LocksInvariant, TypeOK
<1> QED BY <1>2, <1>3 DEF Commit

LEMMA StepKeeps ==
  ASSUME LocksAssumption, LocksInvariant, [Next]_vars
  PROVE  LocksInvariant'
<1>1. CASE UNCHANGED vars
  BY <1>1 DEF vars, LocksInvariant, TypeOK, Acts, Holds, Waits, Sweeps, RowsOf, FirstRow,
              Swept, Strips, HoldsAll, SweptRows, Customer, Visit, Order
<1> QED BY <1>1, BeginKeeps, AskKeeps, GetKeeps, CommitKeeps, RollBackKeeps DEF Next

LEMMA InitHolds ==
  ASSUME LocksAssumption, Init
  PROVE  LocksInvariant
<1>1. TypeOK
  BY DEF Init, TypeOK, LocksAssumption
<1>2. ASSUME NEW t \in Txs PROVE Acts(t) /\ Holds(t) /\ Waits(t) /\ Sweeps(t)
  BY DEF Init, Acts, Holds, Waits, Sweeps, LocksAssumption, Operations, Sweeping
<1> QED BY <1>1, <1>2 DEF LocksInvariant

(* Every step keeps the invariant, whatever operations meet.               *)
THEOREM LocksFollowOperations == Spec => []LocksInvariant
<1>1. Init => LocksInvariant
  BY LocksAssumption, InitHolds
<1>2. LocksInvariant /\ [Next]_vars => LocksInvariant'
  BY LocksAssumption, StepKeeps
<1> QED BY <1>1, <1>2, PTL DEF Spec

(* Operations of families that are safe together never wait for one        *)
(* another in a circle: those of booking that start from the order, the    *)
(* move of a visit with payments, or with the removal of a customer.       *)
THEOREM SafeOperationsDoNotCircle ==
  ASSUME \A F \in Families : SafeTogether(F)
  PROVE  Spec => []NobodyWaitsInACircle
<1>1. LocksInvariant => NobodyWaitsInACircle
  <2> SUFFICES ASSUME LocksInvariant PROVE NobodyWaitsInACircle
    OBVIOUS
  <2>1. SafeTogether(family)
    BY DEF LocksInvariant, TypeOK
  <2> QED BY <2>1, LocksAssumption, SafeFamiliesDoNotCircle
<1> QED BY <1>1, LocksFollowOperations, PTL

(* So they never all wait: of the transactions under way, one has what it  *)
(* asks for or can have it.                                                *)
THEOREM SafeOperationsGoOn ==
  ASSUME \A F \in Families : SafeTogether(F)
  PROVE  Spec => []SomebodyGoesOn
<1>1. ASSUME LocksInvariant, NobodyWaitsInACircle PROVE SomebodyGoesOn
  <2> SUFFICES ASSUME NEW s \in Txs, op[s] # None,
                      \A t \in Txs : op[t] # None => asks[t] # None /\ owner[asks[t]] # None
               PROVE  FALSE
    BY DEF SomebodyGoesOn
  <2> DEFINE S == {t \in Txs : op[t] # None}
  <2>1. PICK t \in S : \A u \in S : ~Blocks(u, t)
    BY <1>1 DEF NobodyWaitsInACircle
  <2>2. asks[t] \in Rows /\ owner[asks[t]] \in Txs /\ asks[t] # None
    BY <1>1 DEF LocksInvariant, TypeOK
  <2>3. owner[asks[t]] \in S
    BY <1>1, <2>2 DEF LocksInvariant, Holds, RowsOf
  <2> QED BY <2>1, <2>2, <2>3 DEF Blocks
<1> QED BY <1>1, LocksFollowOperations, SafeOperationsDoNotCircle, PTL

(* A customer that the privacy run takes out has no visit ahead at that    *)
(* moment.                                                                 *)
THEOREM TheSweepTakesNobodyExpected == Spec => SweepSparesVisitsAhead
<1> DEFINE Spares == \A t \in Txs : op[t] = "erase" /\ op'[t] = None /\ on[t] \in named \ named'
                       => VisitsOf(on[t]) \cap ahead' = {}
<1>1. ASSUME LocksInvariant, [Next]_vars PROVE Spares
  <2> SUFFICES ASSUME NEW t \in Txs, op[t] = "erase", op'[t] = None, on[t] \in named \ named',
                      NEW v \in VisitsOf(on[t])
               PROVE  v \notin ahead'
    OBVIOUS
  <2>1. PICK u \in Txs : Begin(u) \/ Ask(u) \/ Get(u) \/ Commit(u) \/ RollBack(u)
    BY <1>1 DEF Next, vars
  <2>2. StripsCustomer(u) /\ End(u)
    BY <2>1 DEF Begin, Ask, Get, Commit, RollBack, ChangesVisit
  <2>3. u = t
    BY <1>1, <2>2, LocksAssumption DEF End, LocksInvariant, TypeOK, LocksAssumption, Operations,
                                      Sweeping, Calling, Paying
  <2>4. owner[Order(v)] = t
    BY <2>2, <2>3 DEF StripsCustomer, HoldsAll
  <2>5. Sweeps(t) /\ v \in Visits
    BY <1>1 DEF LocksInvariant, VisitsOf
  <2>6. Strips(t)
    BY <2>4, <2>5 DEF Sweeps, Sweeping
  <2> QED BY <2>2, <2>6 DEF Strips, StripsCustomer
<1>2. Spec => [][Next]_vars
  BY PTL DEF Spec
<1> QED BY <1>1, <1>2, LocksFollowOperations, PTL DEF SweepSparesVisitsAhead
=============================================================================
