---------------------------- MODULE BillingProofs ----------------------------
(***************************************************************************)
(* Theorems about Billing for any number of accounts, orders, handlers and *)
(* scans.  IInv is the inductive invariant: what ties an order's row to    *)
(* its checkout call and invoice, what a fulfilment in progress knows of   *)
(* the row it locked, and how often the credits of an order were issued.   *)
(* FundsInv adds what every session knows of the money behind what it has  *)
(* read, which is what makes a lost update harmless to NoMinting; ExactInv *)
(* adds what it knows exactly when no scan writes balances.                *)
(***************************************************************************)
EXTENDS Billing, DataLemmas

OrderShape(t) ==
    /\ tx[t].status = "absent" =>
         checkout[t] = "none" /\ invoice[t] = "none" /\ ~tx[t].url
    /\ tx[t].status # "absent" => tx[t].owner \in User
    /\ checkout[t] = "open" =>
         ~tx[t].url /\ (mode = "live" => tx[t].status = "pending")
    /\ invoice[t] = "settled" => tx[t].url

HandlerShape(h) ==
    /\ handler[h].pc \in {"authenticated", "selected", "ready"} =>
         handler[h].user \in User
    /\ handler[h].pc \in {"selected", "locked", "ready"} =>
         /\ handler[h].order \in Tx /\ handler[h].row.owner \in User
         /\ tx[handler[h].order].status # "absent"
    /\ handler[h].pc \in {"authenticated", "selected"} =>
         handler[h].uuid = "sandbox"
    /\ handler[h].pc = "locked" => handler[h].uuid = "cryptomus"
    /\ handler[h].pc # "idle" =>
         \/ handler[h].uuid = "sandbox" /\ mode = "sandbox"
         \/ handler[h].uuid = "cryptomus" /\ mode = "live"

\* What test-fulfil has loaded may be stale, but never hides a Cryptomus uuid.
SandboxSeesUuid(h) ==
    handler[h].uuid = "sandbox" =>
        /\ handler[h].pc = "selected" =>
             handler[h].row.uuid = "cryptomus" \/ tx[handler[h].order].uuid # "cryptomus"
        /\ handler[h].pc = "ready" => tx[handler[h].order].uuid # "cryptomus"

Holds(h, t) == handler[h].order = t /\ handler[h].pc \in {"locked", "ready"}

\* A webhook that holds the row lock works on an unpaid, payable order.
WebhookHoldsUnpaid(h) ==
    handler[h].uuid = "cryptomus" /\ handler[h].pc \in {"locked", "ready"} =>
        /\ tx[handler[h].order].status \in {"pending", "failed"}
        /\ invoice[handler[h].order] = "settled"

LockIsExclusive ==
    \A g, h \in Handler, t \in Tx : Holds(g, t) /\ Holds(h, t) => g = h

ScanShape(s) ==
    scan[s].pc = "scored" => scan[s].user \in User

\* Without test-fulfil the credits of an order are issued exactly when its
\* row becomes paid.
Issued(t) ==
    "sandbox" \notin Modes =>
        /\ sandboxGrants[t] = 0
        /\ webhookGrants[t] = IF tx[t].status = "paid" THEN 1 ELSE 0

IInv ==
    /\ TypeOK
    /\ \A t \in Tx : OrderShape(t) /\ Issued(t)
    /\ \A h \in Handler : HandlerShape(h) /\ WebhookHoldsUnpaid(h) /\ SandboxSeesUuid(h)
    /\ LockIsExclusive
    /\ \A s \in Scanner : ScanShape(s)

-----------------------------------------------------------------------------
\* What an account has paid for, and what of it is not order o.
PaidOf(u) == {t \in Tx : tx[t].status = "paid" /\ tx[t].owner = u}
ValueBut(u, o) == Total(tx, PaidOf(u) \ {o})

\* The session's copy of an order names the right account and package, and
\* once the row lock is there it shows the order unpaid.
KnowsOrder(h) ==
    LET s == handler[h] IN
    /\ s.pc \in {"selected", "locked", "ready"} =>
         s.row.owner = tx[s.order].owner /\ s.row.add = tx[s.order].add
    /\ s.pc \in {"selected", "ready"} => s.row.owner = s.user
    /\ s.pc \in {"locked", "ready"} => s.row.status # "paid"

\* The counters a session has read are covered by orders other than the one
\* whose package it is going to add to them.
ReadNoMore(h) ==
    LET s == handler[h] IN
    /\ s.pc = "authenticated" =>
         /\ s.credits <= Trial + PaidValue(s.user)
         /\ s.purchased <= PaidValue(s.user)
    /\ s.pc \in {"selected", "ready"} /\ s.row.status # "paid" =>
         /\ s.credits <= Trial + ValueBut(s.user, s.order)
         /\ s.purchased <= ValueBut(s.user, s.order)

SeenNoMore(z) ==
    scan[z].pc # "idle" => \A u \in User : scan[z].seen[u] <= Trial + PaidValue(u)

FinitelyPaid == IsFiniteSet({t \in Tx : tx[t].status = "paid"})

\* FundsInv, with IInv, is inductive.
FundsInv ==
    /\ IInv
    /\ FinitelyPaid
    /\ \A h \in Handler : KnowsOrder(h) /\ ReadNoMore(h)
    /\ \A z \in Scanner : SeenNoMore(z)
    /\ NoMinting

-----------------------------------------------------------------------------
\* The idle records have the types the state expects.
LEMMA RowTypes ==
    /\ NoRow \in TxRow
    /\ IdleHandler \in HandlerState
    /\ IdleScan \in ScanState
<1>1. NoRow \in TxRow
  BY DEF NoRow, TxRow
<1>2. IdleHandler \in HandlerState
  BY <1>1 DEF IdleHandler, HandlerState
<1>3. IdleScan \in ScanState
  BY DEF IdleScan, ScanState
<1> QED BY <1>1, <1>2, <1>3

\* The invariant holds in the initial states.
LEMMA InitIInv == Init => IInv
<1> SUFFICES ASSUME Init PROVE IInv
  OBVIOUS
<1>1. TypeOK
  BY RowTypes, BillingAssumption DEF Init, TypeOK
<1>2. ASSUME NEW t \in Tx PROVE OrderShape(t) /\ Issued(t)
  BY DEF Init, OrderShape, Issued, NoRow
<1>3. ASSUME NEW h \in Handler PROVE HandlerShape(h) /\ WebhookHoldsUnpaid(h) /\ SandboxSeesUuid(h)
  BY DEF Init, HandlerShape, WebhookHoldsUnpaid, SandboxSeesUuid, IdleHandler
<1>4. LockIsExclusive
  BY DEF Init, LockIsExclusive, Holds, IdleHandler
<1>5. ASSUME NEW s \in Scanner PROVE ScanShape(s)
  BY DEF Init, ScanShape, IdleScan
<1> QED BY <1>1, <1>2, <1>3, <1>4, <1>5 DEF IInv

\* What a stored answer writes: the URL, and in a live process the uuid.
LEMMA StoredUrl ==
    ASSUME IInv, NEW t \in Tx, StorePaymentUrl(t)
    PROVE  \E uuid \in {"none", "cryptomus", "sandbox"} :
             tx' = [tx EXCEPT ![t] = [tx[t] EXCEPT !.url = TRUE, !.uuid = uuid]]
<1>1. CASE mode = "live"
  BY <1>1 DEF StorePaymentUrl
<1>2. CASE mode = "sandbox"
  <2>1. tx[t].uuid \in {"none", "cryptomus", "sandbox"} /\ tx[t] \in TxRow
    BY DEF IInv, TypeOK, TxRow
  <2>2. [tx[t] EXCEPT !.url = TRUE] =
          [tx[t] EXCEPT !.url = TRUE, !.uuid = tx[t].uuid]
    BY <2>1 DEF TxRow
  <2> QED BY <1>2, <2>1, <2>2 DEF StorePaymentUrl
<1> QED BY <1>1, <1>2 DEF StorePaymentUrl

\* A new pending row has an owner and no URL, and no handler works on it.
LEMMA OpenOrderStep ==
    ASSUME IInv, NEW u \in User, NEW t \in Tx, NEW pack \in Packs, OpenOrder(u, t, pack)
    PROVE  IInv'
<1> USE BillingAssumption, RowTypes DEF OpenOrder, NoRow, balances, grants, process
<1>1. TypeOK'
  <2>1. PICK row \in TxRow : tx' = [tx EXCEPT ![t] = row]
    BY ZenonT(60) DEF IInv, TypeOK, TxRow, NoRow
  <2> QED BY <2>1 DEF IInv, TypeOK
<1>2. ASSUME NEW o \in Tx PROVE OrderShape(o)' /\ Issued(o)'
  BY DEF IInv, TypeOK, TxRow, OrderShape, Issued
<1>3. ASSUME NEW g \in Handler PROVE
    HandlerShape(g)' /\ WebhookHoldsUnpaid(g)' /\ SandboxSeesUuid(g)'
  BY DEF IInv, TypeOK, TxRow, HandlerState, OrderShape, HandlerShape,
         WebhookHoldsUnpaid, SandboxSeesUuid, LockIsExclusive, Holds
<1>4. LockIsExclusive'
  BY DEF IInv, TypeOK, HandlerState, LockIsExclusive, Holds, HandlerShape
<1>5. ASSUME NEW z \in Scanner PROVE ScanShape(z)'
  BY DEF IInv, TypeOK, ScanState, ScanShape
<1> QED BY <1>1, <1>2, <1>3, <1>4, <1>5 DEF IInv

\* An invoice that is created is not settled.
LEMMA CreateInvoiceStep ==
    ASSUME IInv, NEW t \in Tx, CreateInvoice(t)
    PROVE  IInv'
<1> USE BillingAssumption, RowTypes DEF CreateInvoice, balances, grants, process
<1>1. TypeOK'
  BY DEF IInv, TypeOK
<1>2. ASSUME NEW o \in Tx PROVE OrderShape(o)' /\ Issued(o)'
  BY DEF IInv, TypeOK, TxRow, OrderShape, Issued
<1>3. ASSUME NEW g \in Handler PROVE
    HandlerShape(g)' /\ WebhookHoldsUnpaid(g)' /\ SandboxSeesUuid(g)'
  BY DEF IInv, TypeOK, TxRow, HandlerState, OrderShape, HandlerShape,
         WebhookHoldsUnpaid, SandboxSeesUuid, LockIsExclusive, Holds
<1>4. LockIsExclusive'
  BY DEF IInv, TypeOK, HandlerState, LockIsExclusive, Holds, HandlerShape
<1>5. ASSUME NEW z \in Scanner PROVE ScanShape(z)'
  BY DEF IInv, TypeOK, ScanState, ScanShape
<1> QED BY <1>1, <1>2, <1>3, <1>4, <1>5 DEF IInv

\* The answer of Cryptomus changes neither status nor owner of the order.
LEMMA StorePaymentUrlStep ==
    ASSUME IInv, NEW t \in Tx, StorePaymentUrl(t)
    PROVE  IInv'
<1> USE BillingAssumption, RowTypes DEF StorePaymentUrl, RowLocked, balances, grants, process
<1>1. TypeOK'
  <2>1. PICK row \in TxRow : tx' = [tx EXCEPT ![t] = row]
    BY ZenonT(60) DEF IInv, TypeOK, TxRow, NoRow
  <2> QED BY <2>1 DEF IInv, TypeOK
<1>2. ASSUME NEW o \in Tx PROVE OrderShape(o)' /\ Issued(o)'
  <2>1. PICK uuid \in {"none", "cryptomus", "sandbox"} :
          tx' = [tx EXCEPT ![t] = [tx[t] EXCEPT !.url = TRUE, !.uuid = uuid]]
    BY StoredUrl
  <2>2. OrderShape(o) /\ OrderShape(t) /\ Issued(o)
    BY DEF IInv
  <2>3. OrderShape(o)'
    BY <2>1, <2>2 DEF IInv, TypeOK, OrderShape
  <2>4. Issued(o)'
    BY <2>1, <2>2 DEF IInv, TypeOK, Issued
  <2> QED BY <2>3, <2>4
<1>3. ASSUME NEW g \in Handler PROVE
    HandlerShape(g)' /\ WebhookHoldsUnpaid(g)' /\ SandboxSeesUuid(g)'
  BY DEF IInv, TypeOK, TxRow, HandlerState, OrderShape, HandlerShape,
         WebhookHoldsUnpaid, SandboxSeesUuid, LockIsExclusive, Holds
<1>4. LockIsExclusive'
  BY DEF IInv, TypeOK, HandlerState, LockIsExclusive, Holds, HandlerShape
<1>5. ASSUME NEW z \in Scanner PROVE ScanShape(z)'
  BY DEF IInv, TypeOK, ScanState, ScanShape
<1> QED BY <1>1, <1>2, <1>3, <1>4, <1>5 DEF IInv

\* An open checkout of a live process belongs to a pending order.
LEMMA FailOrderStep ==
    ASSUME IInv, NEW t \in Tx, FailOrder(t)
    PROVE  IInv'
<1> USE BillingAssumption, RowTypes DEF FailOrder, RowLocked, balances, grants, process
<1>1. TypeOK'
  <2>1. PICK row \in TxRow : tx' = [tx EXCEPT ![t] = row]
    BY ZenonT(60) DEF IInv, TypeOK, TxRow, NoRow
  <2> QED BY <2>1 DEF IInv, TypeOK
<1>2. ASSUME NEW o \in Tx PROVE OrderShape(o)' /\ Issued(o)'
  BY DEF IInv, TypeOK, TxRow, OrderShape, Issued
<1>3. ASSUME NEW g \in Handler PROVE
    HandlerShape(g)' /\ WebhookHoldsUnpaid(g)' /\ SandboxSeesUuid(g)'
  BY DEF IInv, TypeOK, TxRow, HandlerState, OrderShape, HandlerShape,
         WebhookHoldsUnpaid, SandboxSeesUuid, LockIsExclusive, Holds
<1>4. LockIsExclusive'
  BY DEF IInv, TypeOK, HandlerState, LockIsExclusive, Holds, HandlerShape
<1>5. ASSUME NEW z \in Scanner PROVE ScanShape(z)'
  BY DEF IInv, TypeOK, ScanState, ScanShape
<1> QED BY <1>1, <1>2, <1>3, <1>4, <1>5 DEF IInv

\* A checkout given up leaves the order as it is.
LEMMA AbandonCheckoutStep ==
    ASSUME IInv, NEW t \in Tx, AbandonCheckout(t)
    PROVE  IInv'
<1> USE BillingAssumption, RowTypes DEF AbandonCheckout, balances, grants, process
<1>1. TypeOK'
  BY DEF IInv, TypeOK
<1>2. ASSUME NEW o \in Tx PROVE OrderShape(o)' /\ Issued(o)'
  BY DEF IInv, TypeOK, TxRow, OrderShape, Issued
<1>3. ASSUME NEW g \in Handler PROVE
    HandlerShape(g)' /\ WebhookHoldsUnpaid(g)' /\ SandboxSeesUuid(g)'
  BY DEF IInv, TypeOK, TxRow, HandlerState, OrderShape, HandlerShape,
         WebhookHoldsUnpaid, SandboxSeesUuid, LockIsExclusive, Holds
<1>4. LockIsExclusive'
  BY DEF IInv, TypeOK, HandlerState, LockIsExclusive, Holds, HandlerShape
<1>5. ASSUME NEW z \in Scanner PROVE ScanShape(z)'
  BY DEF IInv, TypeOK, ScanState, ScanShape
<1> QED BY <1>1, <1>2, <1>3, <1>4, <1>5 DEF IInv

\* Only an order whose URL was stored is settled.
LEMMA SettleStep ==
    ASSUME IInv, NEW t \in Tx, Settle(t)
    PROVE  IInv'
<1> USE BillingAssumption, RowTypes DEF Settle, balances, grants, process
<1>1. TypeOK'
  BY DEF IInv, TypeOK
<1>2. ASSUME NEW o \in Tx PROVE OrderShape(o)' /\ Issued(o)'
  BY DEF IInv, TypeOK, TxRow, OrderShape, Issued
<1>3. ASSUME NEW g \in Handler PROVE
    HandlerShape(g)' /\ WebhookHoldsUnpaid(g)' /\ SandboxSeesUuid(g)'
  BY DEF IInv, TypeOK, TxRow, HandlerState, OrderShape, HandlerShape,
         WebhookHoldsUnpaid, SandboxSeesUuid, LockIsExclusive, Holds
<1>4. LockIsExclusive'
  BY DEF IInv, TypeOK, HandlerState, LockIsExclusive, Holds, HandlerShape
<1>5. ASSUME NEW z \in Scanner PROVE ScanShape(z)'
  BY DEF IInv, TypeOK, ScanState, ScanShape
<1> QED BY <1>1, <1>2, <1>3, <1>4, <1>5 DEF IInv

\* The row lock is free, so the lock stays exclusive.
LEMMA WebhookLockStep ==
    ASSUME IInv, NEW h \in Handler, NEW t \in Tx, WebhookLock(h, t)
    PROVE  IInv'
<1> USE BillingAssumption, RowTypes
    DEF WebhookLock, RowLocked, MayFulfil, IdleHandler, balances, grants, process
<1>1. TypeOK'
  <2>1. PICK new \in HandlerState : handler' = [handler EXCEPT ![h] = new]
    BY ZenonT(60) DEF IInv, TypeOK, HandlerState
  <2>2. handler' \in [Handler -> HandlerState]
    BY <2>1 DEF IInv, TypeOK
  <2> QED BY <2>2 DEF IInv, TypeOK
<1>2. ASSUME NEW o \in Tx PROVE OrderShape(o)' /\ Issued(o)'
  BY DEF IInv, TypeOK, TxRow, OrderShape, Issued
<1>3. ASSUME NEW g \in Handler PROVE
    HandlerShape(g)' /\ WebhookHoldsUnpaid(g)' /\ SandboxSeesUuid(g)'
  BY DEF IInv, TypeOK, TxRow, HandlerState, OrderShape, HandlerShape,
         WebhookHoldsUnpaid, SandboxSeesUuid, LockIsExclusive, Holds
<1>4. LockIsExclusive'
  BY DEF IInv, TypeOK, HandlerState, LockIsExclusive, Holds, HandlerShape
<1>5. ASSUME NEW z \in Scanner PROVE ScanShape(z)'
  BY DEF IInv, TypeOK, ScanState, ScanShape
<1> QED BY <1>1, <1>2, <1>3, <1>4, <1>5 DEF IInv

\* The order's owner is an account, so its counters can be read.
LEMMA WebhookReadUserStep ==
    ASSUME IInv, NEW h \in Handler, WebhookReadUser(h)
    PROVE  IInv'
<1> USE BillingAssumption, RowTypes DEF WebhookReadUser, balances, grants, process
<1>1. TypeOK'
  <2>1. handler[h].row.owner \in User
    BY DEF IInv, HandlerShape
  <2> DEFINE u == handler[h].row.owner
             new == [handler[h] EXCEPT !.pc = "ready", !.user = u, !.credits = credits[u],
                                       !.purchased = purchased[u]]
  <2>2. handler \in [Handler -> HandlerState] /\ handler[h] \in HandlerState
    BY DEF IInv, TypeOK
  <2>3. credits[u] \in Nat /\ purchased[u] \in Nat
    BY <2>1 DEF IInv, TypeOK
  <2>4. new \in HandlerState
    BY <2>1, <2>2, <2>3 DEF HandlerState
  <2>5. handler' = [handler EXCEPT ![h] = new]
    BY <2>2 DEF HandlerState
  <2> HIDE DEF new
  <2>6. handler' \in [Handler -> HandlerState]
    BY <2>2, <2>4, <2>5
  <2> QED BY <2>6 DEF IInv, TypeOK
<1>2. ASSUME NEW o \in Tx PROVE OrderShape(o)' /\ Issued(o)'
  BY DEF IInv, TypeOK, TxRow, OrderShape, Issued
<1>3. ASSUME NEW g \in Handler PROVE
    HandlerShape(g)' /\ WebhookHoldsUnpaid(g)' /\ SandboxSeesUuid(g)'
  <2>1. CASE g = h
    <3>1. /\ handler[h].row.owner \in User /\ handler[h].order \in Tx
          /\ mode = "live" /\ WebhookHoldsUnpaid(h)
      BY DEF IInv, HandlerShape
    <3>2. handler'[h] = [handler[h] EXCEPT !.pc = "ready",
              !.user = handler[h].row.owner,
              !.credits = credits[handler[h].row.owner],
              !.purchased = purchased[handler[h].row.owner]]
      BY DEF IInv, TypeOK
    <3>3. /\ handler[h].pc = "locked" /\ handler[h].uuid = "cryptomus"
          /\ handler[h] \in HandlerState /\ tx' = tx /\ invoice' = invoice
          /\ tx[handler[h].order].status # "absent"
      BY DEF IInv, TypeOK, HandlerShape
    <3>4. /\ handler'[h].pc = "ready" /\ handler'[h].user = handler[h].row.owner
          /\ handler'[h].uuid = "cryptomus" /\ handler'[h].order = handler[h].order
          /\ handler'[h].row = handler[h].row
      <4> DEFINE after == handler'[h]
                 r == handler[h]
                 u == handler[h].row.owner
                 c == credits[handler[h].row.owner]
                 p == purchased[handler[h].row.owner]
      <4>1. after = [r EXCEPT !.pc = "ready", !.user = u, !.credits = c, !.purchased = p]
        BY <3>2
      <4>2. r \in HandlerState
        BY <3>3
      <4>3. /\ after.pc = "ready" /\ after.user = u /\ after.uuid = r.uuid
            /\ after.order = r.order /\ after.row = r.row
        <5> HIDE DEF after, r, u, c, p, WebhookReadUser
        <5> QED BY ONLY <4>1, <4>2 DEF HandlerState
      <4> QED BY <3>3, <4>3
    <3>5. mode' = mode
      OBVIOUS
    <3>6. HandlerShape(h)'
      BY <3>1, <3>3, <3>4, <3>5 DEF HandlerShape
    <3>7. WebhookHoldsUnpaid(h)'
      BY <3>1, <3>3, <3>4 DEF WebhookHoldsUnpaid
    <3>8. SandboxSeesUuid(h)'
      BY <3>4 DEF SandboxSeesUuid
    <3> QED BY <2>1, <3>6, <3>7, <3>8
  <2>2. CASE g # h
    BY <2>2, ZenonT(60) DEF IInv, TypeOK, HandlerShape, WebhookHoldsUnpaid, SandboxSeesUuid
  <2> QED BY <2>1, <2>2
<1>4. LockIsExclusive'
  BY DEF IInv, TypeOK, HandlerState, LockIsExclusive, Holds, HandlerShape
<1>5. ASSUME NEW z \in Scanner PROVE ScanShape(z)'
  BY DEF IInv, TypeOK, ScanState, ScanShape
<1> QED BY <1>1, <1>2, <1>3, <1>4, <1>5 DEF IInv

\* An authenticated test-fulfil holds no lock.
LEMMA SandboxAuthenticateStep ==
    ASSUME IInv, NEW h \in Handler, NEW u \in User, SandboxAuthenticate(h, u)
    PROVE  IInv'
<1> USE BillingAssumption, RowTypes DEF SandboxAuthenticate, IdleHandler, balances, grants, process
<1>1. TypeOK'
  <2>1. PICK new \in HandlerState : handler' = [handler EXCEPT ![h] = new]
    BY ZenonT(60) DEF IInv, TypeOK, HandlerState
  <2>2. handler' \in [Handler -> HandlerState]
    BY <2>1 DEF IInv, TypeOK
  <2> QED BY <2>2 DEF IInv, TypeOK
<1>2. ASSUME NEW o \in Tx PROVE OrderShape(o)' /\ Issued(o)'
  BY DEF IInv, TypeOK, TxRow, OrderShape, Issued
<1>3. ASSUME NEW g \in Handler PROVE
    HandlerShape(g)' /\ WebhookHoldsUnpaid(g)' /\ SandboxSeesUuid(g)'
  BY DEF IInv, TypeOK, TxRow, HandlerState, OrderShape, HandlerShape,
         WebhookHoldsUnpaid, SandboxSeesUuid, LockIsExclusive, Holds
<1>4. LockIsExclusive'
  BY DEF IInv, TypeOK, HandlerState, LockIsExclusive, Holds, HandlerShape
<1>5. ASSUME NEW z \in Scanner PROVE ScanShape(z)'
  BY DEF IInv, TypeOK, ScanState, ScanShape
<1> QED BY <1>1, <1>2, <1>3, <1>4, <1>5 DEF IInv

\* The row a test-fulfil loads is an order of its user.
LEMMA SandboxSelectStep ==
    ASSUME IInv, NEW h \in Handler, NEW t \in Tx, SandboxSelect(h, t)
    PROVE  IInv'
<1> USE BillingAssumption, RowTypes DEF SandboxSelect, balances, grants, process
<1>1. TypeOK'
  <2> DEFINE new == [handler[h] EXCEPT !.pc = "selected", !.order = t, !.row = tx[t]]
  <2>1. handler \in [Handler -> HandlerState] /\ handler[h] \in HandlerState /\ tx[t] \in TxRow
    BY DEF IInv, TypeOK
  <2>2. new \in HandlerState
    BY <2>1 DEF HandlerState
  <2>3. handler' = [handler EXCEPT ![h] = new]
    BY <2>1 DEF HandlerState
  <2> HIDE DEF new
  <2>4. handler' \in [Handler -> HandlerState]
    BY <2>1, <2>2, <2>3
  <2> QED BY <2>4 DEF IInv, TypeOK
<1>2. ASSUME NEW o \in Tx PROVE OrderShape(o)' /\ Issued(o)'
  BY DEF IInv, TypeOK, TxRow, OrderShape, Issued
<1>3. ASSUME NEW g \in Handler PROVE
    HandlerShape(g)' /\ WebhookHoldsUnpaid(g)' /\ SandboxSeesUuid(g)'
  BY DEF IInv, TypeOK, TxRow, HandlerState, OrderShape, HandlerShape,
         WebhookHoldsUnpaid, SandboxSeesUuid, LockIsExclusive, Holds
<1>4. LockIsExclusive'
  BY DEF IInv, TypeOK, HandlerState, LockIsExclusive, Holds, HandlerShape
<1>5. ASSUME NEW z \in Scanner PROVE ScanShape(z)'
  BY DEF IInv, TypeOK, ScanState, ScanShape
<1> QED BY <1>1, <1>2, <1>3, <1>4, <1>5 DEF IInv

\* The row lock is free, and the loaded row shows no Cryptomus uuid.
LEMMA SandboxLockStep ==
    ASSUME IInv, NEW h \in Handler, SandboxLock(h)
    PROVE  IInv'
<1> USE BillingAssumption, RowTypes DEF SandboxLock, RowLocked, MayFulfil, balances, grants, process
<1>1. TypeOK'
  <2>1. PICK new \in HandlerState : handler' = [handler EXCEPT ![h] = new]
    BY ZenonT(60) DEF IInv, TypeOK, HandlerState
  <2>2. handler' \in [Handler -> HandlerState]
    BY <2>1 DEF IInv, TypeOK
  <2> QED BY <2>2 DEF IInv, TypeOK
<1>2. ASSUME NEW o \in Tx PROVE OrderShape(o)' /\ Issued(o)'
  BY DEF IInv, TypeOK, TxRow, OrderShape, Issued
<1>3. ASSUME NEW g \in Handler PROVE
    HandlerShape(g)' /\ WebhookHoldsUnpaid(g)' /\ SandboxSeesUuid(g)'
  BY DEF IInv, TypeOK, TxRow, HandlerState, OrderShape, HandlerShape,
         WebhookHoldsUnpaid, SandboxSeesUuid, LockIsExclusive, Holds
<1>4. LockIsExclusive'
  BY DEF IInv, TypeOK, HandlerState, LockIsExclusive, Holds, HandlerShape
<1>5. ASSUME NEW z \in Scanner PROVE ScanShape(z)'
  BY DEF IInv, TypeOK, ScanState, ScanShape
<1> QED BY <1>1, <1>2, <1>3, <1>4, <1>5 DEF IInv

\* Under the lock the webhook's order is unpaid, so it is issued once.
LEMMA FulfilStep ==
    ASSUME IInv, NEW h \in Handler, Fulfil(h)
    PROVE  IInv'
<1> USE BillingAssumption, RowTypes DEF Fulfil, IdleHandler, balances, grants, process
<1>1. TypeOK'
  <2>1. handler[h].order \in Tx /\ handler[h].user \in User
    BY DEF IInv, HandlerShape
  <2>2. /\ handler[h].row.add \in Nat
        /\ handler[h].credits \in Nat /\ handler[h].purchased \in Nat
        /\ handler[h].uuid \in {"none", "cryptomus", "sandbox"}
    BY DEF IInv, TypeOK, HandlerState, TxRow
  <2> DEFINE o == handler[h].order
             row == [tx[o] EXCEPT !.status = "paid", !.uuid = handler[h].uuid]
  <2>3. tx' = [tx EXCEPT ![o] = row] /\ row \in TxRow
    <3>1. tx[o] \in TxRow
      BY <2>1 DEF IInv, TypeOK
    <3> QED BY <2>2, <3>1 DEF TxRow
  <2> HIDE DEF row
  <2>4. credits' \in [User -> Nat] /\ purchased' \in [User -> Nat]
    BY <2>1, <2>2 DEF IInv, TypeOK
  <2> QED BY <2>1, <2>3, <2>4 DEF IInv, TypeOK
<1>2. ASSUME NEW o \in Tx PROVE OrderShape(o)' /\ Issued(o)'
  <2>1. /\ handler[h].order \in Tx /\ WebhookHoldsUnpaid(h)
        /\ tx[handler[h].order].status # "absent"
        /\ \/ handler[h].uuid = "cryptomus" /\ mode = "live"
           \/ handler[h].uuid = "sandbox" /\ mode = "sandbox"
    BY DEF IInv, HandlerShape
  <2>2. OrderShape(o) /\ Issued(o) /\ mode \in Modes
    BY DEF IInv, TypeOK
  <2>3. CASE o = handler[h].order
    <3>1. tx'[o].status = "paid" /\ tx'[o].owner = tx[o].owner /\ tx'[o].url = tx[o].url
      BY <2>1, <2>3 DEF IInv, TypeOK, TxRow
    <3>2. OrderShape(o)'
      BY <2>1, <2>2, <2>3, <3>1 DEF OrderShape, WebhookHoldsUnpaid
    <3>3. Issued(o)'
      BY <2>1, <2>2, <2>3, <3>1 DEF IInv, TypeOK, Issued, WebhookHoldsUnpaid
    <3> QED BY <3>2, <3>3
  <2>4. CASE o # handler[h].order
    BY <2>1, <2>2, <2>4 DEF IInv, TypeOK, OrderShape, Issued
  <2> QED BY <2>3, <2>4
<1>3. ASSUME NEW g \in Handler PROVE
    HandlerShape(g)' /\ WebhookHoldsUnpaid(g)' /\ SandboxSeesUuid(g)'
  BY DEF IInv, TypeOK, TxRow, HandlerState, OrderShape, HandlerShape,
         WebhookHoldsUnpaid, SandboxSeesUuid, LockIsExclusive, Holds
<1>4. LockIsExclusive'
  BY DEF IInv, TypeOK, HandlerState, LockIsExclusive, Holds, HandlerShape
<1>5. ASSUME NEW z \in Scanner PROVE ScanShape(z)'
  BY DEF IInv, TypeOK, ScanState, ScanShape
<1> QED BY <1>1, <1>2, <1>3, <1>4, <1>5 DEF IInv

\* A handler that gives up releases its lock.
LEMMA AbortStep ==
    ASSUME IInv, NEW h \in Handler, Abort(h)
    PROVE  IInv'
<1> USE BillingAssumption, RowTypes DEF Abort, IdleHandler, balances, grants, process
<1>1. TypeOK'
  BY DEF IInv, TypeOK
<1>2. ASSUME NEW o \in Tx PROVE OrderShape(o)' /\ Issued(o)'
  BY DEF IInv, TypeOK, TxRow, OrderShape, Issued
<1>3. ASSUME NEW g \in Handler PROVE
    HandlerShape(g)' /\ WebhookHoldsUnpaid(g)' /\ SandboxSeesUuid(g)'
  BY DEF IInv, TypeOK, TxRow, HandlerState, OrderShape, HandlerShape,
         WebhookHoldsUnpaid, SandboxSeesUuid, LockIsExclusive, Holds
<1>4. LockIsExclusive'
  BY DEF IInv, TypeOK, HandlerState, LockIsExclusive, Holds, HandlerShape
<1>5. ASSUME NEW z \in Scanner PROVE ScanShape(z)'
  BY DEF IInv, TypeOK, ScanState, ScanShape
<1> QED BY <1>1, <1>2, <1>3, <1>4, <1>5 DEF IInv

\* A scan loads the balances as they are committed.
LEMMA LoadUsersStep ==
    ASSUME IInv, NEW s \in Scanner, LoadUsers(s)
    PROVE  IInv'
<1> USE BillingAssumption, RowTypes DEF LoadUsers, balances, grants, process
<1>1. TypeOK'
  <2>1. PICK new \in ScanState : scan' = [scan EXCEPT ![s] = new]
    BY ZenonT(60) DEF IInv, TypeOK, ScanState
  <2>2. scan' \in [Scanner -> ScanState]
    BY <2>1 DEF IInv, TypeOK
  <2> QED BY <2>2 DEF IInv, TypeOK
<1>2. ASSUME NEW o \in Tx PROVE OrderShape(o)' /\ Issued(o)'
  BY DEF IInv, TypeOK, TxRow, OrderShape, Issued
<1>3. ASSUME NEW g \in Handler PROVE
    HandlerShape(g)' /\ WebhookHoldsUnpaid(g)' /\ SandboxSeesUuid(g)'
  BY DEF IInv, TypeOK, TxRow, HandlerState, OrderShape, HandlerShape,
         WebhookHoldsUnpaid, SandboxSeesUuid, LockIsExclusive, Holds
<1>4. LockIsExclusive'
  BY DEF IInv, TypeOK, HandlerState, LockIsExclusive, Holds, HandlerShape
<1>5. ASSUME NEW z \in Scanner PROVE ScanShape(z)'
  BY DEF IInv, TypeOK, ScanState, ScanShape
<1> QED BY <1>1, <1>2, <1>3, <1>4, <1>5 DEF IInv

\* A scored user is an account.
LEMMA ScoreUserStep ==
    ASSUME IInv, NEW s \in Scanner, NEW u \in User, NEW n \in 0 .. Batch, ScoreUser(s, u, n)
    PROVE  IInv'
<1> USE BillingAssumption, RowTypes DEF ScoreUser, balances, grants, process
<1>1. TypeOK'
  <2>1. PICK new \in ScanState : scan' = [scan EXCEPT ![s] = new]
    BY SMTT(60) DEF IInv, TypeOK, ScanState
  <2>2. scan' \in [Scanner -> ScanState]
    BY <2>1 DEF IInv, TypeOK
  <2> QED BY <2>2 DEF IInv, TypeOK
<1>2. ASSUME NEW o \in Tx PROVE OrderShape(o)' /\ Issued(o)'
  BY DEF IInv, TypeOK, TxRow, OrderShape, Issued
<1>3. ASSUME NEW g \in Handler PROVE
    HandlerShape(g)' /\ WebhookHoldsUnpaid(g)' /\ SandboxSeesUuid(g)'
  BY DEF IInv, TypeOK, TxRow, HandlerState, OrderShape, HandlerShape,
         WebhookHoldsUnpaid, SandboxSeesUuid, LockIsExclusive, Holds
<1>4. LockIsExclusive'
  BY DEF IInv, TypeOK, HandlerState, LockIsExclusive, Holds, HandlerShape
<1>5. ASSUME NEW z \in Scanner PROVE ScanShape(z)'
  BY DEF IInv, TypeOK, ScanState, ScanShape
<1> QED BY <1>1, <1>2, <1>3, <1>4, <1>5 DEF IInv

\* A skipped user is not charged.
LEMMA SkipUserStep ==
    ASSUME IInv, NEW s \in Scanner, NEW u \in User, SkipUser(s, u)
    PROVE  IInv'
<1> USE BillingAssumption, RowTypes DEF SkipUser, balances, grants, process
<1>1. TypeOK'
  <2>1. PICK new \in ScanState : scan' = [scan EXCEPT ![s] = new]
    BY ZenonT(60) DEF IInv, TypeOK, ScanState
  <2>2. scan' \in [Scanner -> ScanState]
    BY <2>1 DEF IInv, TypeOK
  <2> QED BY <2>2 DEF IInv, TypeOK
<1>2. ASSUME NEW o \in Tx PROVE OrderShape(o)' /\ Issued(o)'
  BY DEF IInv, TypeOK, TxRow, OrderShape, Issued
<1>3. ASSUME NEW g \in Handler PROVE
    HandlerShape(g)' /\ WebhookHoldsUnpaid(g)' /\ SandboxSeesUuid(g)'
  BY DEF IInv, TypeOK, TxRow, HandlerState, OrderShape, HandlerShape,
         WebhookHoldsUnpaid, SandboxSeesUuid, LockIsExclusive, Holds
<1>4. LockIsExclusive'
  BY DEF IInv, TypeOK, HandlerState, LockIsExclusive, Holds, HandlerShape
<1>5. ASSUME NEW z \in Scanner PROVE ScanShape(z)'
  BY DEF IInv, TypeOK, ScanState, ScanShape
<1> QED BY <1>1, <1>2, <1>3, <1>4, <1>5 DEF IInv

\* The balance stays a natural number.
LEMMA ChargeStep ==
    ASSUME IInv, NEW s \in Scanner, Charge(s)
    PROVE  IInv'
<1> USE BillingAssumption, RowTypes DEF Charge, Lesser, balances, grants, process
<1>1. TypeOK'
  <2>1. scan[s].user \in User
    BY DEF IInv, ScanShape
  <2>2. scan[s].seen[scan[s].user] \in Nat /\ scan[s].scored \in Nat
    BY <2>1 DEF IInv, TypeOK, ScanState
  <2>3. credits' \in [User -> Nat]
    BY <2>1, <2>2 DEF IInv, TypeOK
  <2>4. scan' \in [Scanner -> ScanState]
    <3>1. PICK new \in ScanState : scan' = [scan EXCEPT ![s] = new]
      BY ZenonT(60) DEF IInv, TypeOK, ScanState
    <3> QED BY <3>1, ZenonT(60) DEF IInv, TypeOK
  <2> QED BY <2>3, <2>4 DEF IInv, TypeOK
<1>2. ASSUME NEW o \in Tx PROVE OrderShape(o)' /\ Issued(o)'
  BY DEF IInv, TypeOK, TxRow, OrderShape, Issued
<1>3. ASSUME NEW g \in Handler PROVE
    HandlerShape(g)' /\ WebhookHoldsUnpaid(g)' /\ SandboxSeesUuid(g)'
  BY DEF IInv, TypeOK, TxRow, HandlerState, OrderShape, HandlerShape,
         WebhookHoldsUnpaid, SandboxSeesUuid, LockIsExclusive, Holds
<1>4. LockIsExclusive'
  BY DEF IInv, TypeOK, HandlerState, LockIsExclusive, Holds, HandlerShape
<1>5. ASSUME NEW z \in Scanner PROVE ScanShape(z)'
  BY DEF IInv, TypeOK, ScanState, ScanShape
<1> QED BY <1>1, <1>2, <1>3, <1>4, <1>5 DEF IInv

\* A scan that ends forgets what it loaded.
LEMMA EndScanStep ==
    ASSUME IInv, NEW s \in Scanner, EndScan(s)
    PROVE  IInv'
<1> USE BillingAssumption, RowTypes DEF EndScan, IdleScan, balances, grants, process
<1>1. TypeOK'
  BY DEF IInv, TypeOK
<1>2. ASSUME NEW o \in Tx PROVE OrderShape(o)' /\ Issued(o)'
  BY DEF IInv, TypeOK, TxRow, OrderShape, Issued
<1>3. ASSUME NEW g \in Handler PROVE
    HandlerShape(g)' /\ WebhookHoldsUnpaid(g)' /\ SandboxSeesUuid(g)'
  BY DEF IInv, TypeOK, TxRow, HandlerState, OrderShape, HandlerShape,
         WebhookHoldsUnpaid, SandboxSeesUuid, LockIsExclusive, Holds
<1>4. LockIsExclusive'
  BY DEF IInv, TypeOK, HandlerState, LockIsExclusive, Holds, HandlerShape
<1>5. ASSUME NEW z \in Scanner PROVE ScanShape(z)'
  BY DEF IInv, TypeOK, ScanState, ScanShape
<1> QED BY <1>1, <1>2, <1>3, <1>4, <1>5 DEF IInv

\* A restart releases every lock and closes every checkout.
LEMMA RestartStep ==
    ASSUME IInv, NEW m \in Modes, Restart(m)
    PROVE  IInv'
<1> USE BillingAssumption, RowTypes DEF Restart, IdleHandler, IdleScan, balances, grants, process
<1>1. TypeOK'
  BY DEF IInv, TypeOK
<1>2. ASSUME NEW o \in Tx PROVE OrderShape(o)' /\ Issued(o)'
  BY DEF IInv, TypeOK, TxRow, OrderShape, Issued
<1>3. ASSUME NEW g \in Handler PROVE
    HandlerShape(g)' /\ WebhookHoldsUnpaid(g)' /\ SandboxSeesUuid(g)'
  BY DEF IInv, TypeOK, TxRow, HandlerState, OrderShape, HandlerShape,
         WebhookHoldsUnpaid, SandboxSeesUuid, LockIsExclusive, Holds
<1>4. LockIsExclusive'
  BY DEF IInv, TypeOK, HandlerState, LockIsExclusive, Holds, HandlerShape
<1>5. ASSUME NEW z \in Scanner PROVE ScanShape(z)'
  BY DEF IInv, TypeOK, ScanState, ScanShape
<1> QED BY <1>1, <1>2, <1>3, <1>4, <1>5 DEF IInv

\* Every step, stuttering included, preserves the invariant.
LEMMA NextIInv == IInv /\ [Next]_vars => IInv'
<1> SUFFICES ASSUME IInv, [Next]_vars PROVE IInv'
  OBVIOUS
<1>1. CASE Next
  BY <1>1, OpenOrderStep, CreateInvoiceStep, StorePaymentUrlStep, FailOrderStep,
     AbandonCheckoutStep, SettleStep, WebhookLockStep, WebhookReadUserStep,
     SandboxAuthenticateStep, SandboxSelectStep, SandboxLockStep, FulfilStep,
     AbortStep, LoadUsersStep, ScoreUserStep, SkipUserStep,
     ChargeStep, EndScanStep, RestartStep
     DEF Next
<1>2. CASE UNCHANGED vars
  BY <1>2 DEF vars, balances, grants, process, IInv, TypeOK, OrderShape, Issued,
         HandlerShape, WebhookHoldsUnpaid, SandboxSeesUuid,
         LockIsExclusive, Holds, ScanShape
<1> QED BY <1>1, <1>2

\* The only actions that write payment_transactions.
LEMMA WritersOfTx ==
    ASSUME [Next]_vars
    PROVE  \/ UNCHANGED tx
           \/ \E u \in User, t \in Tx, pack \in Packs : OpenOrder(u, t, pack)
           \/ \E t \in Tx : StorePaymentUrl(t) \/ FailOrder(t)
           \/ \E h \in Handler : Fulfil(h)
BY ZenonT(60) DEF Next, vars, CreateInvoice, AbandonCheckout, Settle, WebhookLock,
       WebhookReadUser, SandboxAuthenticate, SandboxSelect, SandboxLock, Abort,
       LoadUsers, ScoreUser, SkipUser, Charge, EndScan, Restart

\* No step takes a row's owner or package away, or a paid order back.
LEMMA RowKept ==
    ASSUME IInv, [Next]_vars, NEW o \in Tx, tx[o].status # "absent"
    PROVE  /\ tx'[o].owner = tx[o].owner /\ tx'[o].add = tx[o].add
           /\ tx'[o].status # "absent"
           /\ tx[o].status = "paid" => tx'[o].status = "paid"
<1> DEFINE Kept == /\ tx'[o].owner = tx[o].owner /\ tx'[o].add = tx[o].add
                   /\ tx'[o].status # "absent"
                   /\ tx[o].status = "paid" => tx'[o].status = "paid"
<1>1. CASE UNCHANGED tx
  BY <1>1
<1>2. ASSUME NEW u \in User, NEW t \in Tx, NEW pack \in Packs, OpenOrder(u, t, pack)
      PROVE  Kept
  BY <1>2 DEF OpenOrder, IInv, TypeOK
<1>3. ASSUME NEW t \in Tx, StorePaymentUrl(t) PROVE Kept
  <2>1. PICK uuid \in {"none", "cryptomus", "sandbox"} :
          tx' = [tx EXCEPT ![t] = [tx[t] EXCEPT !.url = TRUE, !.uuid = uuid]]
    BY <1>3, StoredUrl
  <2> QED BY <2>1 DEF IInv, TypeOK, TxRow
<1>4. ASSUME NEW t \in Tx, FailOrder(t) PROVE Kept
  BY <1>4 DEF FailOrder, IInv, TypeOK, TxRow, OrderShape
<1>5. ASSUME NEW h \in Handler, Fulfil(h) PROVE Kept
  BY <1>5 DEF Fulfil, IInv, TypeOK, TxRow
<1> QED BY <1>1, <1>2, <1>3, <1>4, <1>5, WritersOfTx

\* An order becomes paid by Fulfil only.
LEMMA PaidByFulfil ==
    ASSUME IInv, [Next]_vars, NEW o \in Tx, tx[o].status # "paid", tx'[o].status = "paid"
    PROVE  \E h \in Handler : Fulfil(h) /\ handler[h].order = o
<1>1. CASE UNCHANGED tx
  BY <1>1
<1>2. ASSUME NEW u \in User, NEW t \in Tx, NEW pack \in Packs, OpenOrder(u, t, pack)
      PROVE  FALSE
  BY <1>2 DEF OpenOrder, IInv, TypeOK, NoRow
<1>3. ASSUME NEW t \in Tx, StorePaymentUrl(t) PROVE FALSE
  <2>1. PICK uuid \in {"none", "cryptomus", "sandbox"} :
          tx' = [tx EXCEPT ![t] = [tx[t] EXCEPT !.url = TRUE, !.uuid = uuid]]
    BY <1>3, StoredUrl
  <2> QED BY <2>1 DEF IInv, TypeOK, TxRow
<1>4. ASSUME NEW t \in Tx, FailOrder(t) PROVE FALSE
  BY <1>4 DEF FailOrder, IInv, TypeOK, TxRow
<1>5. ASSUME NEW h \in Handler, Fulfil(h) PROVE handler[h].order = o
  BY <1>5 DEF Fulfil, IInv, TypeOK, TxRow
<1> QED BY <1>1, <1>2, <1>3, <1>4, <1>5, WritersOfTx

\* The invariant holds in every reachable state.
THEOREM Invariance == Spec => []IInv
BY InitIInv, NextIInv, PTL DEF Spec

-----------------------------------------------------------------------------
\* The state keeps its types: in particular no interleaving of stale writes
\* makes a balance negative.
THEOREM TypeCorrect == Spec => []TypeOK
<1>1. IInv => TypeOK
  BY DEF IInv
<1> QED BY <1>1, Invariance, PTL

\* In a process that is never started with sandbox settings, the credits of
\* an order are issued exactly once, by the commit that makes it paid,
\* whatever the number of webhooks and handlers.
THEOREM IssuedOnce ==
    ASSUME "sandbox" \notin Modes
    PROVE  Spec => []PaidMeansIssuedOnce
<1>1. IInv => PaidMeansIssuedOnce
  <2> SUFFICES ASSUME IInv, NEW t \in Tx
               PROVE  Grants(t) = IF tx[t].status = "paid" THEN 1 ELSE 0
    BY DEF PaidMeansIssuedOnce
  <2> QED BY DEF IInv, Issued, Grants
<1> QED BY <1>1, Invariance, PTL

\* No step takes a paid order back or changes what it was for.
THEOREM PaidStaysPaid == Spec => PaidIsFinal
<1> DEFINE Final(t) == tx[t].status = "paid" =>
      /\ tx'[t].status = "paid"
      /\ tx'[t].owner = tx[t].owner /\ tx'[t].add = tx[t].add
<1>1. IInv /\ [Next]_vars => \A t \in Tx : Final(t)
  BY RowKept
<1>2. (\A t \in Tx : Final(t)) => [\A t \in Tx : Final(t)]_vars
  OBVIOUS
<1> QED BY <1>1, <1>2, Invariance, PTL DEF Spec, PaidIsFinal

\* An order that carries a Cryptomus uuid becomes paid only with settled
\* money, in every mix of live and sandbox settings across restarts.
THEOREM ProviderOrdersArePaidFor == Spec => ProviderOrderNeedsMoney
<1> DEFINE Needs(t) == tx[t].uuid = "cryptomus" /\ tx[t].status # "paid"
                         /\ tx'[t].status = "paid" => invoice[t] = "settled"
<1>1. IInv /\ [Next]_vars => \A t \in Tx : Needs(t)
  <2> SUFFICES ASSUME IInv, [Next]_vars, NEW o \in Tx, tx[o].uuid = "cryptomus",
                      tx[o].status # "paid", tx'[o].status = "paid"
               PROVE  invoice[o] = "settled"
    OBVIOUS
  <2>1. PICK h \in Handler : Fulfil(h) /\ handler[h].order = o
    BY PaidByFulfil
  <2> QED BY <2>1 DEF Fulfil, IInv, TypeOK, HandlerState, HandlerShape,
             WebhookHoldsUnpaid, SandboxSeesUuid
<1>2. (\A t \in Tx : Needs(t)) => [\A t \in Tx : Needs(t)]_vars
  OBVIOUS
<1> QED BY <1>1, <1>2, Invariance, PTL DEF Spec, ProviderOrderNeedsMoney

-----------------------------------------------------------------------------
\* One order at most becomes paid in a step.
LEMMA StillFinitelyPaid ==
    ASSUME IInv, [Next]_vars, FinitelyPaid
    PROVE  FinitelyPaid'
<1> DEFINE paid == {t \in Tx : tx[t].status = "paid"}
<1>1. CASE \E h \in Handler : Fulfil(h)
  <2>1. PICK h \in Handler : Fulfil(h)
    BY <1>1
  <2>2. paid' \in SUBSET (paid \cup {handler[h].order})
    BY <2>1 DEF Fulfil, IInv, TypeOK, TxRow
  <2>3. IsFiniteSet(paid \cup {handler[h].order})
    BY FS_AddElement DEF FinitelyPaid
  <2> QED BY <2>2, <2>3, FS_Subset DEF FinitelyPaid
<1>2. CASE ~ \E h \in Handler : Fulfil(h)
  <2>1. paid' \in SUBSET paid
    BY <1>2, PaidByFulfil
  <2> QED BY <2>1, FS_Subset DEF FinitelyPaid
<1> QED BY <1>1, <1>2

\* A package is a number of credits.
LEMMA AddIsNat ==
    ASSUME NEW rows \in [Tx -> TxRow], NEW t \in Tx
    PROVE  rows[t].add \in Nat
<1>1. rows[t].add \in Packs \cup {0}
  BY DEF TxRow
<1>2. Packs \cup {0} \subseteq Nat
  BY BillingAssumption
<1> QED BY <1>1, <1>2

\* The paid orders of an account: a finite set whose packages add up.
LEMMA PaidSet ==
    ASSUME TypeOK, FinitelyPaid, NEW u, NEW S \in SUBSET PaidOf(u)
    PROVE  /\ IsFiniteSet(S) /\ Total(tx, S) \in Nat
           /\ \A t \in S : tx[t].add \in Nat
           /\ PaidValue(u) = Total(tx, PaidOf(u))
<1>1. IsFiniteSet(S)
  BY FS_Subset DEF FinitelyPaid, PaidOf
<1>2. \A t \in S : tx[t].add \in Nat
  BY AddIsNat DEF TypeOK, PaidOf
<1>3. PaidValue(u) = Total(tx, PaidOf(u))
  BY DEF PaidValue, Total, PaidOf
<1> QED BY <1>1, <1>2, <1>3, TotalRemove

\* What an account has paid for never loses value.
LEMMA ValueGrows ==
    ASSUME IInv, IInv', FinitelyPaid, [Next]_vars, NEW u, NEW o
    PROVE  /\ PaidOf(u) \subseteq PaidOf(u)'
           /\ PaidValue(u) \in Nat /\ PaidValue(u)' \in Nat /\ PaidValue(u) <= PaidValue(u)'
           /\ ValueBut(u, o) \in Nat /\ ValueBut(u, o)' \in Nat /\ ValueBut(u, o) <= ValueBut(u, o)'
<1>1. PaidOf(u) \subseteq PaidOf(u)' /\ \A t \in PaidOf(u) : tx'[t].add = tx[t].add
  BY RowKept DEF PaidOf
<1>2. ASSUME NEW S \in SUBSET PaidOf(u)', IsFiniteSet(S)
      PROVE  \A t \in S : tx'[t].add \in Nat
  <2>1. tx' \in [Tx -> TxRow]
    BY DEF IInv, TypeOK
  <2> QED BY <2>1, AddIsNat DEF PaidOf
<1>3. FinitelyPaid' /\ TypeOK' /\ TypeOK
  BY StillFinitelyPaid DEF IInv
<1>4. ASSUME NEW R \in SUBSET PaidOf(u), NEW S \in SUBSET PaidOf(u)', R \subseteq S
      PROVE  /\ Total(tx, R) \in Nat /\ Total(tx', S) \in Nat
             /\ Total(tx, R) <= Total(tx', S)
  <2>1. IsFiniteSet(R) /\ Total(tx, R) \in Nat
    BY <1>3, PaidSet
  <2>2. IsFiniteSet(S)
    BY <1>3, FS_Subset DEF FinitelyPaid, PaidOf
  <2>3. \A t \in S : tx'[t].add \in Nat
    BY <1>2, <2>2
  <2>4. Total(tx', R) = Total(tx, R)
    BY <1>1, <2>1, TotalSame
  <2>5. Total(tx', S) \in Nat
    BY <2>2, <2>3, TotalRemove
  <2>6. Total(tx', R) <= Total(tx', S)
    BY <2>2, <2>3, <1>4, TotalGrows
  <2> QED BY <2>1, <2>4, <2>5, <2>6
<1>5. PaidValue(u) = Total(tx, PaidOf(u)) /\ ValueBut(u, o) = Total(tx, PaidOf(u) \ {o})
  BY DEF PaidValue, Total, PaidOf, ValueBut
<1>6. PaidValue(u)' = Total(tx', PaidOf(u)')
  BY DEF PaidValue, Total, PaidOf, MapThenSumSet, MapThenFoldSet
<1>7. ValueBut(u, o)' = Total(tx', PaidOf(u)' \ {o})
  BY DEF ValueBut, Total, MapThenSumSet, MapThenFoldSet
<1> QED BY <1>1, <1>4, <1>5, <1>6, <1>7

\* What a step may do to a handler: one of its own actions, or nothing, or
\* its work is over.
LEMMA HandlerMoves ==
    ASSUME IInv, [Next]_vars, NEW g \in Handler
    PROVE  \/ handler'[g] = handler[g]
           \/ handler'[g].pc = "idle"
           \/ \E t \in Tx : WebhookLock(g, t)
           \/ WebhookReadUser(g)
           \/ \E u \in User : SandboxAuthenticate(g, u)
           \/ \E t \in Tx : SandboxSelect(g, t)
           \/ SandboxLock(g)
<1> DEFINE Goal == \/ handler'[g] = handler[g]
                   \/ handler'[g].pc = "idle"
                   \/ \E t \in Tx : WebhookLock(g, t)
                   \/ WebhookReadUser(g)
                   \/ \E u \in User : SandboxAuthenticate(g, u)
                   \/ \E t \in Tx : SandboxSelect(g, t)
                   \/ SandboxLock(g)
<1>1. CASE UNCHANGED handler
  BY <1>1
<1>2. ASSUME NEW h \in Handler,
             \/ \E t \in Tx : WebhookLock(h, t)
             \/ WebhookReadUser(h)
             \/ \E u \in User : SandboxAuthenticate(h, u)
             \/ \E t \in Tx : SandboxSelect(h, t)
             \/ SandboxLock(h)
      PROVE  Goal
  <2>1. CASE h = g
    BY <1>2, <2>1
  <2>2. CASE h # g
    <3>1. \E new : handler' = [handler EXCEPT ![h] = new]
      BY <1>2, ZenonT(30)
         DEF WebhookLock, WebhookReadUser, SandboxAuthenticate, SandboxSelect, SandboxLock
    <3> QED BY <2>2, <3>1 DEF IInv, TypeOK
  <2> QED BY <2>1, <2>2
<1>3. ASSUME NEW h \in Handler, Fulfil(h) \/ Abort(h) PROVE Goal
  <2>1. handler' = [handler EXCEPT ![h] = IdleHandler]
    BY <1>3 DEF Fulfil, Abort
  <2> QED BY <2>1 DEF IdleHandler, IInv, TypeOK
<1>4. ASSUME NEW m \in Modes, Restart(m) PROVE Goal
  BY <1>4 DEF Restart, IdleHandler
<1>5. \/ UNCHANGED handler
      \/ \E h \in Handler : \/ \E t \in Tx : WebhookLock(h, t)
                            \/ WebhookReadUser(h)
                            \/ \E u \in User : SandboxAuthenticate(h, u)
                            \/ \E t \in Tx : SandboxSelect(h, t)
                            \/ SandboxLock(h)
                            \/ Fulfil(h) \/ Abort(h)
      \/ \E m \in Modes : Restart(m)
  BY ZenonT(60) DEF Next, vars, OpenOrder, CreateInvoice, StorePaymentUrl, FailOrder, AbandonCheckout,
     Settle, LoadUsers, ScoreUser, SkipUser, Charge, EndScan
<1> QED BY <1>1, <1>2, <1>3, <1>4, <1>5

\* ... and to a scan.
LEMMA ScanMoves ==
    ASSUME IInv, [Next]_vars, NEW z \in Scanner
    PROVE  \/ scan'[z].pc # "idle" => scan[z].pc # "idle" /\ scan'[z].seen = scan[z].seen
           \/ scan'[z].seen = credits
<1> DEFINE Goal == \/ scan'[z].pc # "idle" => scan[z].pc # "idle" /\ scan'[z].seen = scan[z].seen
                   \/ scan'[z].seen = credits
<1>1. CASE UNCHANGED scan
  BY <1>1
<1>2. ASSUME NEW s \in Scanner, LoadUsers(s) PROVE Goal
  BY <1>2 DEF LoadUsers, IInv, TypeOK, ScanState
<1>3. ASSUME NEW s \in Scanner, NEW u \in User, NEW n \in 0 .. Batch, ScoreUser(s, u, n) PROVE Goal
  BY <1>3 DEF ScoreUser, IInv, TypeOK, ScanState
<1>4. ASSUME NEW s \in Scanner, NEW u \in User, SkipUser(s, u) PROVE Goal
  BY <1>4 DEF SkipUser, IInv, TypeOK, ScanState
<1>5. ASSUME NEW s \in Scanner, Charge(s) PROVE Goal
  BY <1>5 DEF Charge, IInv, TypeOK, ScanState
<1>6. ASSUME NEW s \in Scanner, EndScan(s) PROVE Goal
  BY <1>6 DEF EndScan, IdleScan, IInv, TypeOK, ScanState
<1>7. ASSUME NEW m \in Modes, Restart(m) PROVE Goal
  BY <1>7 DEF Restart, IdleScan
<1>8. \/ UNCHANGED scan
      \/ \E s \in Scanner : \/ LoadUsers(s)
                            \/ \E u \in User, n \in 0 .. Batch : ScoreUser(s, u, n)
                            \/ \E u \in User : SkipUser(s, u)
                            \/ Charge(s) \/ EndScan(s)
      \/ \E m \in Modes : Restart(m)
  BY ZenonT(60) DEF Next, vars, OpenOrder, CreateInvoice, StorePaymentUrl, FailOrder, AbandonCheckout,
     Settle, WebhookLock, WebhookReadUser, SandboxAuthenticate, SandboxSelect, SandboxLock,
     Fulfil, Abort
<1> QED BY <1>1, <1>2, <1>3, <1>4, <1>5, <1>6, <1>7, <1>8

\* Balances are written by the commit of a fulfilment and by a charge.
LEMMA WritersOfBalances ==
    ASSUME [Next]_vars
    PROVE  \/ UNCHANGED balances
           \/ \E h \in Handler : Fulfil(h)
           \/ \E s \in Scanner : Charge(s)
BY ZenonT(60) DEF Next, vars, OpenOrder, CreateInvoice, StorePaymentUrl, FailOrder,
     AbandonCheckout, Settle,
       WebhookLock, WebhookReadUser, SandboxAuthenticate, SandboxSelect, SandboxLock, Abort,
       LoadUsers, ScoreUser, SkipUser, EndScan, Restart

\* The commit of a fulfilment adds its package to what the session has read,
\* which other orders cover.
LEMMA FulfilCovered ==
    ASSUME FundsInv, IInv', [Next]_vars, NEW h \in Handler, Fulfil(h), NEW u \in User
    PROVE  credits'[u] <= Trial + PaidValue(u)' /\ purchased'[u] <= PaidValue(u)'
<1>0. PICK t, owner, add : t = handler[h].order /\ owner = handler[h].user /\ add = handler[h].row.add
  OBVIOUS
<1>1. /\ IInv /\ TypeOK /\ FinitelyPaid /\ NoMinting
      /\ KnowsOrder(h) /\ ReadNoMore(h) /\ HandlerShape(h)
  BY DEF FundsInv, IInv
<1>2. /\ handler[h].pc = "ready" /\ owner \in User /\ t \in Tx
      /\ handler[h] \in HandlerState
  BY <1>0, <1>1 DEF Fulfil, HandlerShape, TypeOK
<1>3. /\ credits' = [credits EXCEPT ![owner] = handler[h].credits + add]
      /\ purchased' = [purchased EXCEPT ![owner] = handler[h].purchased + add]
  BY <1>0 DEF Fulfil
<1>4. /\ PaidValue(u) \in Nat /\ PaidValue(u)' \in Nat /\ PaidValue(u) <= PaidValue(u)'
      /\ ValueBut(u, t) \in Nat /\ ValueBut(u, t)' \in Nat /\ ValueBut(u, t) <= ValueBut(u, t)'
  BY <1>1, ValueGrows
<1>5. credits \in [User -> Nat] /\ purchased \in [User -> Nat] /\ Trial \in Nat
  BY <1>1, BillingAssumption DEF TypeOK
<1>6. credits[u] <= Trial + PaidValue(u) /\ purchased[u] <= PaidValue(u)
  BY <1>1 DEF NoMinting
<1>7. CASE u # owner
  <2>1. credits'[u] = credits[u] /\ purchased'[u] = purchased[u]
    BY <1>2, <1>3, <1>5, <1>7
  <2> QED BY <2>1, <1>4, <1>5, <1>6
<1>8. CASE u = owner
  <2>1. /\ handler[h].credits <= Trial + ValueBut(u, t) /\ handler[h].purchased <= ValueBut(u, t)
        /\ handler[h].credits \in Nat /\ handler[h].purchased \in Nat
    BY <1>0, <1>1, <1>2, <1>8 DEF KnowsOrder, ReadNoMore, HandlerState
  <2>2. tx[t].status # "absent" /\ tx[t].owner = u /\ tx[t].add = add
    BY <1>0, <1>1, <1>2, <1>8 DEF KnowsOrder, HandlerShape
  <2>3. tx'[t].owner = u /\ tx'[t].add = add
    BY <1>1, <1>2, <2>2, RowKept
  <2>4. tx'[t].status = "paid"
    BY <1>0, <1>1, <1>2 DEF Fulfil, TypeOK, TxRow
  <2>5. t \in PaidOf(u)'
    BY <1>2, <2>3, <2>4 DEF PaidOf
  <2>6. PaidValue(u)' = add + ValueBut(u, t)' /\ add \in Nat
    <3>1. FinitelyPaid' /\ TypeOK'
      BY <1>1, StillFinitelyPaid DEF IInv
    <3>2. IsFiniteSet(PaidOf(u)') /\ \A o \in PaidOf(u)' : tx'[o].add \in Nat
      <4>1. tx' \in [Tx -> TxRow]
        BY <3>1 DEF TypeOK
      <4> QED BY <3>1, <4>1, AddIsNat, FS_Subset DEF FinitelyPaid, PaidOf
    <3>3. Total(tx', PaidOf(u)') = tx'[t].add + Total(tx', PaidOf(u)' \ {t})
      BY <2>5, <3>2, TotalRemove
    <3>4. PaidValue(u)' = Total(tx', PaidOf(u)')
      BY DEF PaidValue, Total, PaidOf, MapThenSumSet, MapThenFoldSet
    <3>5. ValueBut(u, t)' = Total(tx', PaidOf(u)' \ {t})
      BY DEF ValueBut, Total, MapThenSumSet, MapThenFoldSet
    <3> QED BY <2>3, <2>5, <3>2, <3>3, <3>4, <3>5
  <2>7. credits'[u] = handler[h].credits + add /\ purchased'[u] = handler[h].purchased + add
    BY <1>2, <1>3, <1>5, <1>8
  <2> QED BY <2>1, <2>6, <2>7, <1>4, <1>5
<1> QED BY <1>7, <1>8

\* A charge writes at most what the scan has seen.
LEMMA ChargeCovered ==
    ASSUME FundsInv, IInv', [Next]_vars, NEW s \in Scanner, Charge(s), NEW u \in User
    PROVE  credits'[u] <= Trial + PaidValue(u)' /\ purchased'[u] <= PaidValue(u)'
<1>1. IInv /\ TypeOK /\ FinitelyPaid /\ NoMinting /\ SeenNoMore(s) /\ ScanShape(s)
  BY DEF FundsInv, IInv
<1>2. PaidValue(u) \in Nat /\ PaidValue(u)' \in Nat /\ PaidValue(u) <= PaidValue(u)'
  BY <1>1, ValueGrows
<1>3. credits \in [User -> Nat] /\ purchased \in [User -> Nat] /\ Trial \in Nat
  BY <1>1, BillingAssumption DEF TypeOK
<1>4. credits[u] <= Trial + PaidValue(u) /\ purchased[u] <= PaidValue(u)
  BY <1>1 DEF NoMinting
<1>5. purchased' = purchased
  BY DEF Charge
<1>6. credits'[u] <= Trial + PaidValue(u)
  <2>0. PICK n, k, v : v = scan[s].user /\ n = scan[s].seen[v] /\ k = scan[s].scored
    OBVIOUS
  <2>1. v \in User /\ n \in Nat /\ k \in Nat
    BY <1>1, <2>0 DEF Charge, ScanShape, TypeOK, ScanState
  <2>2. n <= Trial + PaidValue(v)
    BY <1>1, <2>0, <2>1 DEF Charge, SeenNoMore
  <2>3. credits' = credits \/ credits' = [credits EXCEPT ![v] = n - Lesser(n, k)]
    BY <2>0 DEF Charge
  <2>4. n - Lesser(n, k) <= n
    BY <2>1 DEF Lesser
  <2>5. n - Lesser(n, k) \in Int
    BY <2>1 DEF Lesser
  <2>6. CASE v = u
    BY <2>1, <2>2, <2>3, <2>4, <2>5, <2>6, <1>2, <1>3, <1>4
  <2>7. CASE v # u
    BY <2>1, <2>3, <2>7, <1>3, <1>4
  <2> QED BY <2>6, <2>7
<1>7. credits'[u] \in Int /\ purchased'[u] \in Int
  BY DEF IInv, TypeOK
<1> QED BY <1>2, <1>3, <1>4, <1>5, <1>6, <1>7

\* No step mints.
LEMMA NoMintingStep ==
    ASSUME FundsInv, IInv', [Next]_vars
    PROVE  NoMinting'
<1> SUFFICES ASSUME NEW u \in User
             PROVE  credits'[u] <= Trial + PaidValue(u)' /\ purchased'[u] <= PaidValue(u)'
  BY DEF NoMinting
<1>1. CASE UNCHANGED balances
  <2>1. IInv /\ TypeOK /\ FinitelyPaid /\ NoMinting
    BY DEF FundsInv, IInv
  <2>2. PaidValue(u) \in Nat /\ PaidValue(u)' \in Nat /\ PaidValue(u) <= PaidValue(u)'
    BY <2>1, ValueGrows
  <2>3. credits[u] \in Nat /\ purchased[u] \in Nat /\ Trial \in Nat
    BY <2>1, BillingAssumption DEF TypeOK
  <2>4. credits[u] <= Trial + PaidValue(u) /\ purchased[u] <= PaidValue(u)
    BY <2>1 DEF NoMinting
  <2>5. credits' = credits /\ purchased' = purchased
    BY <1>1 DEF balances
  <2> QED BY <2>2, <2>3, <2>4, <2>5
<1> QED BY <1>1, WritersOfBalances, FulfilCovered, ChargeCovered

\* What a scan has seen stays covered.
LEMMA SeenStep ==
    ASSUME FundsInv, IInv', [Next]_vars, NEW z \in Scanner
    PROVE  SeenNoMore(z)'
<1> SUFFICES ASSUME scan'[z].pc # "idle", NEW u \in User
             PROVE  scan'[z].seen[u] <= Trial + PaidValue(u)'
  BY DEF SeenNoMore
<1>1. IInv /\ TypeOK /\ FinitelyPaid /\ NoMinting /\ SeenNoMore(z)
  BY DEF FundsInv, IInv
<1>2. PaidValue(u) \in Nat /\ PaidValue(u)' \in Nat /\ PaidValue(u) <= PaidValue(u)'
  BY <1>1, ValueGrows
<1>3. Trial \in Nat /\ credits[u] \in Nat /\ scan[z].seen[u] \in Nat
  BY <1>1, BillingAssumption DEF TypeOK, ScanState
<1>4. credits[u] <= Trial + PaidValue(u)
  BY <1>1 DEF NoMinting
<1>5. CASE scan[z].pc # "idle" /\ scan'[z].seen = scan[z].seen
  <2>1. scan[z].seen[u] <= Trial + PaidValue(u)
    BY <1>1, <1>5 DEF SeenNoMore
  <2> QED BY <2>1, <1>2, <1>3, <1>5
<1>6. CASE scan'[z].seen = credits
  BY <1>2, <1>3, <1>4, <1>6
<1> QED BY <1>1, <1>5, <1>6, ScanMoves

\* What the loading steps leave in the handler: the webhook takes the row as
\* it is under the lock.
LEMMA AfterWebhookLock ==
    ASSUME IInv, NEW g \in Handler, NEW t \in Tx, WebhookLock(g, t)
    PROVE  /\ handler'[g].pc = "locked" /\ handler'[g].order = t /\ handler'[g].row = tx[t]
           /\ tx[t].status # "paid" /\ tx' = tx
<1>1. handler'[g] =
        [IdleHandler EXCEPT !.pc = "locked", !.uuid = "cryptomus", !.order = t, !.row = tx[t]]
  BY DEF WebhookLock, IInv, TypeOK
<1>2. handler'[g].pc = "locked" /\ handler'[g].order = t /\ handler'[g].row = tx[t]
  BY ONLY <1>1 DEF IdleHandler
<1> QED BY <1>2 DEF WebhookLock, MayFulfil

\* The webhook reads the owner of the row it locked.
LEMMA AfterReadUser ==
    ASSUME IInv, NEW g \in Handler, WebhookReadUser(g)
    PROVE  /\ handler[g].pc = "locked" /\ handler[g].uuid = "cryptomus" /\ tx' = tx
           /\ handler'[g].pc = "ready" /\ handler'[g].user = handler[g].row.owner
           /\ handler'[g].order = handler[g].order /\ handler'[g].row = handler[g].row
           /\ handler'[g].credits = credits[handler[g].row.owner]
           /\ handler'[g].purchased = purchased[handler[g].row.owner]
<1> DEFINE after == handler'[g]
           r == handler[g]
           u == handler[g].row.owner
           c == credits[handler[g].row.owner]
           p == purchased[handler[g].row.owner]
<1>1. after = [r EXCEPT !.pc = "ready", !.user = u, !.credits = c, !.purchased = p]
  BY DEF WebhookReadUser, IInv, TypeOK
<1>2. r \in HandlerState
  BY DEF IInv, TypeOK
<1>3. /\ after.pc = "ready" /\ after.user = u /\ after.order = r.order /\ after.row = r.row
      /\ after.credits = c /\ after.purchased = p
  <2> HIDE DEF after, r, u, c, p
  <2> QED BY ONLY <1>1, <1>2 DEF HandlerState
<1> QED BY <1>3 DEF WebhookReadUser

\* Authentication reads the account, before any order is known.
LEMMA AfterAuthenticate ==
    ASSUME IInv, NEW g \in Handler, NEW u \in User, SandboxAuthenticate(g, u)
    PROVE  /\ handler'[g].pc = "authenticated" /\ handler'[g].user = u /\ tx' = tx
           /\ handler'[g].credits = credits[u] /\ handler'[g].purchased = purchased[u]
<1>1. handler'[g] = [IdleHandler EXCEPT !.pc = "authenticated", !.uuid = "sandbox",
              !.user = u, !.credits = credits[u], !.purchased = purchased[u]]
  BY DEF SandboxAuthenticate, IInv, TypeOK
<1>2. /\ handler'[g].pc = "authenticated" /\ handler'[g].user = u
      /\ handler'[g].credits = credits[u] /\ handler'[g].purchased = purchased[u]
  BY ONLY <1>1 DEF IdleHandler
<1> QED BY <1>2 DEF SandboxAuthenticate

\* test-fulfil then loads one of the account's own orders.
LEMMA AfterSelect ==
    ASSUME IInv, NEW g \in Handler, NEW t \in Tx, SandboxSelect(g, t)
    PROVE  /\ handler[g].pc = "authenticated" /\ tx' = tx /\ tx[t].owner = handler[g].user
           /\ handler'[g].pc = "selected" /\ handler'[g].order = t /\ handler'[g].row = tx[t]
           /\ handler'[g].user = handler[g].user
           /\ handler'[g].credits = handler[g].credits
           /\ handler'[g].purchased = handler[g].purchased
<1> DEFINE after == handler'[g]
           r == handler[g]
           row == tx[t]
<1>1. after = [r EXCEPT !.pc = "selected", !.order = t, !.row = row]
  BY DEF SandboxSelect, IInv, TypeOK
<1>2. r \in HandlerState
  BY DEF IInv, TypeOK
<1>3. /\ after.pc = "selected" /\ after.user = r.user /\ after.order = t /\ after.row = row
      /\ after.credits = r.credits /\ after.purchased = r.purchased
  <2> HIDE DEF after, r, row
  <2> QED BY ONLY <1>1, <1>2 DEF HandlerState
<1> QED BY <1>3 DEF SandboxSelect

\* SELECT FOR UPDATE refreshes nothing that is already loaded.
LEMMA AfterLock ==
    ASSUME IInv, NEW g \in Handler, SandboxLock(g)
    PROVE  /\ handler[g].pc = "selected" /\ tx' = tx /\ handler[g].row.status # "paid"
           /\ handler'[g].pc = "ready" /\ handler'[g].order = handler[g].order
           /\ handler'[g].row = handler[g].row /\ handler'[g].user = handler[g].user
           /\ handler'[g].credits = handler[g].credits
           /\ handler'[g].purchased = handler[g].purchased
<1> DEFINE after == handler'[g]
           r == handler[g]
<1>1. after = [r EXCEPT !.pc = "ready"]
  BY DEF SandboxLock, IInv, TypeOK
<1>2. r \in HandlerState
  BY DEF IInv, TypeOK
<1>3. /\ after.pc = "ready" /\ after.user = r.user /\ after.order = r.order /\ after.row = r.row
      /\ after.credits = r.credits /\ after.purchased = r.purchased
  <2> HIDE DEF after, r
  <2> QED BY ONLY <1>1, <1>2 DEF HandlerState
<1> QED BY <1>3 DEF SandboxLock, MayFulfil

\* The copy of an order stays right: rows keep owner and package.
LEMMA KnowsOrderStep ==
    ASSUME IInv, [Next]_vars, NEW g \in Handler, KnowsOrder(g)
    PROVE  KnowsOrder(g)'
<1>1. CASE handler'[g] = handler[g]
  <2>1. handler[g].pc \in {"selected", "locked", "ready"} =>
          /\ tx'[handler[g].order].owner = tx[handler[g].order].owner
          /\ tx'[handler[g].order].add = tx[handler[g].order].add
    BY RowKept DEF IInv, HandlerShape
  <2> QED BY <1>1, <2>1 DEF KnowsOrder
<1>2. CASE handler'[g].pc = "idle"
  BY <1>2 DEF KnowsOrder
<1>3. ASSUME NEW t \in Tx, WebhookLock(g, t) PROVE KnowsOrder(g)'
  BY <1>3, AfterWebhookLock DEF KnowsOrder
<1>4. CASE WebhookReadUser(g)
  BY <1>4, AfterReadUser DEF KnowsOrder
<1>5. ASSUME NEW u \in User, SandboxAuthenticate(g, u) PROVE KnowsOrder(g)'
  BY <1>5, AfterAuthenticate DEF KnowsOrder
<1>6. ASSUME NEW t \in Tx, SandboxSelect(g, t) PROVE KnowsOrder(g)'
  BY <1>6, AfterSelect DEF KnowsOrder
<1>7. CASE SandboxLock(g)
  BY <1>7, AfterLock DEF KnowsOrder
<1> QED BY <1>1, <1>2, <1>3, <1>4, <1>5, <1>6, <1>7, HandlerMoves

\* A session that reads counters reads covered ones, and cover only grows.
LEMMA ReadNoMoreStep ==
    ASSUME FundsInv, IInv', [Next]_vars, NEW g \in Handler
    PROVE  ReadNoMore(g)'
<1>0. IInv /\ TypeOK /\ FinitelyPaid /\ KnowsOrder(g) /\ ReadNoMore(g) /\ NoMinting
  BY DEF FundsInv, IInv
<1>1. \A u, o : /\ PaidValue(u) \in Nat /\ PaidValue(u)' \in Nat /\ PaidValue(u) <= PaidValue(u)'
                /\ ValueBut(u, o) \in Nat /\ ValueBut(u, o)' \in Nat
                /\ ValueBut(u, o) <= ValueBut(u, o)'
  BY <1>0, ValueGrows
<1>2. Trial \in Nat /\ credits \in [User -> Nat] /\ purchased \in [User -> Nat]
      /\ handler[g] \in HandlerState
  BY <1>0, BillingAssumption DEF TypeOK
<1>3. handler[g].credits \in Nat /\ handler[g].purchased \in Nat
  BY <1>2 DEF HandlerState
<1>4. ASSUME NEW u, NEW o, tx[o].status # "paid" PROVE PaidValue(u) = ValueBut(u, o)
  <2>1. PaidOf(u) \ {o} = PaidOf(u)
    BY <1>4 DEF PaidOf
  <2>2. PaidValue(u) = Total(tx, PaidOf(u))
    BY <1>0, PaidSet
  <2> QED BY <2>1, <2>2 DEF ValueBut
<1>5. CASE handler'[g] = handler[g]
  <2>1. PICK u, o, c, p, st, k :
          /\ u = handler[g].user /\ o = handler[g].order /\ c = handler[g].credits
          /\ p = handler[g].purchased /\ st = handler[g].row.status /\ k = handler[g].pc
    OBVIOUS
  <2>2. /\ k = "authenticated" => c <= Trial + PaidValue(u)' /\ p <= PaidValue(u)'
        /\ k \in {"selected", "ready"} /\ st # "paid" =>
             c <= Trial + ValueBut(u, o)' /\ p <= ValueBut(u, o)'
    <3>1. /\ k = "authenticated" => c <= Trial + PaidValue(u) /\ p <= PaidValue(u)
          /\ k \in {"selected", "ready"} /\ st # "paid" =>
               c <= Trial + ValueBut(u, o) /\ p <= ValueBut(u, o)
      BY <1>0, <2>1 DEF ReadNoMore
    <3> QED BY <1>1, <1>2, <1>3, <2>1, <3>1
  <2>3. /\ handler'[g].user = u /\ handler'[g].order = o /\ handler'[g].credits = c
        /\ handler'[g].purchased = p /\ handler'[g].row.status = st /\ handler'[g].pc = k
    BY <1>5, <2>1
  <2> QED BY <2>2, <2>3 DEF ReadNoMore
<1>6. CASE handler'[g].pc = "idle"
  BY <1>6 DEF ReadNoMore
<1>7. ASSUME NEW t \in Tx, WebhookLock(g, t) PROVE ReadNoMore(g)'
  BY <1>0, <1>7, AfterWebhookLock DEF ReadNoMore
<1>8. CASE WebhookReadUser(g)
  <2>1. PICK u, o : u = handler[g].row.owner /\ o = handler[g].order
    OBVIOUS
  <2>2. u \in User /\ tx[o].status # "paid"
    BY <1>0, <1>8, <2>1, AfterReadUser DEF IInv, HandlerShape, WebhookHoldsUnpaid
  <2>3. credits[u] <= Trial + ValueBut(u, o)' /\ purchased[u] <= ValueBut(u, o)'
    <3>1. credits[u] <= Trial + PaidValue(u) /\ purchased[u] <= PaidValue(u)
      BY <1>0, <2>2 DEF NoMinting
    <3>2. PaidValue(u) = ValueBut(u, o)
      BY <1>4, <2>2
    <3> QED BY <1>1, <1>2, <2>2, <3>1, <3>2
  <2>4. /\ handler'[g].user = u /\ handler'[g].order = o /\ handler'[g].pc = "ready"
        /\ handler'[g].credits = credits[u] /\ handler'[g].purchased = purchased[u]
    BY <1>0, <1>8, <2>1, AfterReadUser
  <2> QED BY <2>3, <2>4 DEF ReadNoMore
<1>9. ASSUME NEW u \in User, SandboxAuthenticate(g, u) PROVE ReadNoMore(g)'
  <2>1. credits[u] <= Trial + PaidValue(u) /\ purchased[u] <= PaidValue(u)
    BY <1>0 DEF NoMinting
  <2>2. credits[u] <= Trial + PaidValue(u)' /\ purchased[u] <= PaidValue(u)'
    <3>1. PaidValue(u) \in Nat /\ PaidValue(u)' \in Nat /\ PaidValue(u) <= PaidValue(u)'
      BY <1>0, ValueGrows
    <3>2. credits[u] \in Nat /\ purchased[u] \in Nat
      BY <1>2
    <3> QED BY <1>2, <2>1, <3>1, <3>2
  <2>3. /\ handler'[g].user = u /\ handler'[g].pc = "authenticated"
        /\ handler'[g].credits = credits[u] /\ handler'[g].purchased = purchased[u]
    BY <1>0, <1>9, AfterAuthenticate
  <2> QED BY <2>2, <2>3 DEF ReadNoMore
<1>10. ASSUME NEW t \in Tx, SandboxSelect(g, t) PROVE ReadNoMore(g)'
  <2>1. PICK u, c, p : u = handler[g].user /\ c = handler[g].credits /\ p = handler[g].purchased
    OBVIOUS
  <2>2. c <= Trial + PaidValue(u) /\ p <= PaidValue(u)
    BY <1>0, <1>10, <2>1, AfterSelect DEF ReadNoMore
  <2>3. tx[t].status # "paid" => c <= Trial + ValueBut(u, t)' /\ p <= ValueBut(u, t)'
    <3>1. ASSUME tx[t].status # "paid" PROVE PaidValue(u) = ValueBut(u, t)
      BY <1>4, <3>1
    <3> QED BY <1>1, <1>2, <1>3, <2>1, <2>2, <3>1
  <2>4. /\ handler'[g].user = u /\ handler'[g].order = t /\ handler'[g].pc = "selected"
        /\ handler'[g].credits = c /\ handler'[g].purchased = p /\ handler'[g].row = tx[t]
    BY <1>0, <1>10, <2>1, AfterSelect
  <2> QED BY <2>3, <2>4 DEF ReadNoMore
<1>11. CASE SandboxLock(g)
  <2>1. PICK u, o, c, p : /\ u = handler[g].user /\ o = handler[g].order
                          /\ c = handler[g].credits /\ p = handler[g].purchased
    OBVIOUS
  <2>2. c <= Trial + ValueBut(u, o) /\ p <= ValueBut(u, o)
    BY <1>0, <1>11, <2>1, AfterLock DEF ReadNoMore
  <2>3. c <= Trial + ValueBut(u, o)' /\ p <= ValueBut(u, o)'
    BY <1>1, <1>2, <1>3, <2>1, <2>2
  <2>4. /\ handler'[g].user = u /\ handler'[g].order = o /\ handler'[g].pc = "ready"
        /\ handler'[g].credits = c /\ handler'[g].purchased = p
    BY <1>0, <1>11, <2>1, AfterLock
  <2> QED BY <2>3, <2>4 DEF ReadNoMore
<1> QED BY <1>0, <1>5, <1>6, <1>7, <1>8, <1>9, <1>10, <1>11, HandlerMoves

\* Nothing is paid, and nobody has read anything, at the start.
LEMMA FundsInit == Init => FundsInv
<1> SUFFICES ASSUME Init PROVE FundsInv
  OBVIOUS
<1>1. {t \in Tx : tx[t].status = "paid"} = {}
  BY DEF Init, NoRow
<1>2. FinitelyPaid
  BY <1>1, FS_EmptySet DEF FinitelyPaid
<1>3. ASSUME NEW h \in Handler PROVE KnowsOrder(h) /\ ReadNoMore(h)
  BY DEF Init, IdleHandler, KnowsOrder, ReadNoMore
<1>4. ASSUME NEW z \in Scanner PROVE SeenNoMore(z)
  BY DEF Init, IdleScan, SeenNoMore
<1>5. NoMinting
  <2> SUFFICES ASSUME NEW u \in User
               PROVE  credits[u] <= Trial + PaidValue(u) /\ purchased[u] <= PaidValue(u)
    BY DEF NoMinting
  <2>1. PaidOf(u) = {} /\ PaidValue(u) = Total(tx, PaidOf(u))
    BY <1>1 DEF PaidOf, PaidValue, Total
  <2>2. Total(tx, {}) = 0
    BY TotalStep, FS_EmptySet
  <2> QED BY <2>1, <2>2, BillingAssumption DEF Init
<1> QED BY <1>2, <1>3, <1>4, <1>5, InitIInv DEF FundsInv

\* FundsInv is preserved.
LEMMA FundsStep ==
    ASSUME FundsInv, IInv', [Next]_vars
    PROVE  FundsInv'
<1>1. IInv /\ FinitelyPaid /\ \A h \in Handler : KnowsOrder(h)
  BY DEF FundsInv
<1>2. FinitelyPaid'
  BY <1>1, StillFinitelyPaid
<1>3. \A h \in Handler : KnowsOrder(h)' /\ ReadNoMore(h)'
  BY <1>1, KnowsOrderStep, ReadNoMoreStep
<1> QED BY <1>2, <1>3, SeenStep, NoMintingStep DEF FundsInv

\* FundsInv holds in every reachable state.
LEMMA FundsHold == Spec => []FundsInv
<1>1. FundsInv /\ IInv' /\ [Next]_vars => FundsInv'
  BY FundsStep
<1> QED BY <1>1, FundsInit, Invariance, PTL DEF Spec

\* No account ever holds more than its trial credits and what it paid for,
\* nor shows more purchases than it paid for: NoMinting, for any number of
\* accounts, orders, handlers and scans that lose each other's updates.
THEOREM NothingMinted == Spec => []NoMinting
<1>1. FundsInv => NoMinting
  BY DEF FundsInv
<1> QED BY <1>1, FundsHold, PTL

-----------------------------------------------------------------------------
\* BalanceIsExact without the sum.
ExactBalance(u) ==
    /\ PaidOf(u) = {} => credits[u] = Trial /\ purchased[u] = 0
    /\ \A o \in Tx : PaidOf(u) = {o} =>
          credits[u] = Trial + tx[o].add /\ purchased[u] = tx[o].add

\* A session that works on the first paid order of an account has read the
\* counters of an account that paid for nothing.
ReadExactly(h) ==
    LET s == handler[h] IN
    \/ s.pc = "authenticated" /\ PaidOf(s.user) = {}
    \/ s.pc \in {"selected", "ready"} /\ s.row.status # "paid" /\ PaidOf(s.user) \subseteq {s.order}
    => s.credits = Trial /\ s.purchased = 0

\* ExactInv, with FundsInv, is inductive when there are no scans.
ExactInv == /\ FundsInv
            /\ \A u \in User : ExactBalance(u)
            /\ \A h \in Handler : ReadExactly(h)

\* What BalanceIsExact says of the sum, for no paid order and for one.
LEMMA ExactIsExact ==
    ASSUME ExactInv
    PROVE  BalanceIsExact
<1> SUFFICES ASSUME NEW u \in User, Cardinality(PaidOf(u)) <= 1
             PROVE  credits[u] = Trial + PaidValue(u) /\ purchased[u] = PaidValue(u)
  BY DEF BalanceIsExact, PaidOf
<1>1. TypeOK /\ FinitelyPaid /\ ExactBalance(u)
  BY DEF ExactInv, FundsInv, IInv
<1>2. IsFiniteSet(PaidOf(u)) /\ PaidValue(u) = Total(tx, PaidOf(u))
      /\ \A t \in PaidOf(u) : tx[t].add \in Nat
  BY <1>1, PaidSet
<1>3. Total(tx, {}) = 0
  BY TotalStep, FS_EmptySet
<1>4. CASE PaidOf(u) = {}
  BY <1>1, <1>2, <1>3, <1>4, BillingAssumption DEF ExactBalance
<1>5. CASE PaidOf(u) # {}
  <2>1. PICK o \in PaidOf(u) : TRUE
    BY <1>5
  <2>2. Cardinality(PaidOf(u)) \in Nat /\ Cardinality(PaidOf(u) \ {o}) = Cardinality(PaidOf(u)) - 1
    BY <1>2, <2>1, FS_RemoveElement, FS_CardinalityType
  <2>3. IsFiniteSet(PaidOf(u) \ {o}) /\ Cardinality(PaidOf(u) \ {o}) \in Nat
    BY <1>2, FS_RemoveElement, FS_CardinalityType
  <2>4. PaidOf(u) \ {o} = {}
    BY <2>2, <2>3, FS_EmptySet
  <2>5. PaidOf(u) = {o} /\ o \in Tx
    BY <2>1, <2>4 DEF PaidOf
  <2>6. PaidValue(u) = tx[o].add /\ tx[o].add \in Nat
    <3>1. Total(tx, PaidOf(u)) = tx[o].add + Total(tx, PaidOf(u) \ {o})
      BY <1>2, <2>1, TotalRemove
    <3> QED BY <1>2, <1>3, <2>1, <2>4, <3>1
  <2> QED BY <1>1, <2>5, <2>6, BillingAssumption DEF ExactBalance
<1> QED BY <1>4, <1>5

\* The paid orders change with a fulfilment only, and by its order.
LEMMA PaidOfStep ==
    ASSUME FundsInv, IInv', [Next]_vars, NEW u
    PROVE  /\ PaidOf(u) \subseteq PaidOf(u)'
           /\ \A o \in Tx : o \in PaidOf(u) => tx'[o].add = tx[o].add
           /\ \A o \in PaidOf(u)' \ PaidOf(u) :
                \E h \in Handler : Fulfil(h) /\ handler[h].order = o /\ handler[h].user = u
<1>1. IInv /\ FinitelyPaid /\ \A h \in Handler : KnowsOrder(h)
  BY DEF FundsInv
<1>2. PaidOf(u) \subseteq PaidOf(u)'
  BY <1>1, ValueGrows
<1>3. \A o \in Tx : o \in PaidOf(u) => tx'[o].add = tx[o].add
  BY <1>1, RowKept DEF PaidOf
<1>4. ASSUME NEW o \in PaidOf(u)', o \notin PaidOf(u)
      PROVE  \E h \in Handler : Fulfil(h) /\ handler[h].order = o /\ handler[h].user = u
  <2>1. o \in Tx /\ tx'[o].status = "paid" /\ tx'[o].owner = u
    BY DEF PaidOf
  <2>2. tx[o].status # "paid"
    BY <1>1, <1>4, <2>1, RowKept DEF PaidOf
  <2>3. PICK h \in Handler : Fulfil(h) /\ handler[h].order = o
    BY <1>1, <2>1, <2>2, PaidByFulfil
  <2>4. tx[o].status # "absent" /\ handler[h].user = tx[o].owner
    BY <1>1, <2>3 DEF Fulfil, KnowsOrder, IInv, HandlerShape
  <2>5. tx'[o].owner = tx[o].owner
    BY <1>1, <2>1, <2>4, RowKept
  <2> QED BY <2>1, <2>3, <2>4, <2>5
<1> QED BY <1>2, <1>3, <1>4

\* Without scans a balance changes with a fulfilment only.
LEMMA ExactBalanceStep ==
    ASSUME Scanner = {}, ExactInv, IInv', [Next]_vars, NEW u \in User
    PROVE  ExactBalance(u)'
<1>1. /\ FundsInv /\ IInv /\ TypeOK /\ ExactBalance(u)
      /\ \A h \in Handler : KnowsOrder(h) /\ ReadExactly(h) /\ HandlerShape(h)
  BY DEF ExactInv, FundsInv, IInv
<1>2. /\ PaidOf(u) \subseteq PaidOf(u)'
      /\ \A o \in Tx : o \in PaidOf(u) => tx'[o].add = tx[o].add
      /\ \A o \in PaidOf(u)' \ PaidOf(u) :
           \E h \in Handler : Fulfil(h) /\ handler[h].order = o /\ handler[h].user = u
  BY <1>1, PaidOfStep
<1>3. CASE \E h \in Handler : Fulfil(h) /\ handler[h].user = u
  <2>1. PICK h \in Handler : Fulfil(h) /\ handler[h].user = u
    BY <1>3
  <2>2. PICK t, add : t = handler[h].order /\ add = handler[h].row.add
    OBVIOUS
  <2>3. handler[h].pc = "ready" /\ t \in Tx
    BY <1>1, <2>1, <2>2 DEF Fulfil, HandlerShape
  <2>4. handler[h].row.status # "paid" /\ tx[t].owner = u /\ tx[t].add = add /\ tx[t].status # "absent"
    BY <1>1, <2>1, <2>2, <2>3 DEF KnowsOrder, HandlerShape
  <2>5. tx'[t].owner = u /\ tx'[t].add = add
    BY <1>1, <2>3, <2>4, RowKept
  <2>6. tx'[t].status = "paid"
    BY <1>1, <2>1, <2>2, <2>3 DEF Fulfil, TypeOK, TxRow
  <2>7. t \in PaidOf(u)'
    BY <2>3, <2>5, <2>6 DEF PaidOf
  <2>8. /\ credits'[u] = handler[h].credits + add /\ purchased'[u] = handler[h].purchased + add
    BY <1>1, <2>1, <2>2 DEF Fulfil, TypeOK
  <2>9. ASSUME NEW o \in Tx, PaidOf(u)' = {o}
        PROVE  credits'[u] = Trial + tx'[o].add /\ purchased'[u] = tx'[o].add
    <3>1. o = t /\ PaidOf(u) \subseteq {t}
      BY <1>2, <2>7, <2>9
    <3>2. handler[h].credits = Trial /\ handler[h].purchased = 0
      BY <1>1, <2>1, <2>2, <2>3, <2>4, <3>1 DEF ReadExactly
    <3>3. add \in Nat
      BY <1>1, <2>3, <2>4, AddIsNat DEF TypeOK
    <3> QED BY <2>5, <2>8, <3>1, <3>2, <3>3
  <2> QED BY <2>7, <2>9 DEF ExactBalance
<1>4. CASE ~ \E h \in Handler : Fulfil(h) /\ handler[h].user = u
  <2>1. PaidOf(u)' = PaidOf(u)
    BY <1>2, <1>4
  <2>2. credits'[u] = credits[u] /\ purchased'[u] = purchased[u]
    <3>1. CASE UNCHANGED balances
      BY <3>1 DEF balances
    <3>2. ASSUME NEW h \in Handler, Fulfil(h)
          PROVE  credits'[u] = credits[u] /\ purchased'[u] = purchased[u]
      BY <1>1, <1>4, <3>2 DEF Fulfil, TypeOK
    <3> QED BY <3>1, <3>2, WritersOfBalances
  <2> QED BY <1>1, <1>2, <2>1, <2>2 DEF ExactBalance
<1> QED BY <1>3, <1>4

\* What a session has read of an account without paid orders.
LEMMA ReadExactlyStep ==
    ASSUME ExactInv, IInv', [Next]_vars, NEW g \in Handler
    PROVE  ReadExactly(g)'
<1>1. /\ FundsInv /\ IInv /\ ReadExactly(g) /\ \A u \in User : ExactBalance(u)
      /\ HandlerShape(g) /\ WebhookHoldsUnpaid(g)
  BY DEF ExactInv, FundsInv, IInv
<1>2. \A u : PaidOf(u) \subseteq PaidOf(u)'
  BY <1>1, PaidOfStep
<1>3. tx' = tx => \A u : PaidOf(u)' = PaidOf(u)
  BY DEF PaidOf
<1>4. CASE handler'[g] = handler[g]
  BY <1>1, <1>2, <1>4 DEF ReadExactly
<1>5. CASE handler'[g].pc = "idle"
  BY <1>5 DEF ReadExactly
<1>6. ASSUME NEW t \in Tx, WebhookLock(g, t) PROVE ReadExactly(g)'
  BY <1>1, <1>6, AfterWebhookLock DEF ReadExactly
<1>7. CASE WebhookReadUser(g)
  <2>1. PICK u, o : u = handler[g].row.owner /\ o = handler[g].order
    OBVIOUS
  <2>2. u \in User /\ tx[o].status # "paid" /\ tx' = tx
    BY <1>1, <1>7, <2>1, AfterReadUser DEF HandlerShape, WebhookHoldsUnpaid
  <2>3. PaidOf(u)' \subseteq {o} => PaidOf(u) = {}
    BY <1>3, <2>2 DEF PaidOf
  <2>4. /\ handler'[g].user = u /\ handler'[g].order = o /\ handler'[g].pc = "ready"
        /\ handler'[g].credits = credits[u] /\ handler'[g].purchased = purchased[u]
    BY <1>1, <1>7, <2>1, AfterReadUser
  <2> QED BY <1>1, <2>2, <2>3, <2>4 DEF ReadExactly, ExactBalance
<1>8. ASSUME NEW u \in User, SandboxAuthenticate(g, u) PROVE ReadExactly(g)'
  BY <1>1, <1>3, <1>8, AfterAuthenticate DEF ReadExactly, ExactBalance
<1>9. ASSUME NEW t \in Tx, SandboxSelect(g, t) PROVE ReadExactly(g)'
  <2>1. PICK u : u = handler[g].user
    OBVIOUS
  <2>2. tx[t].status # "paid" /\ PaidOf(u)' \subseteq {t} => PaidOf(u) = {}
    BY <1>1, <1>3, <1>9, AfterSelect DEF PaidOf
  <2>3. /\ handler'[g].user = u /\ handler'[g].order = t /\ handler'[g].pc = "selected"
        /\ handler'[g].row = tx[t] /\ handler[g].pc = "authenticated"
        /\ handler'[g].credits = handler[g].credits /\ handler'[g].purchased = handler[g].purchased
    BY <1>1, <1>9, <2>1, AfterSelect
  <2> QED BY <1>1, <2>1, <2>2, <2>3 DEF ReadExactly
<1>10. CASE SandboxLock(g)
  BY <1>1, <1>2, <1>10, AfterLock DEF ReadExactly
<1> QED BY <1>1, <1>4, <1>5, <1>6, <1>7, <1>8, <1>9, <1>10, HandlerMoves

\* With no scan to lose its update, an account with one paid order holds
\* exactly its trial credits and that order's package, for any number of
\* webhooks, test fulfilments, checkouts and restarts: BalanceIsExact.
THEOREM ExactWithoutScans ==
    ASSUME Scanner = {}
    PROVE  Spec => []BalanceIsExact
<1>1. Init => ExactInv
  <2> SUFFICES ASSUME Init PROVE ExactInv
    OBVIOUS
  <2>1. \A u \in User : ExactBalance(u)
    BY DEF Init, NoRow, ExactBalance, PaidOf
  <2>2. \A h \in Handler : ReadExactly(h)
    BY DEF Init, IdleHandler, ReadExactly
  <2> QED BY <2>1, <2>2, FundsInit DEF ExactInv
<1>2. ExactInv /\ FundsInv' /\ [Next]_vars => ExactInv'
  <2> SUFFICES ASSUME ExactInv, FundsInv', [Next]_vars PROVE ExactInv'
    OBVIOUS
  <2>1. IInv'
    BY DEF FundsInv
  <2> QED BY <2>1, ExactBalanceStep, ReadExactlyStep DEF ExactInv
<1>3. ExactInv => BalanceIsExact
  BY ExactIsExact
<1> QED BY <1>1, <1>2, <1>3, FundsHold, PTL DEF Spec

-----------------------------------------------------------------------------
\* Without test-fulfil every step of Billing is a step of the abstract order
\* life cycle, or leaves every order as it was.
LEMMA StepIsOrderStep ==
    ASSUME "sandbox" \notin Modes, IInv, IInv', [Next]_vars
    PROVE  [Orders!Next]_(Orders!orderVars)
<1> USE DEF Orders!Next, Orders!orderVars, Orders!Open, Orders!Fail, Orders!Pay
<1>1. \A t \in Tx :
        /\ Grants(t) = IF tx[t].status = "paid" THEN 1 ELSE 0
        /\ Grants(t)' = IF tx'[t].status = "paid" THEN 1 ELSE 0
  BY DEF IInv, Issued, Grants
<1>2. CASE UNCHANGED tx
  BY <1>1, <1>2
<1>3. ASSUME NEW u \in User, NEW t \in Tx, NEW pack \in Packs,
             OpenOrder(u, t, pack)
      PROVE  Orders!Open(t)
  <2>1. \A o \in Tx : Grants(o)' = Grants(o)
    BY <1>3 DEF OpenOrder, Grants, grants
  <2> QED BY <1>3, <2>1, ZenonT(60) DEF OpenOrder, NoRow, IInv, TypeOK
<1>4. ASSUME NEW t \in Tx, StorePaymentUrl(t)
      PROVE  UNCHANGED Orders!orderVars
  <2>1. \A o \in Tx : Grants(o)' = Grants(o)
    BY <1>4 DEF StorePaymentUrl, Grants, grants
  <2>2. \A o \in Tx : tx'[o].status = tx[o].status
    <3>1. PICK uuid \in {"none", "cryptomus", "sandbox"} :
            tx' = [tx EXCEPT ![t] = [tx[t] EXCEPT !.url = TRUE, !.uuid = uuid]]
      BY <1>4, StoredUrl
    <3> QED BY <3>1 DEF IInv, TypeOK, TxRow
  <2> QED BY <2>1, <2>2
<1>5. ASSUME NEW t \in Tx, FailOrder(t)
      PROVE  Orders!Fail(t)
  <2>1. \A o \in Tx : Grants(o)' = Grants(o)
    BY <1>5 DEF FailOrder, Grants, grants
  <2>2. tx[t].status = "pending"
    BY <1>5 DEF FailOrder, IInv, OrderShape
  <2>3. /\ tx'[t].status = "failed"
        /\ \A o \in Tx \ {t} : tx'[o].status = tx[o].status
    BY <1>5 DEF FailOrder, IInv, TypeOK, TxRow
  <2>4. [o \in Tx |-> tx[o].status]' =
          [[o \in Tx |-> tx[o].status] EXCEPT ![t] = "failed"]
    BY <2>3
  <2> QED BY <2>1, <2>2, <2>4
<1>6. ASSUME NEW h \in Handler, Fulfil(h)
      PROVE  Orders!Pay(handler[h].order)
  <2>0. PICK t \in Tx : t = handler[h].order
    BY <1>6 DEF Fulfil, IInv, HandlerShape
  <2>1. tx[t].status \in {"pending", "failed"}
    BY <2>0, <1>6 DEF Fulfil, IInv, TypeOK, HandlerShape, WebhookHoldsUnpaid
  <2>2. /\ tx'[t].status = "paid"
        /\ \A o \in Tx \ {t} : tx'[o].status = tx[o].status
    BY <1>6, <2>0 DEF Fulfil, IInv, TypeOK, TxRow
  <2>3. Grants(t) = 0 /\ Grants(t)' = 1
    BY <1>1, <2>1, <2>2 DEF Grants
  <2>4. \A o \in Tx \ {t} : Grants(o)' = Grants(o)
    BY <1>1, <2>2 DEF Grants
  <2>5. [o \in Tx |-> tx[o].status]' =
          [[o \in Tx |-> tx[o].status] EXCEPT ![t] = "paid"]
    BY <2>1, <2>2
  <2>6. [o \in Tx |-> Grants(o)]' = [[o \in Tx |-> Grants(o)] EXCEPT ![t] = 1]
    BY <2>1, <2>3, <2>4 DEF Grants
  <2> QED BY <2>0, <2>1, <2>3, <2>5, <2>6
<1>7. \A h \in Handler : Fulfil(h) => handler[h].order \in Tx
  BY DEF IInv, HandlerShape, Fulfil
<1> QED BY <1>2, <1>3, <1>4, <1>5, <1>6, <1>7, WritersOfTx

\* Without test-fulfil Billing implements the order life cycle: webhooks,
\* checkouts, lost answers, aborted handlers and restarts never show an order
\* a history that PaymentOrders does not allow.
THEOREM Refinement ==
    ASSUME "sandbox" \notin Modes
    PROVE  Spec => ImplementsOrders
<1>1. Init => Orders!Init
  BY DEF Init, NoRow, Grants, Orders!Init
<1>2. IInv /\ IInv' /\ [Next]_vars => [Orders!Next]_(Orders!orderVars)
  BY StepIsOrderStep
<1> QED BY <1>1, <1>2, Invariance, PTL DEF Spec, ImplementsOrders, Orders!Spec
=============================================================================
