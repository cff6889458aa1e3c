------------------------------ MODULE Billing ------------------------------
(***************************************************************************)
(* Credits and payments: app/services/billing_service.py, app/api/billing  *)
(* and the charge that the scheduler makes in _score_and_notify.           *)
(*                                                                         *)
(* Every request handler and every scan has its own database session       *)
(* (READ COMMITTED, expire_on_commit=False), so what a handler has read    *)
(* stays in its objects until it writes: a read and the write that uses it *)
(* are two steps, and a write of users.credits stores an absolute number.  *)
(***************************************************************************)
EXTENDS Integers, FiniteSetsExt

CONSTANTS
    User,          \* accounts
    Admin,         \* the accounts whose role is "admin"
    Tx,            \* identifiers of payment transactions
    Handler,       \* HTTP handlers that can fulfil at the same time
    Scanner,       \* tasks that run _score_and_notify: hourly scan, watchlist
    NoUser, NoTx,  \* absent values
    Trial,         \* credits of a new account
    Packs,         \* credits of the packages on sale
    Batch,         \* max_jobs_per_scoring_batch
    Modes,         \* billing configurations a restart may bring
    MaxRestarts    \* bound on restarts

ASSUME BillingAssumption ==
    /\ Admin \subseteq User /\ NoUser \notin User /\ NoTx \notin Tx
    /\ Trial \in Nat /\ Batch \in Nat /\ MaxRestarts \in Nat
    /\ Packs \subseteq Nat
    /\ Modes \subseteq {"live", "sandbox", "off"}

VARIABLES
    credits,       \* users.credits, as committed
    purchased,     \* users.total_credits_purchased, as committed
    tx,            \* the rows of payment_transactions
    checkout,      \* checkout[t]: the create_checkout_invoice call for t
    invoice,       \* invoice[t]: the invoice of order t at Cryptomus
    handler,       \* handler[h]: a fulfilment in progress
    scan,          \* scan[s]: a scan in progress and the users it loaded
    mode,          \* which payment settings the process was started with
    restarts,      \* how often the process was restarted
    webhookGrants, \* history: how often a webhook issued the credits of t
    sandboxGrants  \* history: how often test-fulfil issued them

balances == <<credits, purchased>>
grants   == <<webhookGrants, sandboxGrants>>
process  == <<mode, restarts>>
vars     == <<balances, tx, checkout, invoice, handler, scan, process, grants>>

TxRow == [status : {"absent", "pending", "failed", "paid"},
          owner : User \cup {NoUser}, add : Packs \cup {0},
          uuid : {"none", "cryptomus", "sandbox"}, url : BOOLEAN]

\* row, credits and purchased are what the handler's session has loaded.
HandlerState == [pc : {"idle", "authenticated", "selected", "locked", "ready"},
                 uuid : {"none", "cryptomus", "sandbox"},
                 user : User \cup {NoUser}, order : Tx \cup {NoTx},
                 row : TxRow, credits : Nat, purchased : Nat]

\* seen is the credits column of the users the scan's session has loaded.
ScanState == [pc : {"idle", "loaded", "scored"}, seen : [User -> Nat],
              left : SUBSET User, user : User \cup {NoUser}, scored : Nat]

NoRow == [status |-> "absent", owner |-> NoUser, add |-> 0,
          uuid |-> "none", url |-> FALSE]
IdleHandler == [pc |-> "idle", uuid |-> "none", user |-> NoUser,
                order |-> NoTx, row |-> NoRow, credits |-> 0, purchased |-> 0]
IdleScan == [pc |-> "idle", seen |-> [u \in User |-> 0], left |-> {},
             user |-> NoUser, scored |-> 0]

Lesser(a, b) == IF a < b THEN a ELSE b

Init ==
    /\ credits   = [u \in User |-> Trial]
    /\ purchased = [u \in User |-> 0]
    /\ tx        = [t \in Tx |-> NoRow]
    /\ checkout  = [t \in Tx |-> "none"]
    /\ invoice   = [t \in Tx |-> "none"]
    /\ handler   = [h \in Handler |-> IdleHandler]
    /\ scan      = [s \in Scanner |-> IdleScan]
    /\ mode \in Modes
    /\ restarts  = 0
    /\ webhookGrants = [t \in Tx |-> 0]
    /\ sandboxGrants = [t \in Tx |-> 0]

-----------------------------------------------------------------------------
(* Checkout: create_checkout_invoice commits the pending order first, then *)
(* calls Cryptomus (15 s timeout), then commits what the call returned.    *)

\* Mutant of RowLocked: the order is read without FOR UPDATE.
RowNeverLocked(t) == FALSE

\* SELECT ... FOR UPDATE in a fulfilment keeps every other writer of t out.
RowLocked(t) == \E h \in Handler : /\ handler[h].order = t
                                   /\ handler[h].pc \in {"locked", "ready"}

OpenOrder(u, t, pack) ==
    /\ mode # "off"
    /\ tx[t].status = "absent"
    /\ tx' = [tx EXCEPT ![t] = [NoRow EXCEPT !.status = "pending",
                                             !.owner = u, !.add = pack]]
    /\ checkout' = [checkout EXCEPT ![t] = "open"]
    /\ UNCHANGED <<balances, invoice, handler, scan, process, grants>>

\* Cryptomus accepts the invoice; its answer may still be lost.
CreateInvoice(t) ==
    /\ mode = "live" /\ checkout[t] = "open" /\ invoice[t] = "none"
    /\ invoice' = [invoice EXCEPT ![t] = "unpaid"]
    /\ UNCHANGED <<balances, tx, checkout, handler, scan, process, grants>>

\* The answer carries a payment URL (and usually the invoice's uuid); in the
\* sandbox the URL is made up and there is no provider.
StorePaymentUrl(t) ==
    /\ checkout[t] = "open" /\ ~RowLocked(t)
    /\ \/ /\ mode = "live" /\ invoice[t] # "none"
          /\ \E uuid \in {"none", "cryptomus"} :
               tx' = [tx EXCEPT ![t] = [@ EXCEPT !.url = TRUE, !.uuid = uuid]]
       \/ /\ mode = "sandbox"
          /\ tx' = [tx EXCEPT ![t] = [@ EXCEPT !.url = TRUE]]
    /\ checkout' = [checkout EXCEPT ![t] = "closed"]
    /\ UNCHANGED <<balances, invoice, handler, scan, process, grants>>

\* Mutant of FailOrder: the timeout handler does not look whether the answer
\* was stored already.
FailOrderLate(t) ==
    /\ mode = "live" /\ checkout[t] # "none" /\ ~RowLocked(t)
    /\ tx' = [tx EXCEPT ![t].status = "failed"]
    /\ checkout' = [checkout EXCEPT ![t] = "closed"]
    /\ UNCHANGED <<balances, invoice, handler, scan, process, grants>>

\* The call raised, timed out, or returned no URL (perhaps with a uuid).
FailOrder(t) ==
    /\ mode = "live" /\ checkout[t] = "open" /\ ~RowLocked(t)
    /\ \E uuid \in {"none"} \cup IF invoice[t] = "none" THEN {} ELSE {"cryptomus"} :
         tx' = [tx EXCEPT ![t] = [@ EXCEPT !.status = "failed",
                                            !.uuid = uuid]]
    /\ checkout' = [checkout EXCEPT ![t] = "closed"]
    /\ UNCHANGED <<balances, invoice, handler, scan, process, grants>>

\* The final commit fails (lock_timeout on a locked row, lost connection).
AbandonCheckout(t) ==
    /\ checkout[t] = "open"
    /\ checkout' = [checkout EXCEPT ![t] = "closed"]
    /\ UNCHANGED <<balances, tx, invoice, handler, scan, process, grants>>

\* The customer pays at Cryptomus: possible once the URL was handed out.
Settle(t) ==
    /\ invoice[t] = "unpaid" /\ tx[t].url
    /\ invoice' = [invoice EXCEPT ![t] = "settled"]
    /\ UNCHANGED <<balances, tx, checkout, handler, scan, process, grants>>

-----------------------------------------------------------------------------
(* Fulfilment.  The webhook starts with an empty session; test-fulfil has  *)
(* already loaded the user (authentication) and the order (ownership), and *)
(* SELECT ... FOR UPDATE does not refresh an object that is loaded.        *)

\* Mutants of MayFulfil: no check for a paid row, for a foreign uuid, for a
\* row that never learned its uuid.
MayFulfilPaid(row, uuid)    == row.uuid \in {"none", uuid}
MayFulfilForeign(row, uuid) == row.status # "paid"
MayFulfilKnown(row, uuid)   == row.status # "paid" /\ row.uuid = uuid

\* Guards of fulfill_payment_transaction on the row its session holds.
MayFulfil(row, uuid) ==
    /\ row.status # "paid"
    /\ row.uuid \in {"none", uuid}

\* crypto_webhook with status paid or paid_over: delivered any number of
\* times, in any order; a refused or repeated delivery changes nothing.
WebhookLock(h, t) ==
    /\ mode = "live" /\ invoice[t] = "settled"
    /\ handler[h].pc = "idle" /\ ~RowLocked(t)
    /\ MayFulfil(tx[t], "cryptomus")
    /\ handler' = [handler EXCEPT ![h] =
         [IdleHandler EXCEPT !.pc = "locked", !.uuid = "cryptomus",
                             !.order = t, !.row = tx[t]]]
    /\ UNCHANGED <<balances, tx, checkout, invoice, scan, process, grants>>

\* SELECT of the order's user, in the same transaction, without a lock.
WebhookReadUser(h) ==
    /\ handler[h].pc = "locked" /\ handler[h].uuid = "cryptomus"
    /\ LET u == handler[h].row.owner IN
       handler' = [handler EXCEPT ![h].pc = "ready", ![h].user = u,
                                  ![h].credits = credits[u],
                                  ![h].purchased = purchased[u]]
    /\ UNCHANGED <<balances, tx, checkout, invoice, scan, process, grants>>

SandboxAuthenticate(h, u) ==
    /\ mode = "sandbox" /\ handler[h].pc = "idle"
    /\ handler' = [handler EXCEPT ![h] =
         [IdleHandler EXCEPT !.pc = "authenticated", !.uuid = "sandbox",
              !.user = u, !.credits = credits[u], !.purchased = purchased[u]]]
    /\ UNCHANGED <<balances, tx, checkout, invoice, scan, process, grants>>

SandboxSelect(h, t) ==
    /\ handler[h].pc = "authenticated"
    /\ tx[t].status # "absent" /\ tx[t].owner = handler[h].user
    /\ handler' = [handler EXCEPT ![h].pc = "selected", ![h].order = t,
                                  ![h].row = tx[t]]
    /\ UNCHANGED <<balances, tx, checkout, invoice, scan, process, grants>>

SandboxLock(h) ==
    /\ handler[h].pc = "selected" /\ ~RowLocked(handler[h].order)
    /\ MayFulfil(handler[h].row, "sandbox")
    /\ handler' = [handler EXCEPT ![h].pc = "ready"]
    /\ UNCHANGED <<balances, tx, checkout, invoice, scan, process, grants>>

\* One transaction: the order is paid and the user's two counters are
\* written from the values this session read.
Fulfil(h) ==
    LET t == handler[h].order
        u == handler[h].user
        add == handler[h].row.add IN
    /\ handler[h].pc = "ready"
    /\ tx' = [tx EXCEPT ![t] = [@ EXCEPT !.status = "paid",
                                         !.uuid = handler[h].uuid]]
    /\ credits'   = [credits EXCEPT ![u] = handler[h].credits + add]
    /\ purchased' = [purchased EXCEPT ![u] = handler[h].purchased + add]
    /\ handler' = [handler EXCEPT ![h] = IdleHandler]
    /\ IF handler[h].uuid = "cryptomus"
         THEN /\ webhookGrants' = [webhookGrants EXCEPT ![t] = @ + 1]
              /\ UNCHANGED sandboxGrants
         ELSE /\ sandboxGrants' = [sandboxGrants EXCEPT ![t] = @ + 1]
              /\ UNCHANGED webhookGrants
    /\ UNCHANGED <<checkout, invoice, scan, process>>

\* A refusal, a lock timeout or a lost connection: the session rolls back.
Abort(h) ==
    /\ handler[h].pc # "idle"
    /\ handler' = [handler EXCEPT ![h] = IdleHandler]
    /\ UNCHANGED <<balances, tx, checkout, invoice, scan, process, grants>>

-----------------------------------------------------------------------------
(* Charging.  A scan loads all active users once and reaches each of them  *)
(* minutes later; the hourly scan and the watchlist scan share no lock.    *)

LoadUsers(s) ==
    /\ scan[s].pc = "idle"
    /\ scan' = [scan EXCEPT ![s].pc = "loaded", ![s].seen = credits,
                            ![s].left = User]
    /\ UNCHANGED <<balances, tx, checkout, invoice, handler, process, grants>>

\* The scores are committed by the scorer before the charge is made.
ScoreUser(s, u, n) ==
    /\ scan[s].pc = "loaded" /\ u \in scan[s].left
    /\ scan[s].seen[u] > 0 \/ u \in Admin
    /\ scan' = [scan EXCEPT ![s].pc = "scored", ![s].left = @ \ {u},
                            ![s].user = u, ![s].scored = n]
    /\ UNCHANGED <<balances, tx, checkout, invoice, handler, process, grants>>

\* No new jobs, no credits left, or the scorer raised.
SkipUser(s, u) ==
    /\ scan[s].pc = "loaded" /\ u \in scan[s].left
    /\ scan' = [scan EXCEPT ![s].left = @ \ {u}]
    /\ UNCHANGED <<balances, tx, checkout, invoice, handler, process, grants>>

\* Mutant of Charge: the charge is not capped by the balance.
ChargeInFull(s) ==
    LET u == scan[s].user IN
    /\ scan[s].pc = "scored"
    /\ credits' = [credits EXCEPT ![u] = scan[s].seen[u] - scan[s].scored]
    /\ scan' = [scan EXCEPT ![s].pc = "loaded", ![s].user = NoUser,
                            ![s].scored = 0]
    /\ UNCHANGED <<purchased, tx, checkout, invoice, handler, process, grants>>

\* user.credits -= min(user.credits, len(scores)) on the loaded user.
Charge(s) ==
    LET u == scan[s].user
        left == scan[s].seen[u] - Lesser(scan[s].seen[u], scan[s].scored) IN
    /\ scan[s].pc = "scored"
    /\ IF u \in Admin \/ left = scan[s].seen[u]
         THEN UNCHANGED credits
         ELSE credits' = [credits EXCEPT ![u] = left]
    /\ scan' = [scan EXCEPT ![s].pc = "loaded", ![s].user = NoUser,
                            ![s].scored = 0]
    /\ UNCHANGED <<purchased, tx, checkout, invoice, handler, process, grants>>

\* All users done, or the scan died before the rest of them.
EndScan(s) ==
    /\ scan[s].pc # "idle"
    /\ scan' = [scan EXCEPT ![s] = IdleScan]
    /\ UNCHANGED <<balances, tx, checkout, invoice, handler, process, grants>>

-----------------------------------------------------------------------------
\* A deploy or crash: only the committed rows survive; settings may change.
Restart(m) ==
    /\ restarts < MaxRestarts
    /\ restarts' = restarts + 1
    /\ mode' = m
    /\ handler' = [h \in Handler |-> IdleHandler]
    /\ scan'    = [s \in Scanner |-> IdleScan]
    /\ checkout' = [t \in Tx |-> IF checkout[t] = "open" THEN "closed"
                                                         ELSE checkout[t]]
    /\ UNCHANGED <<balances, tx, invoice, grants>>

Next ==
    \/ \E u \in User, t \in Tx, pack \in Packs : OpenOrder(u, t, pack)
    \/ \E t \in Tx : \/ CreateInvoice(t)
                     \/ StorePaymentUrl(t)
                     \/ FailOrder(t)
                     \/ AbandonCheckout(t)
                     \/ Settle(t)
    \/ \E h \in Handler : \/ \E t \in Tx : WebhookLock(h, t)
                          \/ WebhookReadUser(h)
                          \/ \E u \in User : SandboxAuthenticate(h, u)
                          \/ \E t \in Tx : SandboxSelect(h, t)
                          \/ SandboxLock(h)
                          \/ Fulfil(h)
                          \/ Abort(h)
    \/ \E s \in Scanner : \/ LoadUsers(s)
                          \/ \E u \in User, n \in 0 .. Batch : ScoreUser(s, u, n)
                          \/ \E u \in User : SkipUser(s, u)
                          \/ Charge(s)
                          \/ EndScan(s)
    \/ \E m \in Modes : Restart(m)

Spec == Init /\ [][Next]_vars

\* Cryptomus repeats an unanswered webhook, and a handler that keeps being
\* called keeps getting the row lock and the commit through.
Fulfilling(t) == \E h \in Handler : handler[h].order = t /\ Fulfil(h)
Locking(t)    == \E h \in Handler : WebhookLock(h, t)
FairSpec ==
    /\ Spec
    /\ \A t \in Tx : SF_vars(Locking(t)) /\ SF_vars(Fulfilling(t))
    /\ \A h \in Handler : SF_vars(WebhookReadUser(h))

-----------------------------------------------------------------------------
TypeOK ==
    /\ credits \in [User -> Nat] /\ purchased \in [User -> Nat]
    /\ tx \in [Tx -> TxRow]
    /\ checkout \in [Tx -> {"none", "open", "closed"}]
    /\ invoice \in [Tx -> {"none", "unpaid", "settled"}]
    /\ handler \in [Handler -> HandlerState]
    /\ scan \in [Scanner -> ScanState]
    /\ mode \in Modes /\ restarts \in 0 .. MaxRestarts
    /\ webhookGrants \in [Tx -> Nat] /\ sandboxGrants \in [Tx -> Nat]

Grants(t) == webhookGrants[t] + sandboxGrants[t]

PaidValue(u) ==
    MapThenSumSet(LAMBDA t : tx[t].add,
                  {t \in Tx : tx[t].status = "paid" /\ tx[t].owner = u})

\* However webhooks, checkouts, scans and restarts interleave, an account
\* never holds more than its trial credits and its paid packages, and never
\* shows more purchases than it paid for.  (The absolute writes of Fulfil and
\* Charge can lose an update; they must not invent one.)
NoMinting ==
    \A u \in User : /\ credits[u] <= Trial + PaidValue(u)
                    /\ purchased[u] <= PaidValue(u)

\* The commit that makes an order paid is the one that issues its credits,
\* and no second webhook issues them again.
PaidMeansIssuedOnce ==
    \A t \in Tx : Grants(t) = IF tx[t].status = "paid" THEN 1 ELSE 0

\* An order that Cryptomus knows under a uuid becomes paid only with settled
\* money: test-fulfil cannot complete it, not even after a restart with
\* sandbox settings, nor from a row its session loaded earlier.
ProviderOrderNeedsMoney ==
    [][\A t \in Tx : tx[t].uuid = "cryptomus" /\ tx[t].status # "paid"
                        /\ tx'[t].status = "paid" => invoice[t] = "settled"]_vars

\* No late write of a checkout, no repeated webhook and no restart takes a
\* paid order back or changes what it was for.
PaidIsFinal ==
    [][\A t \in Tx : tx[t].status = "paid" =>
          /\ tx'[t].status = "paid"
          /\ tx'[t].owner = tx[t].owner /\ tx'[t].add = tx[t].add]_vars

\* Billing implements the order life cycle of PaymentOrders.
Orders == INSTANCE PaymentOrders
            WITH status <- [t \in Tx |-> tx[t].status],
                 issued <- [t \in Tx |-> Grants(t)]
ImplementsOrders == Orders!Spec

\* Money that reached Cryptomus is credited in the end, if the process ends up
\* with live payments, whatever becomes of the handlers that work on it.
SettledIsCredited ==
    <>[](mode = "live") => \A t \in Tx : invoice[t] = "settled" ~> tx[t].status = "paid"

\* Without scans an account with one paid order, and that one only, holds
\* exactly its trial credits and the package, however many webhooks, retries
\* and test fulfilments worked on it (fulfill_payment_transaction).
BalanceIsExact ==
    \A u \in User : Cardinality({t \in Tx : tx[t].status = "paid" /\ tx[t].owner = u}) <= 1 =>
        /\ credits[u] = Trial + PaidValue(u)
        /\ purchased[u] = PaidValue(u)

-----------------------------------------------------------------------------
(* What the documentation says and concurrent sessions do not keep.        *)

\* docs: total_credits_purchased is the sum of all purchased credits.
PurchasedIsTheSum == \A u \in User : purchased[u] = PaidValue(u)
=============================================================================
