---------------------------- MODULE ServiceProofs ----------------------------
(***************************************************************************)
(* Theorems about the services behind the bots: referral rewards and promo *)
(* codes, the deletion of a user, the file of the Xray node and the        *)
(* watchdog of the nodes, for every set of users, payments, codes, nodes   *)
(* and handlers and every number of demotions and deaths.                  *)
(*                                                                         *)
(* A handler's transaction locks the rows it reads, so what it carries is  *)
(* still so when it writes (Holds); a request of a promo code locks the    *)
(* code alone, so what is certain of a user whose requests overlap is      *)
(* little (Alone).  While no two writers of the node's file have           *)
(* overlapped, what each brings is what it has read (OneSaver, Brings).    *)
(* Every file they write, one's or another's, and every list of leases has *)
(* as few places as the limit (PlaceInv).  The date of an alarm is on its  *)
(* open event (Spacing).                                                   *)
(***************************************************************************)
EXTENDS ReferralRewards, PromoCodes, UserDeletion, XrayNode, NodeWatch, FiniteSetTheorems,
        SequenceTheorems, WellFoundedInduction, TLAPS

(* A set of naturals has a least element. *)
LEMMA LeastExists ==
    ASSUME NEW S, S \subseteq Nat, S # {}
    PROVE  \E x \in S : \A y \in S : x <= y
<1>1. \E x \in S : \A y \in S : ~(<<y, x>> \in OpToRel(<, Nat))
  BY NatLessThanWellFounded, WFMin
<1>2. PICK x \in S : \A y \in S : ~(y < x)
  BY <1>1 DEF OpToRel
<1>3. \A y \in S : x <= y
  BY <1>2
<1> QED BY <1>3

LEMMA MinIsLeast ==
    ASSUME NEW S, S \subseteq Nat, S # {}
    PROVE  Min(S) \in S /\ \A y \in S : Min(S) <= y
  BY LeastExists DEF Min

LEMMA MaxIsGreatest ==
    ASSUME NEW n \in Nat, NEW S, S \subseteq 1..n, S # {}
    PROVE  Max(S) \in S
<1> DEFINE T == {n - x : x \in S}
<1>1. T \subseteq Nat /\ T # {}
  <2>1. \A x \in S : n - x \in Nat OBVIOUS
  <2> QED BY <2>1
<1> HIDE DEF T
<1>2. PICK z \in T : \A y \in T : z <= y BY <1>1, LeastExists
<1>3. PICK x \in S : z = n - x BY <1>2 DEF T
<1>4. \A y \in S : n - x <= n - y BY <1>2, <1>3 DEF T
<1>5. \A y \in S : x >= y BY <1>4
<1> QED BY <1>5 DEF Max

-----------------------------------------------------------------------------
(* The reward.  What a handler holds at each of its steps.                  *)
RewardSteps == {"none", "bill", "report", "reported", "invited", "referrer", "page"}
Carries == [step : RewardSteps, bill : Bills \union People \union {Nobody}, held : SUBSET Rows,
            seen : Nat, due : Nat]

RewardTypeOK ==
    /\ invitedBy \in [People -> People \union {Nobody}]
    /\ reward \in [Bills -> People \union {Nobody}]
    /\ balance \in [People -> Nat] /\ credits \in [People -> Nat]
    /\ fin \in [Finalizers \union Readers -> Carries]
    /\ demotions \in Nat

Holds(h) ==
    LET f == fin[h] IN
    /\ f.step # "page"
    /\ f.step = "none" => f = None
    /\ f.step # "none" => f.bill \in Bills
    /\ f.step = "bill" => f.held = {}
    /\ f.step \in {"report", "reported", "invited", "referrer"} => f.bill \in f.held
    /\ f.step \in {"report", "reported"} => reward[f.bill] # Nobody
    /\ f.step = "referrer" =>
          LET u == Payer[f.bill] IN
          u \in f.held /\ invitedBy[u] # Nobody /\ ~Rewarded(u) /\ f.seen = balance[u]
Locked ==
    /\ \A h \in Finalizers : Holds(h)
    /\ \A h, g \in Finalizers : h # g => fin[h].held \intersect fin[g].held = {}
    /\ \A v \in Readers : fin[v].step # "none" => fin[v].step = "page" /\ fin[v].bill \in People

(* A payment that leads: the first of its payer's.                          *)
Leads(b) ==
    \E i \in DOMAIN confirmed :
        confirmed[i] = b /\ \A j \in DOMAIN confirmed : Payer[confirmed[j]] = Payer[b] => i <= j
Awaited(b) == \E h \in Finalizers : fin[h].bill = b /\ fin[h].step # "none"
Owing ==
    demotions = 0 =>
        /\ confirmed \in Seq(Bills) /\ delivered \subseteq ToSet(confirmed)
        /\ \A b \in Bills : reward[b] # Nobody => Leads(b)
        /\ \A h \in Finalizers : fin[h].step = "referrer" => Leads(fin[h].bill)
        /\ \A b \in delivered \ missed :
              Payer[b] \notin late /\ invitedBy[Payer[b]] # Nobody /\ Leads(b)
                  => reward[b] # Nobody \/ Awaited(b)

RewardInv ==
    /\ RewardTypeOK /\ Locked
    /\ \A u \in People : invitedBy[u] # u
    /\ OneRewardEach /\ BalanceIsLedger /\ Owing

LEMMA NoneCarries == None \in Carries /\ None.step = "none" /\ None.held = {}
  BY DEF None, Carries, RewardSteps

LEMMA FinSet ==
    ASSUME RewardTypeOK, NEW h \in Finalizers \union Readers, NEW r \in Carries, Fin(h, r)
    PROVE  /\ fin' \in [Finalizers \union Readers -> Carries] /\ fin'[h] = r
           /\ \A g \in Finalizers \union Readers : g # h => fin'[g] = fin[g]
  BY DEF RewardTypeOK, Fin

(* Who is not at work himself keeps what he holds.                          *)
LEMMA OthersHold ==
    ASSUME NEW g \in Finalizers, Holds(g), fin'[g] = fin[g],
           \A b \in Bills : reward[b] # Nobody => reward'[b] # Nobody,
           \A u \in People : invitedBy[u] # Nobody => invitedBy'[u] # Nobody,
           \A u \in fin[g].held \intersect People :
               (Rewarded(u)' => Rewarded(u)) /\ balance'[u] = balance[u]
    PROVE  Holds(g)'
<1>1. fin[g].step # "none" => fin[g].bill \in Bills /\ Payer[fin[g].bill] \in People
  BY RewardAssumption DEF Holds
<1>2. \A u \in fin[g].held \intersect People : ~Rewarded(u) => ~Rewarded(u)' OBVIOUS
<1>3. CASE fin[g].step = "referrer"
  <2> DEFINE u == Payer[fin[g].bill]
  <2>1. PICK p \in People : p = u BY <1>1, <1>3
  <2>2. p \in fin[g].held /\ invitedBy[p] # Nobody /\ ~Rewarded(p) /\ fin[g].seen = balance[p]
    BY <1>3, <2>1 DEF Holds
  <2>3. invitedBy'[p] # Nobody /\ ~Rewarded(p)' /\ fin[g].seen = balance'[p] BY <1>2, <2>2
  <2> QED BY <1>3, <2>1, <2>2, <2>3 DEF Holds, None, Rewarded
<1>4. CASE fin[g].step # "referrer" BY <1>1, <1>4 DEF Holds, None
<1> QED BY <1>3, <1>4

(* A step of the database's that takes no lock.                             *)
LEMMA StillHeld ==
    ASSUME RewardTypeOK, Locked, UNCHANGED <<reward, money, fin>>,
           \A u \in People : invitedBy[u] # Nobody => invitedBy'[u] # Nobody
    PROVE  Locked'
<1>1. \A u : Rewarded(u)' <=> Rewarded(u) BY DEF Rewarded
<1>2. \A h \in Finalizers : Holds(h)' BY <1>1, OthersHold DEF Locked, money
<1> QED BY <1>2 DEF Locked

(* A step of one handler, which neither rewards nor binds.                  *)
LEMMA HandlerHeld ==
    ASSUME RewardTypeOK, Locked, NEW h \in Finalizers, NEW r \in Carries, Fin(h, r),
           UNCHANGED <<invitedBy, reward, money>>, Holds(h)',
           \A x \in r.held : x \in fin[h].held \/ ~Held(x)
    PROVE  Locked'
<1>1. \A g \in Finalizers \union Readers : g # h => fin'[g] = fin[g] BY FinSet
<1>2. fin'[h] = r BY FinSet
<1>3. \A u : Rewarded(u)' <=> Rewarded(u) BY DEF Rewarded
<1>4. \A g \in Finalizers : Holds(g)' BY <1>1, <1>3, OthersHold DEF Locked, money
<1>5. \A g \in Finalizers : g # h => r.held \intersect fin[g].held = {} BY DEF Held, Locked
<1>6. \A g, k \in Finalizers : g # k => fin'[g].held \intersect fin'[k].held = {}
  BY <1>1, <1>2, <1>5 DEF Locked
<1>7. \A v \in Readers : v # h BY RewardAssumption
<1>8. \A v \in Readers : fin'[v] = fin[v] BY <1>1, <1>7
<1> QED BY <1>4, <1>6, <1>8 DEF Locked

(* What a handler has done with its payment when it lets go of it.          *)
Settled(b) ==
    Payer[b] \notin late /\ invitedBy[Payer[b]] # Nobody /\ Leads(b) => reward[b] # Nobody

LEMMA HandlerOwes ==
    ASSUME RewardTypeOK, Owing, NEW h \in Finalizers, NEW r \in Carries, Fin(h, r),
           UNCHANGED <<invitedBy, confirmed, reward, late, demotions>>,
           delivered' \subseteq delivered \union ToSet(confirmed),
           delivered' \ missed' \subseteq
               (delivered \ missed) \union (IF r.step = "none" THEN {} ELSE {r.bill}),
           demotions = 0 /\ r.step = "referrer" => Leads(r.bill),
           demotions = 0 /\ fin[h].step # "none" =>
               \/ r.step # "none" /\ r.bill = fin[h].bill
               \/ fin[h].bill \in missed' \/ Settled(fin[h].bill)
    PROVE  Owing'
<1> SUFFICES ASSUME demotions = 0 PROVE Owing' BY DEF Owing
<1>1. /\ fin'[h] = r /\ \A g \in Finalizers : g # h => fin'[g] = fin[g] BY FinSet
<1>2. \A b : Leads(b)' <=> Leads(b) BY DEF Leads
<1>3. confirmed' \in Seq(Bills) /\ delivered' \subseteq ToSet(confirmed)' BY DEF Owing
<1>4. \A b \in Bills : reward'[b] # Nobody => Leads(b)' BY <1>2 DEF Owing
<1>5. ASSUME NEW g \in Finalizers, fin'[g].step = "referrer" PROVE Leads(fin[g].bill)'
  <2>1. PICK b : b = fin'[g].bill OBVIOUS
  <2>2. Leads(b) BY <1>1, <1>5, <2>1 DEF Owing
  <2> QED BY <1>2, <2>1, <2>2 DEF Leads
<1>6. ASSUME NEW b \in delivered' \ missed', Payer[b] \notin late, invitedBy[Payer[b]] # Nobody,
             Leads(b), reward[b] = Nobody
      PROVE  Awaited(b)'
  <2>1. CASE r.step # "none" /\ b = r.bill BY <1>1, <2>1 DEF Awaited
  <2>2. CASE ~(r.step # "none" /\ b = r.bill)
    <3>1. b \in delivered \ missed BY <1>6, <2>2
    <3>2. PICK g \in Finalizers : fin[g].bill = b /\ fin[g].step # "none"
      BY <1>6, <3>1 DEF Owing, Awaited
    <3>3. CASE g = h BY <1>6, <2>2, <3>2, <3>3 DEF Settled
    <3>4. CASE g # h BY <1>1, <3>2, <3>4 DEF Awaited
    <3> QED BY <3>3, <3>4
  <2> QED BY <2>1, <2>2
<1> QED BY <1>2, <1>3, <1>4, <1>5, <1>6 DEF Owing

LEMMA HandlerStep ==
    ASSUME RewardInv, NEW h \in Finalizers, NEW r \in Carries, Fin(h, r),
           UNCHANGED <<invitedBy, confirmed, reward, money, late, overwritten, demotions>>,
           Holds(h)', \A x \in r.held : x \in fin[h].held \/ ~Held(x),
           delivered' \subseteq delivered \union ToSet(confirmed),
           delivered' \ missed' \subseteq
               (delivered \ missed) \union (IF r.step = "none" THEN {} ELSE {r.bill}),
           demotions = 0 /\ r.step = "referrer" => Leads(r.bill),
           demotions = 0 /\ fin[h].step # "none" =>
               \/ r.step # "none" /\ r.bill = fin[h].bill
               \/ fin[h].bill \in missed' \/ Settled(fin[h].bill)
    PROVE  RewardInv'
<1>1. RewardTypeOK' BY FinSet DEF RewardInv, RewardTypeOK, money
<1>2. Locked' BY HandlerHeld DEF RewardInv
<1>3. Owing' BY HandlerOwes DEF RewardInv
<1>4. OneRewardEach' /\ BalanceIsLedger' /\ \A u \in People : invitedBy'[u] # u
  BY DEF RewardInv, OneRewardEach, BalanceIsLedger, money
<1> QED BY <1>1, <1>2, <1>3, <1>4 DEF RewardInv

LEMMA DropStep ==
    ASSUME RewardInv, NEW h \in Finalizers, Fin(h, None),
           UNCHANGED <<invitedBy, confirmed, delivered, reward, money, late, overwritten, demotions>>,
           missed \subseteq missed',
           demotions = 0 => fin[h].bill \in missed' \/ Settled(fin[h].bill)
    PROVE  RewardInv'
<1>1. None \in Carries /\ None.step = "none" /\ None.held = {} BY NoneCarries
<1>2. fin'[h] = None BY <1>1, FinSet DEF RewardInv
<1>3. Holds(h)' BY <1>1, <1>2 DEF Holds
<1>4. \A x \in None.held : x \in fin[h].held \/ ~Held(x) BY <1>1
<1>5. delivered' \ missed' \subseteq
               (delivered \ missed) \union (IF None.step = "none" THEN {} ELSE {None.bill}) OBVIOUS
<1> HIDE DEF None
<1> QED BY <1>1, <1>3, <1>4, <1>5, HandlerStep

LEMMA DeliverStep ==
    ASSUME RewardInv, NEW h \in Finalizers, NEW b \in Bills, DeliverBill(h, b)
    PROVE  RewardInv'
<1> DEFINE now == b \notin delivered
           goes == Route[b] = "bot" \/ (Route[b] = "platega" /\ now)
           r == [None EXCEPT !.step = "bill", !.bill = b]
<1>1. /\ fin[h] = None /\ b \in ToSet(confirmed)
      /\ delivered' = delivered \union {b}
      /\ IF goes THEN Fin(h, r) ELSE UNCHANGED fin
      /\ missed' = IF now /\ ~goes THEN missed \union {b} ELSE missed
      /\ UNCHANGED <<invitedBy, confirmed, reward, money, late, overwritten, demotions>>
  BY DEF DeliverBill, Quiet
<1>2. r \in Carries /\ r.step = "bill" /\ r.bill = b /\ r.held = {}
  BY DEF None, Carries, RewardSteps
<1>3. None.step = "none" BY NoneCarries
<1>4. CASE goes
  <2> HIDE DEF r
  <2>1. Fin(h, r) BY <1>1, <1>4
  <2>2. fin'[h] = r BY <1>2, <2>1, FinSet DEF RewardInv
  <2>3. Holds(h)' BY <1>2, <2>2 DEF Holds
  <2>4. delivered' \ missed' \subseteq
            (delivered \ missed) \union (IF r.step = "none" THEN {} ELSE {r.bill})
    BY <1>1, <1>2, <1>4
  <2> HIDE DEF now, goes
  <2> QED BY <1>1, <1>2, <1>3, <2>1, <2>3, <2>4, HandlerStep
<1>5. CASE ~goes
  <2>1. UNCHANGED fin /\ fin' = [fin EXCEPT ![h] = None] BY <1>1, <1>5 DEF RewardInv, RewardTypeOK
  <2>2. Fin(h, None) BY <2>1 DEF Fin
  <2>3. None \in Carries /\ None.held = {} BY NoneCarries
  <2>4. fin'[h] = None BY <1>1, <2>1
  <2>5. Holds(h)' BY <1>3, <2>3, <2>4 DEF Holds
  <2>6. delivered' \ missed' \subseteq delivered \ missed BY <1>1, <1>5
  <2> HIDE DEF now, goes
  <2> QED BY <1>1, <1>3, <2>2, <2>3, <2>5, <2>6, HandlerStep
<1> QED BY <1>4, <1>5

LEMMA LockBillStep == ASSUME RewardInv, NEW h \in Finalizers, LockBill(h) PROVE RewardInv'
<1> DEFINE f == fin[h]  b == f.bill
           s == IF reward[b] # Nobody THEN "report" ELSE "invited"
           r == [f EXCEPT !.held = {b}, !.step = s]
<1>1. /\ f.step = "bill" /\ ~Held(b)
      /\ Fin(h, IF b \notin ToSet(confirmed) THEN None ELSE r)
      /\ missed' = IF b \notin ToSet(confirmed) THEN missed \union {b} ELSE missed
      /\ UNCHANGED <<invitedBy, confirmed, delivered, reward, money, late, overwritten, demotions>>
  BY DEF LockBill, Quiet
<1>2. b \in Bills /\ f \in Carries
  BY <1>1 DEF RewardInv, Locked, Holds, RewardTypeOK
<1>3. r \in Carries /\ r.step = s /\ r.bill = b /\ r.held = {b}
  BY <1>2 DEF Carries, RewardSteps, Rows
<1>4. CASE b \notin ToSet(confirmed) BY <1>1, <1>4, DropStep
<1>5. CASE b \in ToSet(confirmed)
  <2> HIDE DEF r
  <2>1. Fin(h, r) BY <1>1, <1>5
  <2>2. fin'[h] = r BY <1>3, <2>1, FinSet DEF RewardInv
  <2>3. Holds(h)' BY <1>1, <1>2, <1>3, <2>2 DEF Holds
  <2>4. \A x \in r.held : ~Held(x) BY <1>1, <1>3
  <2>5. r.step # "none" /\ r.step # "referrer" BY <1>3
  <2>6. r.bill = fin[h].bill BY <1>3
  <2>7. missed' = missed BY <1>1, <1>5
  <2> HIDE DEF f, b, s
  <2> QED BY <1>1, <2>1, <2>3, <2>4, <2>5, <2>6, <2>7, <1>3, HandlerStep
<1> QED BY <1>4, <1>5

LEMMA ReportStep == ASSUME RewardInv, NEW h \in Finalizers, ReportReferrer(h) PROVE RewardInv'
<1> DEFINE f == fin[h]  w == reward[f.bill]
           r == [f EXCEPT !.step = "reported", !.held = @ \union {w}]
<1>1. /\ f.step = "report" /\ ~Held(w) /\ Fin(h, r)
      /\ UNCHANGED <<invitedBy, confirmed, delivered, reward, money, missed, late, overwritten, demotions>>
  BY DEF ReportReferrer, Quiet
<1>2. f.bill \in Bills /\ f \in Carries /\ w \in People /\ f.bill \in f.held
  BY <1>1 DEF RewardInv, Locked, Holds, RewardTypeOK
<1>3. r \in Carries /\ r.step = "reported" /\ r.bill = f.bill /\ r.held = f.held \union {w}
  BY <1>2 DEF Carries, RewardSteps, Rows
<1>4. w # Nobody BY <1>1 DEF RewardInv, Locked, Holds
<1> HIDE DEF r
<1>5. fin'[h] = r BY <1>1, <1>3, FinSet DEF RewardInv
<1>6. Holds(h)' BY <1>1, <1>2, <1>3, <1>4, <1>5 DEF Holds
<1>7. \A x \in r.held : x \in fin[h].held \/ ~Held(x) BY <1>1, <1>3
<1>8. r.bill = fin[h].bill BY <1>3
<1> HIDE DEF f, w
<1> QED BY <1>1, <1>3, <1>6, <1>7, <1>8, HandlerStep

LEMMA ReportedStep == ASSUME RewardInv, NEW h \in Finalizers, ReportInvited(h) PROVE RewardInv'
<1>1. reward[fin[h].bill] # Nobody BY DEF ReportInvited, RewardInv, Locked, Holds
<1> QED BY <1>1, DropStep DEF ReportInvited, Settled, Quiet

(* The payment that leads is the one the query for the first finds.         *)
LEMMA FirstLeads ==
    ASSUME confirmed \in Seq(Bills), NEW b \in Bills
    PROVE  Leads(b) <=> Paid(Payer[b]) # {} /\ FirstPaid(Payer[b]) = b
<1> DEFINE S == Paid(Payer[b])
<1>1. S \subseteq Nat BY DEF Paid
<1>2. ASSUME Leads(b) PROVE S # {} /\ FirstPaid(Payer[b]) = b
  <2>1. PICK i \in DOMAIN confirmed :
            confirmed[i] = b /\ \A j \in DOMAIN confirmed : Payer[confirmed[j]] = Payer[b] => i <= j
    BY <1>2 DEF Leads
  <2>2. i \in S /\ \A j \in S : i <= j BY <2>1 DEF Paid
  <2>3. Min(S) \in S /\ Min(S) <= i BY <1>1, <2>2, MinIsLeast
  <2>4. Min(S) = i BY <1>1, <2>2, <2>3
  <2> QED BY <2>1, <2>2, <2>4 DEF FirstPaid
<1>3. ASSUME S # {}, FirstPaid(Payer[b]) = b PROVE Leads(b)
  <2>1. Min(S) \in S /\ \A y \in S : Min(S) <= y BY <1>1, <1>3, MinIsLeast
  <2>2. Min(S) \in DOMAIN confirmed /\ confirmed[Min(S)] = b BY <1>3, <2>1 DEF FirstPaid, Paid
  <2>3. \A j \in DOMAIN confirmed : Payer[confirmed[j]] = Payer[b] => Min(S) <= j
    BY <2>1 DEF Paid
  <2> QED BY <2>2, <2>3 DEF Leads
<1> QED BY <1>2, <1>3

LEMMA LeadIsOne ==
    ASSUME confirmed \in Seq(Bills), NEW b, Leads(b), NEW c, Leads(c), Payer[b] = Payer[c]
    PROVE  b = c
<1>1. PICK i \in DOMAIN confirmed :
          confirmed[i] = b /\ \A j \in DOMAIN confirmed : Payer[confirmed[j]] = Payer[b] => i <= j
  BY DEF Leads
<1>2. PICK k \in DOMAIN confirmed :
          confirmed[k] = c /\ \A j \in DOMAIN confirmed : Payer[confirmed[j]] = Payer[c] => k <= j
  BY DEF Leads
<1>3. i <= k /\ k <= i /\ i \in Nat /\ k \in Nat BY <1>1, <1>2
<1> QED BY <1>1, <1>2, <1>3

LEMMA InvitedStep == ASSUME RewardInv, NEW h \in Finalizers, LockInvited(h) PROVE RewardInv'
<1> DEFINE f == fin[h]  b == f.bill  u == Payer[b]
           r == [f EXCEPT !.step = "referrer", !.held = @ \union {u}, !.seen = balance[u]]
<1>1. /\ f.step = "invited" /\ ~Held(u) /\ Fin(h, IF ~Entitled(u, b) THEN None ELSE r)
      /\ UNCHANGED <<invitedBy, confirmed, delivered, reward, money, missed, late, overwritten, demotions>>
  BY DEF LockInvited, Quiet
<1>2. b \in Bills /\ f \in Carries /\ u \in People /\ b \in f.held /\ balance[u] \in Nat
  BY <1>1, RewardAssumption DEF RewardInv, Locked, Holds, RewardTypeOK
<1>3. CASE ~Entitled(u, b)
  <2>1. Fin(h, None) BY <1>1, <1>3
  <2>2. ASSUME demotions = 0 PROVE Settled(b)
    <3>1. confirmed \in Seq(Bills) /\ \A c \in Bills : reward[c] # Nobody => Leads(c)
      BY <2>2 DEF RewardInv, Owing
    <3>2. CASE invitedBy[u] = Nobody BY <3>2 DEF Settled
    <3>3. CASE Rewarded(u) BY <1>2, <3>1, <3>3, LeadIsOne DEF Rewarded, Settled
    <3>4. CASE ~(Paid(u) # {} /\ FirstPaid(u) = b) BY <1>2, <3>1, <3>4, FirstLeads DEF Settled
    <3> QED BY <1>3, <3>2, <3>3, <3>4 DEF Entitled
  <2> QED BY <1>1, <2>1, <2>2, DropStep
<1>4. CASE Entitled(u, b)
  <2>1. Fin(h, r) BY <1>1, <1>4
  <2>2. /\ r \in Carries /\ r.step = "referrer" /\ r.bill = b /\ r.held = f.held \union {u}
        /\ r.seen = balance[u]
    BY <1>2 DEF Carries, RewardSteps, Rows
  <2> HIDE DEF r
  <2>3. fin'[h] = r BY <2>1, <2>2, FinSet DEF RewardInv
  <2>4. invitedBy[u] # Nobody /\ ~Rewarded(u) /\ Paid(u) # {} /\ FirstPaid(u) = b
    BY <1>4 DEF Entitled
  <2>5. \A p : ~Rewarded(p) => ~Rewarded(p)' BY <1>1 DEF Rewarded
  <2>6. Holds(h)'
    <3>1. invitedBy'[u] # Nobody /\ balance'[u] = balance[u] BY <1>1, <2>4 DEF money
    <3>2. PICK p : p = u OBVIOUS
    <3>3. p \in r.held /\ invitedBy'[p] # Nobody /\ ~Rewarded(p)' /\ r.seen = balance'[p]
      <4>1. ~Rewarded(p) BY <2>4, <3>2
      <4>2. ~Rewarded(p)' BY <2>5, <4>1
      <4> QED BY <2>2, <3>1, <3>2, <4>2
    <3>4. p = Payer[fin'[h].bill] BY <2>2, <2>3, <3>2
    <3> QED BY <1>2, <2>2, <2>3, <3>3, <3>4 DEF Holds, Rewarded
  <2>7. demotions = 0 => Leads(r.bill) BY <1>2, <2>2, <2>4, FirstLeads DEF RewardInv, Owing
  <2>8. \A x \in r.held : x \in fin[h].held \/ ~Held(x) BY <1>1, <2>2
  <2>9. r.bill = fin[h].bill BY <2>2
  <2> HIDE DEF f, b, u
  <2> QED BY <1>1, <2>1, <2>2, <2>6, <2>7, <2>8, <2>9, HandlerStep
<1> QED BY <1>3, <1>4

LEMMA EndSteps ==
    ASSUME RewardInv, NEW h \in Finalizers,
           FinalizerDies(h) \/ \E g \in Finalizers : Deadlock(h, g)
    PROVE  RewardInv'
<1>1. /\ Fin(h, None) /\ missed' = missed \union {fin[h].bill}
      /\ UNCHANGED <<invitedBy, confirmed, delivered, reward, money, late, overwritten, demotions>>
  BY DEF FinalizerDies, Deadlock, Quiet
<1> QED BY <1>1, DropStep

-----------------------------------------------------------------------------
(* What an invited user and a referrer are given.                           *)
LEMMA RewardStep == ASSUME RewardInv, NEW h \in Finalizers, LockReferrer(h) PROVE RewardInv'
<1>1. PICK b : b = fin[h].bill OBVIOUS
<1>2. PICK u : u = Payer[b] OBVIOUS
<1>3. PICK r : r = invitedBy[u] OBVIOUS
<1>4. PICK gain : gain = Missing(r) + Bonus OBVIOUS
<1>5. /\ fin[h].step = "referrer" /\ ~Held(r) /\ Fin(h, None)
      /\ reward' = [reward EXCEPT ![b] = r]
      /\ balance' = [balance EXCEPT ![r] = @ + gain, ![u] = fin[h].seen + Bonus]
      /\ credits' = [credits EXCEPT ![r] = @ + gain, ![u] = @ + Bonus]
      /\ UNCHANGED <<invitedBy, confirmed, delivered, missed, late, overwritten, demotions>>
  BY <1>1, <1>2, <1>3, <1>4 DEF LockReferrer, Quiet
<1>6. /\ b \in Bills /\ b \in fin[h].held /\ u \in fin[h].held /\ u \in People
      /\ r # Nobody /\ ~Rewarded(u) /\ fin[h].seen = balance[u] /\ r \in People /\ r # u
  BY <1>1, <1>2, <1>3, <1>5, RewardAssumption DEF RewardInv, RewardTypeOK, Locked, Holds
<1>7. gain \in Nat
  BY <1>4, <1>6, RewardAssumption DEF Missing, RewardInv, RewardTypeOK
<1>8. /\ balance' \in [People -> Nat] /\ credits' \in [People -> Nat]
      /\ balance'[r] = balance[r] + gain /\ balance'[u] = balance[u] + Bonus
      /\ credits'[r] = credits[r] + gain /\ credits'[u] = credits[u] + Bonus
      /\ \A p \in People : p # r /\ p # u => balance'[p] = balance[p] /\ credits'[p] = credits[p]
  <2>1. balance[u] \in Nat /\ balance[r] \in Nat /\ credits[u] \in Nat /\ credits[r] \in Nat /\ Bonus \in Nat
    BY <1>6, RewardAssumption DEF RewardInv, RewardTypeOK
  <2>2. balance \in [People -> Nat] /\ credits \in [People -> Nat] BY DEF RewardInv, RewardTypeOK
  <2> QED BY <1>5, <1>6, <1>7, <2>1, <2>2
<1>9. reward' \in [Bills -> People \union {Nobody}] /\ reward'[b] = r
      /\ \A c \in Bills : c # b => reward'[c] = reward[c]
  BY <1>5, <1>6 DEF RewardInv, RewardTypeOK
<1>10. None \in Carries /\ None.step = "none" /\ None.held = {} BY NoneCarries
<1>11. /\ fin' \in [Finalizers \union Readers -> Carries] /\ fin'[h] = None
       /\ \A g \in Finalizers \union Readers : g # h => fin'[g] = fin[g]
  BY <1>5, <1>10, FinSet DEF RewardInv
<1>12. RewardTypeOK' BY <1>5, <1>8, <1>9, <1>11 DEF RewardInv, RewardTypeOK
<1>13. \A p \in People : p # u /\ Rewarded(p)' => Rewarded(p)
  BY <1>2, <1>9 DEF Rewarded
<1>14. Locked'
  <2>1. Holds(h)' BY <1>10, <1>11 DEF Holds
  <2>2. ASSUME NEW g \in Finalizers, g # h PROVE Holds(g)'
    <3>1. r \notin fin[g].held BY <1>5, <2>2 DEF Held
    <3>2. u \notin fin[g].held BY <1>6, <2>2 DEF RewardInv, Locked
    <3>3. \A p \in fin[g].held \intersect People :
             (Rewarded(p)' => Rewarded(p)) /\ balance'[p] = balance[p]
      BY <1>8, <1>13, <3>1, <3>2
    <3>4. \A c \in Bills : reward[c] # Nobody => reward'[c] # Nobody BY <1>6, <1>9
    <3>5. Holds(g) /\ fin'[g] = fin[g] BY <1>11, <2>2 DEF RewardInv, Locked
    <3> QED BY <1>5, <3>3, <3>4, <3>5, OthersHold
  <2>3. \A v \in Readers : v # h BY RewardAssumption
  <2> QED BY <1>10, <1>11, <2>1, <2>2, <2>3 DEF RewardInv, Locked
<1>15. OneRewardEach' BY <1>2, <1>6, <1>9 DEF RewardInv, OneRewardEach, Rewarded
<1>16. BalanceIsLedger'
  BY <1>5, <1>6, <1>8 DEF RewardInv, BalanceIsLedger
<1>17. Owing'
  <2> SUFFICES ASSUME demotions = 0 PROVE Owing' BY <1>5 DEF Owing
  <2>1. \A c : Leads(c)' <=> Leads(c) BY <1>5 DEF Leads
  <2>2. Leads(b) /\ confirmed' \in Seq(Bills) /\ delivered' \subseteq ToSet(confirmed)'
    BY <1>1, <1>5 DEF RewardInv, Owing
  <2>3. \A c \in Bills : reward'[c] # Nobody => Leads(c)'
    BY <1>9, <2>1, <2>2 DEF RewardInv, Owing
  <2>4. ASSUME NEW g \in Finalizers, fin'[g].step = "referrer" PROVE Leads(fin[g].bill)'
    <3>1. PICK c : c = fin'[g].bill OBVIOUS
    <3>2. fin'[g] = fin[g] BY <1>10, <1>11, <2>4
    <3>3. Leads(c) BY <2>4, <3>1, <3>2 DEF RewardInv, Owing
    <3> QED BY <2>1, <3>1, <3>3 DEF Leads
  <2>5. ASSUME NEW c \in delivered \ missed, Payer[c] \notin late, invitedBy[Payer[c]] # Nobody,
               Leads(c), reward'[c] = Nobody
        PROVE  Awaited(c)'
    <3>1. c \in Bills /\ c # b
      <4>1. c \in ToSet(confirmed) BY <2>5 DEF RewardInv, Owing
      <4>2. c \in Bills BY <2>2, <1>5, <4>1 DEF ToSet
      <4> QED BY <1>6, <1>9, <2>5, <4>2
    <3>2. reward[c] = Nobody BY <1>9, <2>5, <3>1
    <3>3. PICK g \in Finalizers : fin[g].bill = c /\ fin[g].step # "none"
      BY <2>5, <3>2 DEF RewardInv, Owing, Awaited
    <3>4. g # h BY <1>1, <3>1, <3>3
    <3> QED BY <1>11, <3>3, <3>4 DEF Awaited
  <2> QED BY <1>5, <2>1, <2>2, <2>3, <2>4, <2>5 DEF Owing
<1> QED BY <1>5, <1>12, <1>14, <1>15, <1>16, <1>17 DEF RewardInv

(* The referral page.                                                       *)
LEMMA ReaderOwes ==
    ASSUME RewardTypeOK, Owing, \A h \in Finalizers : fin'[h] = fin[h],
           UNCHANGED <<invitedBy, confirmed, delivered, reward, missed, late, demotions>>
    PROVE  Owing'
<1>1. \A b : (Leads(b)' <=> Leads(b)) /\ (Awaited(b) => Awaited(b)') BY DEF Leads, Awaited
<1>2. ASSUME demotions = 0, NEW g \in Finalizers, fin'[g].step = "referrer" PROVE Leads(fin[g].bill)'
  <2>1. PICK c : c = fin'[g].bill OBVIOUS
  <2>2. Leads(c) BY <1>2, <2>1 DEF Owing
  <2> QED BY <1>1, <2>1, <2>2 DEF Leads
<1> QED BY <1>1, <1>2 DEF Owing

LEMMA ReadStep ==
    ASSUME RewardInv, NEW v \in Readers, NEW u \in People, ReadPage(v, u)
    PROVE  RewardInv'
<1> DEFINE r == [None EXCEPT !.step = "page", !.bill = u, !.seen = balance[u], !.due = Missing(u)]
<1>1. /\ Fin(v, r)
      /\ UNCHANGED <<invitedBy, confirmed, delivered, reward, money, missed, late, overwritten, demotions>>
  BY DEF ReadPage, Quiet
<1>2. balance[u] \in Nat /\ Missing(u) \in Nat
  BY RewardAssumption DEF RewardInv, RewardTypeOK, Missing
<1>3. r \in Carries /\ r.step = "page" /\ r.bill = u
  BY <1>2 DEF None, Carries, RewardSteps
<1> HIDE DEF r
<1>4. /\ fin' \in [Finalizers \union Readers -> Carries] /\ fin'[v] = r
      /\ \A g \in Finalizers \union Readers : g # v => fin'[g] = fin[g]
  BY <1>1, <1>3, FinSet DEF RewardInv
<1>5. \A g \in Finalizers : fin'[g] = fin[g] BY <1>4, RewardAssumption
<1>6. RewardTypeOK' BY <1>1, <1>4 DEF RewardInv, RewardTypeOK, money
<1>7. \A g \in Finalizers : Holds(g)'
  <2>1. \A p : Rewarded(p)' <=> Rewarded(p) BY <1>1 DEF Rewarded
  <2> QED BY <1>1, <1>5, <2>1, OthersHold DEF RewardInv, Locked, money
<1>8. Locked' BY <1>3, <1>4, <1>5, <1>7 DEF RewardInv, Locked
<1>9. Owing' BY <1>1, <1>5, ReaderOwes DEF RewardInv
<1> QED BY <1>1, <1>6, <1>8, <1>9 DEF RewardInv, OneRewardEach, BalanceIsLedger, money

LEMMA WriteStep == ASSUME RewardInv, NEW v \in Readers, WritePage(v) PROVE RewardInv'
<1>1. PICK u : u = fin[v].bill OBVIOUS
<1>2. PICK seen, due : seen = fin[v].seen /\ due = fin[v].due OBVIOUS
<1>3. /\ fin[v].step = "page" /\ ~Held(u) /\ Fin(v, None)
      /\ balance' = [balance EXCEPT ![u] = seen + due]
      /\ credits' = [credits EXCEPT ![u] = @ + due]
      /\ overwritten' = IF seen # balance[u] THEN overwritten \union {u} ELSE overwritten
      /\ UNCHANGED <<invitedBy, confirmed, delivered, reward, missed, late, demotions>>
  BY <1>1, <1>2 DEF WritePage, Quiet
<1>4. u \in People /\ seen \in Nat /\ due \in Nat
  BY <1>1, <1>2, <1>3 DEF RewardInv, RewardTypeOK, Locked, Carries
<1>5. None \in Carries /\ None.step = "none" /\ None.held = {} BY NoneCarries
<1>6. /\ fin' \in [Finalizers \union Readers -> Carries] /\ fin'[v] = None
      /\ \A g \in Finalizers \union Readers : g # v => fin'[g] = fin[g]
  BY <1>3, <1>5, FinSet DEF RewardInv
<1>7. \A g \in Finalizers : fin'[g] = fin[g] BY <1>6, RewardAssumption
<1>8. /\ balance' \in [People -> Nat] /\ credits' \in [People -> Nat]
      /\ balance'[u] = seen + due /\ credits'[u] = credits[u] + due
      /\ \A p \in People : p # u => balance'[p] = balance[p] /\ credits'[p] = credits[p]
  BY <1>3, <1>4 DEF RewardInv, RewardTypeOK
<1>9. RewardTypeOK' BY <1>3, <1>6, <1>8 DEF RewardInv, RewardTypeOK
<1>10. \A g \in Finalizers : Holds(g)'
  <2>1. \A p : Rewarded(p)' <=> Rewarded(p) BY <1>3 DEF Rewarded
  <2>2. \A g \in Finalizers : u \notin fin[g].held BY <1>3 DEF Held
  <2>3. ASSUME NEW g \in Finalizers PROVE Holds(g)'
    <3>1. \A p \in fin[g].held \intersect People : balance'[p] = balance[p] BY <1>8, <2>2
    <3>2. Holds(g) /\ fin'[g] = fin[g] BY <1>7 DEF RewardInv, Locked
    <3> QED BY <1>3, <2>1, <3>1, <3>2, OthersHold
  <2> QED BY <2>3
<1>11. Locked' BY <1>5, <1>6, <1>7, <1>10 DEF RewardInv, Locked
<1>12. Owing' BY <1>3, <1>7, ReaderOwes DEF RewardInv
<1>13. BalanceIsLedger' BY <1>3, <1>4, <1>8 DEF RewardInv, BalanceIsLedger
<1> QED BY <1>3, <1>9, <1>11, <1>12, <1>13 DEF RewardInv, OneRewardEach

LEMMA BindStep ==
    ASSUME RewardInv, NEW u \in People, NEW r \in People, BindReferrer(u, r)
    PROVE  RewardInv'
<1>1. /\ invitedBy[u] = Nobody /\ r # u /\ invitedBy' = [invitedBy EXCEPT ![u] = r]
      /\ late' = IF Paid(u) # {} THEN late \union {u} ELSE late
      /\ UNCHANGED <<confirmed, delivered, reward, money, fin, missed, overwritten, demotions>>
  BY DEF BindReferrer
<1>2. \A p \in People : invitedBy'[p] = IF p = u THEN r ELSE invitedBy[p]
  BY <1>1 DEF RewardInv, RewardTypeOK
<1>3. RewardTypeOK' BY <1>1 DEF RewardInv, RewardTypeOK, money
<1>4. Locked' BY <1>1, <1>2, StillHeld DEF RewardInv
<1>5. \A b : (Leads(b)' <=> Leads(b)) /\ (Awaited(b)' <=> Awaited(b)) BY <1>1 DEF Leads, Awaited
<1>6. ASSUME demotions = 0, NEW b \in delivered, Payer[b] = u PROVE u \in late'
  <2>1. PICK i \in DOMAIN confirmed : confirmed[i] = b BY <1>6 DEF RewardInv, Owing, ToSet
  <2>2. i \in Paid(u) BY <1>6, <2>1 DEF Paid
  <2> QED BY <1>1, <2>2
<1>7. Owing'
  <2> SUFFICES ASSUME demotions = 0 PROVE Owing' BY <1>1 DEF Owing
  <2>1. \A b \in delivered : b \in Bills /\ Payer[b] \in People
    <3>1. ToSet(confirmed) \subseteq Bills BY DEF RewardInv, Owing, ToSet
    <3> QED BY <3>1, RewardAssumption DEF RewardInv, Owing
  <2>2. ASSUME NEW b \in delivered \ missed, Payer[b] \notin late', invitedBy'[Payer[b]] # Nobody,
               Leads(b)
        PROVE  reward[b] # Nobody \/ Awaited(b)
    <3>1. Payer[b] # u BY <1>6, <2>2
    <3>2. Payer[b] \notin late /\ invitedBy[Payer[b]] # Nobody BY <1>1, <1>2, <2>1, <2>2, <3>1
    <3> QED BY <2>2, <3>2 DEF RewardInv, Owing
  <2>3. ASSUME NEW g \in Finalizers, fin'[g].step = "referrer" PROVE Leads(fin[g].bill)'
    <3>1. PICK c : c = fin'[g].bill OBVIOUS
    <3>2. Leads(c) BY <1>1, <2>3, <3>1 DEF RewardInv, Owing
    <3> QED BY <1>5, <3>1, <3>2 DEF Leads
  <2> QED BY <1>1, <1>5, <2>2, <2>3 DEF RewardInv, Owing
<1> QED BY <1>1, <1>2, <1>3, <1>4, <1>7 DEF RewardInv, OneRewardEach, BalanceIsLedger, money

(* A payment's confirmation, and what takes it back or delivers it outside. *)
LEMMA BookSteps ==
    ASSUME RewardInv, NEW b \in Bills, ConfirmBill(b) \/ Demote(b) \/ Reconcile(b)
    PROVE  RewardInv'
<1>1. UNCHANGED <<invitedBy, reward, money, fin, late, overwritten>>
  BY DEF ConfirmBill, Demote, Reconcile
<1>2. demotions' \in Nat BY DEF ConfirmBill, Demote, Reconcile, Quiet, RewardInv, RewardTypeOK
<1>3. RewardTypeOK' /\ Locked'
  <2>1. RewardTypeOK' BY <1>1, <1>2 DEF RewardInv, RewardTypeOK, money
  <2> QED BY <1>1, <2>1, StillHeld DEF RewardInv
<1>4. Owing'
  <2>1. CASE Demote(b)
    <3>1. demotions' # 0 BY <2>1 DEF Demote, RewardInv, RewardTypeOK
    <3> QED BY <3>1 DEF Owing
  <2>2. CASE Reconcile(b)
    <3>1. /\ b \in ToSet(confirmed) /\ delivered' = delivered \union {b} /\ missed' = missed \union {b}
          /\ UNCHANGED <<confirmed, demotions>>
      BY <2>2 DEF Reconcile, Quiet
    <3>2. \A c : (Leads(c)' <=> Leads(c)) /\ (Awaited(c)' <=> Awaited(c))
      BY <1>1, <3>1 DEF Leads, Awaited
    <3>3. ASSUME demotions = 0, NEW g \in Finalizers, fin'[g].step = "referrer" PROVE Leads(fin[g].bill)'
      <4>1. PICK c : c = fin'[g].bill OBVIOUS
      <4>2. Leads(c) BY <1>1, <3>3, <4>1 DEF RewardInv, Owing
      <4> QED BY <3>2, <4>1, <4>2 DEF Leads
    <3> QED BY <1>1, <3>1, <3>2, <3>3 DEF RewardInv, Owing
  <2>3. CASE ConfirmBill(b)
    <3> SUFFICES ASSUME demotions = 0 PROVE Owing' BY <2>3 DEF Owing, ConfirmBill
    <3>1. /\ b \notin ToSet(confirmed) /\ confirmed' = Append(confirmed, b)
          /\ UNCHANGED <<delivered, missed, demotions>> /\ confirmed \in Seq(Bills)
      BY <2>3 DEF ConfirmBill, RewardInv, Owing
    <3>2. /\ confirmed' \in Seq(Bills) /\ DOMAIN confirmed' = 1..(Len(confirmed) + 1)
          /\ DOMAIN confirmed = 1..Len(confirmed) /\ Len(confirmed) \in Nat
          /\ confirmed'[Len(confirmed) + 1] = b
          /\ \A i \in DOMAIN confirmed : i \in DOMAIN confirmed' /\ confirmed'[i] = confirmed[i]
      BY <3>1
    <3>3. \A c : Leads(c) => Leads(c)'
      <4>1. ASSUME NEW c, NEW i \in DOMAIN confirmed, confirmed[i] = c,
                   \A j \in DOMAIN confirmed : Payer[confirmed[j]] = Payer[c] => i <= j
            PROVE  \A j \in DOMAIN confirmed' : Payer[confirmed'[j]] = Payer[c] => i <= j
        BY <3>2, <4>1
      <4> QED BY <3>2, <4>1 DEF Leads
    <3>4. \A c \in ToSet(confirmed) : Leads(c)' => Leads(c)
      <4>1. ASSUME NEW c \in ToSet(confirmed), NEW i \in DOMAIN confirmed', confirmed'[i] = c,
                   \A j \in DOMAIN confirmed' : Payer[confirmed'[j]] = Payer[c] => i <= j
            PROVE  Leads(c)
        <5>1. c # b BY <3>1
        <5>2. i \in DOMAIN confirmed BY <3>2, <4>1, <5>1
        <5>3. \A j \in DOMAIN confirmed : Payer[confirmed[j]] = Payer[c] => i <= j BY <3>2, <4>1
        <5> QED BY <3>2, <4>1, <5>2, <5>3 DEF Leads
      <4> QED BY <4>1 DEF Leads
    <3>5. ToSet(confirmed) \subseteq ToSet(confirmed') BY <3>2 DEF ToSet
    <3>6. ASSUME NEW g \in Finalizers, fin'[g].step = "referrer" PROVE Leads(fin[g].bill)'
      <4>1. PICK c : c = fin'[g].bill OBVIOUS
      <4>2. Leads(c) BY <1>1, <3>6, <4>1 DEF RewardInv, Owing
      <4> QED BY <3>3, <4>1, <4>2 DEF Leads
    <3>7. \A c : Awaited(c)' <=> Awaited(c) BY <1>1 DEF Awaited
    <3> QED BY <1>1, <3>1, <3>2, <3>3, <3>4, <3>5, <3>6, <3>7 DEF RewardInv, Owing
  <2> QED BY <2>1, <2>2, <2>3
<1> QED BY <1>1, <1>3, <1>4 DEF RewardInv, OneRewardEach, BalanceIsLedger, money

LEMMA RewardIsInvariant == RewardSpec => []RewardInv
<1>1. RewardInit => RewardInv
  <2> SUFFICES ASSUME RewardInit PROVE RewardInv
    OBVIOUS
  <2>1. None \in Carries /\ None.step = "none" /\ None.held = {} BY NoneCarries
  <2>2. \A h \in Finalizers \union Readers : fin[h] = None BY DEF RewardInit
  <2>3. RewardTypeOK
    <3> HIDE DEF None
    <3> QED BY <2>1 DEF RewardInit, RewardTypeOK
  <2>4. \A h \in Finalizers : Holds(h) BY <2>1, <2>2 DEF Holds
  <2>5. Locked BY <2>1, <2>2, <2>4 DEF Locked
  <2>6. Owing BY <2>1, <2>2 DEF Owing, RewardInit
  <2>7. \A u \in People : invitedBy[u] # u BY RewardAssumption DEF RewardInit
  <2> QED BY <2>3, <2>5, <2>6, <2>7 DEF RewardInv, OneRewardEach, BalanceIsLedger, RewardInit
<1>2. RewardInv /\ [RewardNext]_rewardVars => RewardInv'
  <2> SUFFICES ASSUME RewardInv, [RewardNext]_rewardVars PROVE RewardInv'
    OBVIOUS
  <2>1. ASSUME NEW h \in Finalizers,
               \/ LockBill(h) \/ ReportReferrer(h) \/ ReportInvited(h) \/ LockInvited(h)
               \/ LockReferrer(h) \/ FinalizerDies(h) \/ \E g \in Finalizers : Deadlock(h, g)
        PROVE  RewardInv'
    BY <2>1, LockBillStep, ReportStep, ReportedStep, InvitedStep, RewardStep, EndSteps
  <2>2. ASSUME NEW h \in Finalizers, NEW b \in Bills, DeliverBill(h, b) PROVE RewardInv'
    BY <2>2, DeliverStep
  <2>3. ASSUME NEW b \in Bills, ConfirmBill(b) \/ Demote(b) \/ Reconcile(b) PROVE RewardInv'
    BY <2>3, BookSteps
  <2>4. ASSUME NEW u \in People, NEW r \in People, BindReferrer(u, r) PROVE RewardInv'
    BY <2>4, BindStep
  <2>5. ASSUME NEW v \in Readers, WritePage(v) \/ \E u \in People : ReadPage(v, u) PROVE RewardInv'
    BY <2>5, ReadStep, WriteStep
  <2>6. CASE UNCHANGED rewardVars
    <3>1. /\ UNCHANGED <<invitedBy, confirmed, delivered, reward, missed, late, demotions>>
          /\ UNCHANGED <<money, fin, overwritten>>
      BY <2>6 DEF rewardVars
    <3>2. RewardTypeOK' BY <3>1 DEF RewardInv, RewardTypeOK, money
    <3>3. Locked' /\ Owing' BY <3>1, StillHeld, ReaderOwes DEF RewardInv
    <3> QED BY <3>1, <3>2, <3>3 DEF RewardInv, OneRewardEach, BalanceIsLedger, money
  <2> QED BY <2>1, <2>2, <2>3, <2>4, <2>5, <2>6 DEF RewardNext
<1> QED BY <1>1, <1>2, PTL DEF RewardSpec

(* For any users, payments and handlers: process_referral_reward_for_       *)
(* payment, which looks for an earlier reward under the lock of the invited *)
(* user, gives him one, and never for himself.                              *)
THEOREM EachIsRewardedOnce == RewardSpec => []OneRewardEach
<1>1. RewardInv => OneRewardEach BY DEF RewardInv
<1> QED BY <1>1, RewardIsInvariant, PTL

(* For any users, payments, handlers and old invites: the balance read with *)
(* the lock of the invited user is his balance when it is written, so no    *)
(* credit is lost but to a reader of the referral page.                     *)
THEOREM BalancesAreLedgers == RewardSpec => []BalanceIsLedger
<1>1. RewardInv => BalanceIsLedger BY DEF RewardInv
<1> QED BY <1>1, RewardIsInvariant, PTL

(* For any users, payments and handlers, the first payment of an invited    *)
(* user goes unrewarded only by one of the ways the property names.         *)
THEOREM FirstPaymentsAreRewarded == RewardSpec => []FirstPaymentRewarded
<1>1. ASSUME RewardInv, \A h \in Finalizers : fin[h] = None, NEW u \in People \ late,
             invitedBy[u] # Nobody, Paid(u) # {}, demotions = 0,
             \A i \in Paid(u) : confirmed[i] \in delivered \ missed
      PROVE  reward[FirstPaid(u)] # Nobody
  <2>1. confirmed \in Seq(Bills) BY <1>1 DEF RewardInv, Owing
  <2>2. Paid(u) \subseteq Nat BY <2>1 DEF Paid
  <2>3. Min(Paid(u)) \in Paid(u) BY <1>1, <2>2, MinIsLeast
  <2>4. /\ FirstPaid(u) \in Bills /\ Payer[FirstPaid(u)] = u
        /\ FirstPaid(u) \in delivered \ missed
    BY <1>1, <2>1, <2>3 DEF FirstPaid, Paid
  <2>5. Leads(FirstPaid(u)) BY <1>1, <2>1, <2>4, FirstLeads
  <2>6. ~Awaited(FirstPaid(u)) BY <1>1, NoneCarries DEF Awaited
  <2> QED BY <1>1, <2>4, <2>5, <2>6 DEF RewardInv, Owing
<1>2. RewardInv => FirstPaymentRewarded BY <1>1 DEF FirstPaymentRewarded
<1> QED BY <1>2, RewardIsInvariant, PTL

-----------------------------------------------------------------------------
(* Promo codes.                                                             *)
RedemptionRow ==
    [code : Codes, user : Buyers, order : Orders \union {NoCode}, status : {"pending", "applied", "consumed"}]
RequestRow ==
    [step : {"idle", "locked", "credit"}, code : Codes \union {NoCode}, user : Buyers \union {NoCode},
     carry : Nat]
OrderRow ==
    [state : {"none", "open", "marked", "done", "cut"}, user : Buyers \union {NoCode}, discount : Nat]

PromoTypeOK ==
    /\ redemptions \in Seq(RedemptionRow)
    /\ count \in [Codes -> Nat] /\ credited \in [Buyers -> Nat]
    /\ req \in [Redeemers -> RequestRow] /\ order \in [Orders -> OrderRow]
    /\ unpaid \subseteq DOMAIN redemptions

(* A request has locked the code of a user, or carries the redemption whose *)
(* days are to be credited; nobody else carries it.                         *)
Carrying(h) ==
    /\ req[h].step = "locked" => req[h].code \in Codes /\ req[h].user \in Buyers
    /\ req[h].step = "credit" => req[h].user \in Buyers /\ req[h].carry \in Of(req[h].user, "applied") \ unpaid
OneCarries(h, g) == req[h].step = "credit" /\ req[g].step = "credit" /\ req[h].carry = req[g].carry => h = g
Requests == \A h, g \in Redeemers : Carrying(h) /\ OneCarries(h, g)

(* A payment's discount is one that was pending when it was opened.         *)
Discounted(o) ==
    order[o].discount # 0 =>
        /\ order[o].discount \in DOMAIN redemptions
        /\ redemptions[order[o].discount].status \in
               (IF order[o].state = "done" THEN {"consumed"} ELSE {"pending", "consumed"})
UsedUp(i) ==
    redemptions[i].status = "consumed" =>
        /\ redemptions[i].order \in Orders
        /\ order[redemptions[i].order].discount = i /\ order[redemptions[i].order].state = "done"
Vouchers == (\A o \in Orders : Discounted(o)) /\ (\A i \in DOMAIN redemptions : UsedUp(i))

(* A user who never had two requests at a time has one discount or none.    *)
Locks(h, u) == req[h].step = "locked" /\ req[h].user = u
Alone(u) ==
    /\ \A h, g \in Redeemers : Locks(h, u) /\ Locks(g, u) => h = g
    /\ \A h \in Redeemers : Locks(h, u) /\ req[h].code \in Discounts => Pending(u) = {}
    /\ \A i, j \in Pending(u) : i = j
Careful == \A u \in Buyers \ raced : Alone(u)

PromoInv == PromoTypeOK /\ Requests /\ Vouchers /\ Careful /\ DaysAsRedeemed

LEMMA ReqSet ==
    ASSUME PromoTypeOK, NEW h \in Redeemers, NEW r \in RequestRow, req' = [req EXCEPT ![h] = r]
    PROVE  /\ req' \in [Redeemers -> RequestRow] /\ req'[h] = r
           /\ \A g \in Redeemers : g # h => req'[g] = req[g]
  BY DEF PromoTypeOK

LEMMA QuitRow == Quit \in RequestRow /\ Quit.step = "idle"
  BY DEF Quit, RequestRow

LEMMA IdsFinite ==
    ASSUME PromoTypeOK
    PROVE  /\ Len(redemptions) \in Nat /\ DOMAIN redemptions = 1..Len(redemptions)
           /\ \A S : S \subseteq DOMAIN redemptions => IsFiniteSet(S) /\ Cardinality(S) \in Nat
<1>1. Len(redemptions) \in Nat /\ DOMAIN redemptions = 1..Len(redemptions) BY DEF PromoTypeOK
<1>2. IsFiniteSet(1..Len(redemptions)) BY <1>1, FS_Interval
<1> QED BY <1>1, <1>2, FS_Subset, FS_CardinalityType

Crediting(u) == {h \in Redeemers : req[h].step = "credit" /\ req[h].user = u}

LEMMA CreditingFinite == \A S : S \subseteq Redeemers => IsFiniteSet(S) /\ Cardinality(S) \in Nat
  BY PromoAssumption, FS_Subset, FS_CardinalityType

(* A step of the redemptions' that credits nothing and takes no lock.       *)
LEMMA SameBooks ==
    ASSUME PromoInv, UNCHANGED <<count, redemptions, credited, req, order, unpaid, raced>>
    PROVE  PromoInv'
<1>1. PromoTypeOK' BY DEF PromoInv, PromoTypeOK
<1>2. \A u, s : Of(u, s)' = Of(u, s) BY DEF Of
<1>3. Requests'
  <2>1. \A h \in Redeemers : Carrying(h)' BY <1>2 DEF PromoInv, Requests, Carrying, Of
  <2> QED BY <2>1 DEF PromoInv, Requests, OneCarries
<1>4. Vouchers' BY DEF PromoInv, Vouchers, Discounted, UsedUp
<1>5. Careful' BY <1>2 DEF PromoInv, Careful, Alone, Locks, Pending
<1>6. DaysAsRedeemed' BY <1>2 DEF PromoInv, DaysAsRedeemed
<1> QED BY <1>1, <1>3, <1>4, <1>5, <1>6 DEF PromoInv

LEMMA LockStep ==
    ASSUME PromoInv, NEW h \in Redeemers, NEW u \in Buyers, NEW c \in Codes, LockCode(h, u, c)
    PROVE  PromoInv'
<1> DEFINE r == [step |-> "locked", code |-> c, user |-> u, carry |-> count[c]]
<1>1. /\ req[h] = Quit /\ (c \in Discounts => Pending(u) = {}) /\ req' = [req EXCEPT ![h] = r]
      /\ raced' = IF \E g \in Redeemers : req[g].step = "locked" /\ req[g].user = u
                  THEN raced \union {u} ELSE raced
      /\ UNCHANGED <<count, redemptions, credited, order, unpaid>>
  BY DEF LockCode, CodeFree, Redeemable
<1>2. r \in RequestRow /\ r.step = "locked" /\ r.code = c /\ r.user = u
  BY DEF RequestRow, PromoInv, PromoTypeOK
<1> HIDE DEF r
<1>3. /\ req' \in [Redeemers -> RequestRow] /\ req'[h] = r
      /\ \A g \in Redeemers : g # h => req'[g] = req[g]
  BY <1>1, <1>2, ReqSet DEF PromoInv
<1>4. \A v, s : Of(v, s)' = Of(v, s) BY <1>1 DEF Of
<1>5. PromoTypeOK' BY <1>1, <1>3 DEF PromoInv, PromoTypeOK
<1>6. Requests'
  <2>1. ASSUME NEW g \in Redeemers PROVE Carrying(g)'
    <3>1. CASE g = h BY <1>2, <1>3, <3>1 DEF Carrying
    <3>2. CASE g # h BY <1>1, <1>3, <1>4, <3>2 DEF PromoInv, Requests, Carrying, Of
    <3> QED BY <3>1, <3>2
  <2>2. ASSUME NEW g \in Redeemers, NEW k \in Redeemers PROVE OneCarries(g, k)'
    BY <1>2, <1>3 DEF PromoInv, Requests, OneCarries
  <2> QED BY <2>1, <2>2 DEF Requests
<1>7. Vouchers' BY <1>1 DEF PromoInv, Vouchers, Discounted, UsedUp
<1>8. Careful'
  <2>1. ASSUME NEW v \in Buyers, v \notin raced' PROVE Alone(v)'
    <3>1. v \notin raced BY <1>1, <2>1
    <3>2. Alone(v) BY <3>1 DEF PromoInv, Careful
    <3>3. Pending(v)' = Pending(v) BY <1>4 DEF Pending
    <3>4. CASE v # u BY <1>2, <1>3, <3>2, <3>3, <3>4 DEF Alone, Locks
    <3>5. CASE v = u
      <4>1. \A g \in Redeemers : ~Locks(g, u) BY <1>1, <2>1, <3>1, <3>5 DEF Locks
      <4> QED BY <1>1, <1>2, <1>3, <3>2, <3>3, <3>5, <4>1 DEF Alone, Locks
    <3> QED BY <3>4, <3>5
  <2> QED BY <2>1 DEF Careful
<1>9. DaysAsRedeemed'
  <2>1. ASSUME NEW v \in Buyers PROVE Crediting(v)' = Crediting(v)
    BY <1>1, <1>2, <1>3, QuitRow DEF Crediting
  <2> QED BY <1>1, <1>4, <2>1 DEF PromoInv, DaysAsRedeemed, Crediting
<1> QED BY <1>5, <1>6, <1>7, <1>8, <1>9 DEF PromoInv

LEMMA CommitStep == ASSUME PromoInv, NEW h \in Redeemers, CommitRedemption(h) PROVE PromoInv'
<1>1. PICK c, u, n : c = req[h].code /\ u = req[h].user /\ n = Len(redemptions) + 1 OBVIOUS
<1>2. PICK x : x = Redemption(c, u) OBVIOUS
<1>3. PICK k : k = req[h].carry + 1 OBVIOUS
<1> DEFINE r == IF c \in Discounts THEN Quit ELSE [req[h] EXCEPT !.step = "credit", !.carry = n]
<1>4. /\ req[h].step = "locked" /\ redemptions' = Append(redemptions, x)
      /\ count' = [count EXCEPT ![c] = k] /\ req' = [req EXCEPT ![h] = r]
      /\ UNCHANGED <<credited, order, unpaid, raced>>
  BY <1>1, <1>2, <1>3 DEF CommitRedemption, OfUser, PromoInv, PromoTypeOK
<1>5. c \in Codes /\ u \in Buyers /\ k \in Nat /\ req[h] \in RequestRow
  BY <1>1, <1>3, <1>4 DEF PromoInv, Requests, Carrying, PromoTypeOK, RequestRow
<1>6. /\ x \in RedemptionRow /\ x.user = u /\ x.status = (IF c \in Discounts THEN "pending" ELSE "applied")
  BY <1>2, <1>5 DEF Redemption, RedemptionRow
<1>7. Len(redemptions) \in Nat /\ DOMAIN redemptions = 1..Len(redemptions) BY IdsFinite DEF PromoInv
<1>8. /\ redemptions' \in Seq(RedemptionRow) /\ DOMAIN redemptions' = DOMAIN redemptions \union {n}
      /\ n \in Nat /\ n # 0 /\ n \notin DOMAIN redemptions /\ redemptions'[n] = x
      /\ \A i \in DOMAIN redemptions : redemptions'[i] = redemptions[i]
  <2>1. redemptions \in Seq(RedemptionRow) BY DEF PromoInv, PromoTypeOK
  <2>2. /\ redemptions' \in Seq(RedemptionRow) /\ Len(redemptions') = Len(redemptions) + 1
        /\ redemptions'[Len(redemptions) + 1] = x
        /\ \A i \in 1..Len(redemptions) : redemptions'[i] = redemptions[i]
    BY <1>4, <1>6, <1>7, <2>1
  <2>3. DOMAIN redemptions' = 1..(Len(redemptions) + 1) BY <2>2
  <2> QED BY <1>1, <1>7, <2>2, <2>3
<1>9. /\ r \in RequestRow /\ r.step = (IF c \in Discounts THEN "idle" ELSE "credit")
      /\ c \notin Discounts => r.user = u /\ r.carry = n
  BY <1>1, <1>5, <1>8, QuitRow DEF RequestRow
<1> HIDE DEF r
<1>10. /\ req' \in [Redeemers -> RequestRow] /\ req'[h] = r
       /\ \A g \in Redeemers : g # h => req'[g] = req[g]
  BY <1>4, <1>9, ReqSet DEF PromoInv
<1>11. \A v, s : Of(v, s)' = Of(v, s) \union (IF v = u /\ s = x.status THEN {n} ELSE {})
  BY <1>6, <1>8 DEF Of
<1>12. PromoTypeOK'
  <2>1. count' \in [Codes -> Nat] BY <1>4, <1>5 DEF PromoInv, PromoTypeOK
  <2>2. unpaid' \subseteq DOMAIN redemptions' BY <1>4, <1>8 DEF PromoInv, PromoTypeOK
  <2> QED BY <1>4, <1>8, <1>10, <2>1, <2>2 DEF PromoInv, PromoTypeOK
<1>13. n \notin unpaid BY <1>8 DEF PromoInv, PromoTypeOK
<1>14. Requests'
  <2>1. ASSUME NEW g \in Redeemers PROVE Carrying(g)'
    <3>1. CASE g = h
      <4>1. CASE c \in Discounts BY <1>9, <1>10, <3>1, <4>1 DEF Carrying
      <4>2. CASE c \notin Discounts
        <5>1. req'[g].step = "credit" /\ req'[g].user = u /\ req'[g].carry = n
          BY <1>9, <1>10, <3>1, <4>2
        <5>2. n \in Of(u, "applied")' BY <1>6, <1>11, <4>2
        <5>3. \A v : v = u => n \in Of(v, "applied")' BY <5>2 DEF Of
        <5> QED BY <1>4, <1>5, <1>13, <5>1, <5>3 DEF Carrying, Of
      <4> QED BY <4>1, <4>2
    <3>2. CASE g # h
      <4>1. Carrying(g) /\ req'[g] = req[g] BY <1>10, <3>2 DEF PromoInv, Requests
      <4>2. \A v, s : Of(v, s) \subseteq Of(v, s)' BY <1>11
      <4> QED BY <1>4, <4>1, <4>2 DEF Carrying, Of
    <3> QED BY <3>1, <3>2
  <2>2. \A g \in Redeemers : req[g].step = "credit" => req[g].carry # n
    BY <1>8 DEF PromoInv, Requests, Carrying, Of
  <2>3. ASSUME NEW g \in Redeemers, NEW e \in Redeemers PROVE OneCarries(g, e)'
    BY <1>9, <1>10, <2>2 DEF PromoInv, Requests, OneCarries
  <2> QED BY <2>1, <2>3 DEF Requests
<1>15. Vouchers'
  <2>1. ASSUME NEW o \in Orders PROVE Discounted(o)'
    BY <1>4, <1>8 DEF PromoInv, Vouchers, Discounted
  <2>2. ASSUME NEW i \in DOMAIN redemptions' PROVE UsedUp(i)'
    <3>1. CASE i = n BY <1>6, <1>8, <3>1 DEF UsedUp
    <3>2. CASE i # n BY <1>4, <1>8, <3>2 DEF PromoInv, Vouchers, UsedUp
    <3> QED BY <3>1, <3>2
  <2> QED BY <2>1, <2>2 DEF Vouchers
<1>16. Careful'
  <2>1. ASSUME NEW v \in Buyers, v \notin raced PROVE Alone(v)'
    <3>1. Alone(v) BY <2>1 DEF PromoInv, Careful
    <3>2. \A g \in Redeemers : Locks(g, v)' => Locks(g, v) /\ g # h /\ req'[g] = req[g]
      BY <1>9, <1>10 DEF Locks
    <3>3. CASE v = u /\ c \in Discounts
      <4>1. Locks(h, u) BY <1>1, <1>4 DEF Locks
      <4>2. \A g \in Redeemers : ~Locks(g, v)' BY <3>1, <3>2, <3>3, <4>1 DEF Alone
      <4>3. Pending(v) = {} BY <1>1, <3>1, <3>3, <4>1 DEF Alone
      <4>4. Pending(v)' = {n} BY <1>6, <1>11, <3>3, <4>3 DEF Pending
      <4> QED BY <4>2, <4>4 DEF Alone
    <3>4. CASE ~(v = u /\ c \in Discounts)
      <4>1. Pending(v)' = Pending(v) BY <1>6, <1>11, <3>4 DEF Pending
      <4> QED BY <3>1, <3>2, <4>1 DEF Alone
    <3> QED BY <3>3, <3>4
  <2> QED BY <1>4, <2>1 DEF Careful
<1>17. DaysAsRedeemed'
  <2>1. ASSUME NEW v \in Buyers
        PROVE  credited[v] + Cardinality(Crediting(v)') = Cardinality(Of(v, "applied")' \ unpaid)
    <3> DEFINE C == Crediting(v)  A == Of(v, "applied") \ unpaid
    <3>1. credited[v] + Cardinality(C) = Cardinality(A) BY DEF PromoInv, DaysAsRedeemed, Crediting
    <3>2. C \subseteq Redeemers /\ A \subseteq DOMAIN redemptions BY DEF Crediting, Of
    <3>3. IsFiniteSet(C) /\ Cardinality(C) \in Nat /\ IsFiniteSet(A) /\ Cardinality(A) \in Nat
      BY <3>2, IdsFinite, CreditingFinite DEF PromoInv
    <3>4. h \notin C /\ n \notin A BY <1>4, <1>8 DEF Crediting, Of
    <3>5. CASE v = u /\ c \notin Discounts
      <4>1. Crediting(v)' = C \union {h} BY <1>9, <1>10, <3>5 DEF Crediting
      <4>2. Of(v, "applied")' \ unpaid = A \union {n} BY <1>6, <1>11, <1>13, <3>5
      <4> HIDE DEF C, A
      <4>3. Cardinality(C \union {h}) = Cardinality(C) + 1 BY <3>3, <3>4, FS_AddElement
      <4>4. Cardinality(A \union {n}) = Cardinality(A) + 1 BY <3>3, <3>4, FS_AddElement
      <4>5. credited[v] \in Nat BY DEF PromoInv, PromoTypeOK
      <4> QED BY <3>1, <3>3, <4>1, <4>2, <4>3, <4>4, <4>5
    <3>6. CASE ~(v = u /\ c \notin Discounts)
      <4>1. Crediting(v)' = C BY <1>1, <1>4, <1>9, <1>10, <3>6 DEF Crediting
      <4>2. Of(v, "applied")' = Of(v, "applied") BY <1>6, <1>11, <3>6
      <4> QED BY <3>1, <4>1, <4>2
    <3> QED BY <3>5, <3>6
  <2> QED BY <1>4, <2>1 DEF DaysAsRedeemed, Crediting
<1> QED BY <1>12, <1>14, <1>15, <1>16, <1>17 DEF PromoInv

(* A request ends: its days credited, lost on the way, or none under way.   *)
LEMMA RequestEnds ==
    ASSUME PromoInv, NEW h \in Redeemers, CreditDays(h) \/ RedeemerDies(h)
    PROVE  PromoInv'
<1>1. PICK u, n : u = req[h].user /\ n = req[h].carry OBVIOUS
<1>2. req' = [req EXCEPT ![h] = Quit] /\ UNCHANGED <<count, redemptions, order, raced>>
  BY DEF CreditDays, RedeemerDies
<1>3. \/ req[h].step = "credit" /\ credited' = [credited EXCEPT ![u] = @ + 1] /\ unpaid' = unpaid
      \/ req[h].step = "credit" /\ credited' = credited /\ unpaid' = unpaid \union {n}
      \/ req[h].step # "credit" /\ credited' = credited /\ unpaid' = unpaid
  BY <1>1 DEF CreditDays, RedeemerDies
<1>4. /\ req' \in [Redeemers -> RequestRow] /\ req'[h].step = "idle"
      /\ \A g \in Redeemers : g # h => req'[g] = req[g]
  BY <1>2, QuitRow, ReqSet DEF PromoInv
<1>5. \A v, s : Of(v, s)' = Of(v, s) BY <1>2 DEF Of
<1>6. req[h].step = "credit" => u \in Buyers /\ n \in Of(u, "applied") \ unpaid
  BY <1>1 DEF PromoInv, Requests, Carrying
<1>7. PromoTypeOK'
  <2>1. credited' \in [Buyers -> Nat] BY <1>3, <1>6 DEF PromoInv, PromoTypeOK
  <2>2. unpaid' \subseteq DOMAIN redemptions' BY <1>2, <1>3, <1>6 DEF PromoInv, PromoTypeOK, Of
  <2> QED BY <1>2, <1>4, <2>1, <2>2 DEF PromoInv, PromoTypeOK
<1>8. Requests'
  <2>1. ASSUME NEW g \in Redeemers PROVE Carrying(g)'
    <3>1. CASE g = h BY <1>4, <3>1 DEF Carrying
    <3>2. CASE g # h
      <4>1. Carrying(g) /\ req'[g] = req[g] BY <1>4, <3>2 DEF PromoInv, Requests
      <4>2. req[g].step = "credit" => req[g].carry \notin unpaid'
        BY <1>1, <1>3, <3>2, <4>1 DEF PromoInv, Requests, OneCarries, Carrying
      <4>3. req[g].step = "credit" => req[g].carry \in Of(req[g].user, "applied") BY <4>1 DEF Carrying
      <4> QED BY <1>2, <4>1, <4>2, <4>3 DEF Carrying, Of
    <3> QED BY <3>1, <3>2
  <2>2. ASSUME NEW g \in Redeemers, NEW e \in Redeemers PROVE OneCarries(g, e)'
    BY <1>4 DEF PromoInv, Requests, OneCarries
  <2> QED BY <2>1, <2>2 DEF Requests
<1>9. Vouchers' BY <1>2 DEF PromoInv, Vouchers, Discounted, UsedUp
<1>10. Careful'
  <2>1. ASSUME NEW v \in Buyers, Alone(v) PROVE Alone(v)'
    <3>1. \A g \in Redeemers : Locks(g, v)' => Locks(g, v) /\ req'[g] = req[g] BY <1>4 DEF Locks
    <3>2. Pending(v)' = Pending(v) BY <1>5 DEF Pending
    <3> QED BY <2>1, <3>1, <3>2 DEF Alone
  <2> QED BY <1>2, <2>1 DEF PromoInv, Careful
<1>11. DaysAsRedeemed'
  <2>1. ASSUME NEW v \in Buyers
        PROVE  credited'[v] + Cardinality(Crediting(v)') = Cardinality(Of(v, "applied") \ unpaid')
    <3> DEFINE C == Crediting(v)  A == Of(v, "applied") \ unpaid
    <3>1. credited[v] + Cardinality(C) = Cardinality(A) BY DEF PromoInv, DaysAsRedeemed, Crediting
    <3>2. C \subseteq Redeemers /\ A \subseteq DOMAIN redemptions BY DEF Crediting, Of
    <3>3. IsFiniteSet(C) /\ Cardinality(C) \in Nat /\ IsFiniteSet(A) /\ Cardinality(A) \in Nat
      BY <3>2, IdsFinite, CreditingFinite DEF PromoInv
    <3>4. credited[v] \in Nat BY DEF PromoInv, PromoTypeOK
    <3>5. Crediting(v)' = C \ {h} BY <1>4 DEF Crediting
    <3>6. h \in C <=> req[h].step = "credit" /\ u = v BY <1>1 DEF Crediting
    <3>7. req[h].step = "credit" => (n \in A <=> u = v) BY <1>6 DEF Of
    <3> HIDE DEF C, A
    <3>8. Cardinality(C \ {h}) = IF h \in C THEN Cardinality(C) - 1 ELSE Cardinality(C)
      BY <3>3, FS_RemoveElement
    <3>9. CASE req[h].step = "credit" /\ credited' = [credited EXCEPT ![u] = @ + 1] /\ unpaid' = unpaid
      <4>1. credited'[v] = IF u = v THEN credited[v] + 1 ELSE credited[v]
        BY <3>9 DEF PromoInv, PromoTypeOK
      <4>2. Of(v, "applied") \ unpaid' = A BY <3>9 DEF A
      <4>3. CASE u = v
        <5>1. Cardinality(C \ {h}) = Cardinality(C) - 1 /\ credited'[v] = credited[v] + 1
          BY <3>6, <3>8, <3>9, <4>1, <4>3
        <5>2. credited'[v] + Cardinality(C \ {h}) = Cardinality(A) BY <3>1, <3>3, <3>4, <5>1
        <5> QED BY <3>5, <4>2, <5>2
      <4>4. CASE u # v
        <5>1. Cardinality(C \ {h}) = Cardinality(C) /\ credited'[v] = credited[v]
          BY <3>6, <3>8, <4>1, <4>4
        <5> QED BY <3>1, <3>5, <4>2, <5>1
      <4> QED BY <4>3, <4>4
    <3>10. CASE req[h].step = "credit" /\ credited' = credited /\ unpaid' = unpaid \union {n}
      <4>1. Of(v, "applied") \ unpaid' = A \ {n} BY <3>10 DEF A
      <4>2. Cardinality(A \ {n}) = IF n \in A THEN Cardinality(A) - 1 ELSE Cardinality(A)
        BY <3>3, FS_RemoveElement
      <4>3. CASE u = v
        <5>1. Cardinality(C \ {h}) = Cardinality(C) - 1 /\ Cardinality(A \ {n}) = Cardinality(A) - 1
          BY <3>6, <3>7, <3>8, <3>10, <4>2, <4>3
        <5>2. credited[v] + Cardinality(C \ {h}) = Cardinality(A \ {n}) BY <3>1, <3>3, <3>4, <5>1
        <5> QED BY <3>5, <3>10, <4>1, <5>2
      <4>4. CASE u # v
        <5>1. Cardinality(C \ {h}) = Cardinality(C) /\ Cardinality(A \ {n}) = Cardinality(A)
          BY <3>6, <3>7, <3>8, <3>10, <4>2, <4>4
        <5> QED BY <3>1, <3>5, <3>10, <4>1, <5>1
      <4> QED BY <4>3, <4>4
    <3>11. CASE req[h].step # "credit" /\ credited' = credited /\ unpaid' = unpaid
      <4>1. Of(v, "applied") \ unpaid' = A BY <3>11 DEF A
      <4> QED BY <3>1, <3>5, <3>6, <3>8, <3>11, <4>1
    <3> QED BY <1>3, <3>9, <3>10, <3>11
  <2> QED BY <1>5, <2>1 DEF DaysAsRedeemed, Crediting
<1> QED BY <1>7, <1>8, <1>9, <1>10, <1>11 DEF PromoInv

-----------------------------------------------------------------------------
(* Payments.  A step that leaves the redemptions alone.                     *)
LEMMA OrderStep ==
    ASSUME PromoInv, NEW o \in Orders, NEW x \in OrderRow, order' = [order EXCEPT ![o] = x],
           UNCHANGED <<count, redemptions, credited, req, unpaid, raced>>,
           order[o].state # "done", Discounted(o)'
    PROVE  PromoInv'
<1>1. order' \in [Orders -> OrderRow] /\ \A p \in Orders : p # o => order'[p] = order[p]
  BY DEF PromoInv, PromoTypeOK
<1>2. \A v, s : Of(v, s)' = Of(v, s) BY DEF Of
<1>3. PromoTypeOK' BY <1>1 DEF PromoInv, PromoTypeOK
<1>4. Requests'
  <2>1. \A h \in Redeemers : Carrying(h)' BY <1>2 DEF PromoInv, Requests, Carrying, Of
  <2> QED BY <2>1 DEF PromoInv, Requests, OneCarries
<1>5. Vouchers'
  <2>1. ASSUME NEW p \in Orders PROVE Discounted(p)' BY <1>1 DEF PromoInv, Vouchers, Discounted
  <2>2. ASSUME NEW i \in DOMAIN redemptions PROVE UsedUp(i)' BY <1>1 DEF PromoInv, Vouchers, UsedUp
  <2> QED BY <2>1, <2>2 DEF Vouchers
<1>6. Careful' BY <1>2 DEF PromoInv, Careful, Alone, Locks, Pending
<1>7. DaysAsRedeemed' BY <1>2 DEF PromoInv, DaysAsRedeemed
<1> QED BY <1>3, <1>4, <1>5, <1>6, <1>7 DEF PromoInv

LEMMA OrderSteps ==
    ASSUME PromoInv, NEW o \in Orders,
           MarkOrder(o) \/ DeliveryDies(o) \/ \E u \in Buyers : OpenOrder(o, u)
    PROVE  PromoInv'
<1>1. UNCHANGED <<count, redemptions, credited, req, unpaid, raced>> /\ order \in [Orders -> OrderRow]
  BY DEF MarkOrder, DeliveryDies, OpenOrder, PromoInv, PromoTypeOK
<1>2. ASSUME NEW s \in {"marked", "cut"}, order[o].state # "done",
             order' = [order EXCEPT ![o].state = s]
      PROVE  PromoInv'
  <2> DEFINE x == [order[o] EXCEPT !.state = s]
  <2>1. order' = [order EXCEPT ![o] = x] BY <1>2
  <2>2. x \in OrderRow /\ x.state = s /\ x.discount = order[o].discount BY <1>1 DEF OrderRow
  <2> HIDE DEF x
  <2>3. Discounted(o)' BY <1>1, <1>2, <2>1, <2>2 DEF PromoInv, Vouchers, Discounted
  <2> QED BY <1>1, <1>2, <2>1, <2>2, <2>3, OrderStep
<1>3. ASSUME NEW u \in Buyers, OpenOrder(o, u) PROVE PromoInv'
  <2> DEFINE d == IF Pending(u) = {} THEN 0 ELSE Max(Pending(u))
             x == [state |-> "open", user |-> u, discount |-> d]
  <2>1. order' = [order EXCEPT ![o] = x] /\ order[o].state = "none" BY <1>3 DEF OpenOrder
  <2>2. d = 0 \/ d \in Pending(u)
    <3>1. Pending(u) \subseteq 1..Len(redemptions) /\ Len(redemptions) \in Nat
      BY IdsFinite DEF PromoInv, Pending, Of
    <3> QED BY <3>1, MaxIsGreatest
  <2>3. d \in Nat /\ (d # 0 => d \in DOMAIN redemptions /\ redemptions[d].status = "pending")
    <3>1. DOMAIN redemptions \subseteq Nat BY IdsFinite DEF PromoInv
    <3> QED BY <2>2, <3>1 DEF Pending, Of
  <2> HIDE DEF d
  <2>4. x \in OrderRow /\ x.state = "open" /\ x.discount = d BY <2>3 DEF OrderRow
  <2> HIDE DEF x
  <2>5. order'[o] = x BY <1>1, <2>1
  <2>6. Discounted(o)' BY <1>1, <2>3, <2>4, <2>5 DEF Discounted
  <2> QED BY <1>1, <2>1, <2>4, <2>6, OrderStep
<1> QED BY <1>2, <1>3 DEF MarkOrder, DeliveryDies

LEMMA FunctionIsSeq == ASSUME NEW S, NEW n \in Nat, NEW f \in [1..n -> S] PROVE f \in Seq(S)
  OBVIOUS

(* The row of a discount that is consumed.                                  *)
LEMMA RowConsumed ==
    ASSUME redemptions \in Seq(RedemptionRow), NEW i \in DOMAIN redemptions, NEW o \in Orders,
           redemptions' = [redemptions EXCEPT ![i].status = "consumed", ![i].order = o]
    PROVE  /\ redemptions' \in Seq(RedemptionRow) /\ DOMAIN redemptions' = DOMAIN redemptions
           /\ redemptions'[i].status = "consumed" /\ redemptions'[i].order = o
           /\ redemptions'[i].user = redemptions[i].user
           /\ \A j \in DOMAIN redemptions : j # i => redemptions'[j] = redemptions[j]
<1> DEFINE c == "consumed"  x == [redemptions[i] EXCEPT !.status = c, !.order = o]
           n == Len(redemptions)
<1>1. redemptions[i] \in RedemptionRow OBVIOUS
<1>2. /\ x \in RedemptionRow /\ x.status = "consumed" /\ x.order = o /\ x.user = redemptions[i].user
  BY <1>1 DEF RedemptionRow
<1>3. redemptions' = [redemptions EXCEPT ![i] = x] OBVIOUS
<1> HIDE DEF x
<1>4. redemptions \in [1..n -> RedemptionRow] /\ n \in Nat /\ DOMAIN redemptions = 1..n OBVIOUS
<1> HIDE DEF n
<1>5. /\ redemptions' \in [1..n -> RedemptionRow] /\ redemptions'[i] = x
      /\ \A j \in 1..n : j # i => redemptions'[j] = redemptions[j]
  BY <1>2, <1>3, <1>4
<1>6. redemptions' \in Seq(RedemptionRow) BY <1>4, <1>5, FunctionIsSeq
<1> QED BY <1>2, <1>4, <1>5, <1>6

LEMMA ConsumeStep == ASSUME PromoInv, NEW o \in Orders, ConsumeDiscount(o) PROVE PromoInv'
<1>1. PICK i : i = order[o].discount OBVIOUS
<1> DEFINE x == [order[o] EXCEPT !.state = "done"]
<1>2. /\ order[o].state = "marked" /\ order' = [order EXCEPT ![o] = x]
      /\ redemptions' = IF i = 0 \/ redemptions[i].status # "pending" THEN redemptions
                        ELSE [redemptions EXCEPT ![i].status = "consumed", ![i].order = o]
      /\ UNCHANGED <<count, credited, req, unpaid, raced>>
  BY <1>1 DEF ConsumeDiscount, Consumed
<1>3. order[o] \in OrderRow BY DEF PromoInv, PromoTypeOK
<1>4. x \in OrderRow /\ x.state = "done" /\ x.discount = i BY <1>1, <1>3 DEF OrderRow
<1> HIDE DEF x
<1>5. /\ order' \in [Orders -> OrderRow] /\ order'[o] = x
      /\ \A p \in Orders : p # o => order'[p] = order[p]
  BY <1>2, <1>4 DEF PromoInv, PromoTypeOK
<1>6. i # 0 => i \in DOMAIN redemptions /\ redemptions[i].status \in {"pending", "consumed"}
  BY <1>1, <1>2 DEF PromoInv, Vouchers, Discounted
<1>7. CASE i = 0 \/ redemptions[i].status # "pending"
  <2>1. redemptions' = redemptions BY <1>2, <1>7
  <2>2. Discounted(o)' BY <1>4, <1>5, <1>6, <1>7, <2>1 DEF Discounted
  <2> QED BY <1>2, <1>4, <2>1, <2>2, OrderStep
<1>8. CASE i # 0 /\ redemptions[i].status = "pending"
  <2>1. /\ redemptions' \in Seq(RedemptionRow) /\ DOMAIN redemptions' = DOMAIN redemptions
        /\ redemptions'[i].status = "consumed" /\ redemptions'[i].order = o
        /\ redemptions'[i].user = redemptions[i].user
        /\ \A j \in DOMAIN redemptions : j # i => redemptions'[j] = redemptions[j]
    <3>1. redemptions' = [redemptions EXCEPT ![i].status = "consumed", ![i].order = o] BY <1>2, <1>8
    <3>2. redemptions \in Seq(RedemptionRow) BY DEF PromoInv, PromoTypeOK
    <3> QED BY <1>6, <1>8, <3>1, <3>2, RowConsumed
  <2>2. \A v : Of(v, "applied")' = Of(v, "applied") BY <1>8, <2>1 DEF Of
  <2>3. \A v : Pending(v)' \subseteq Pending(v) BY <2>1 DEF Pending, Of
  <2>4. PromoTypeOK' BY <1>2, <1>5, <2>1 DEF PromoInv, PromoTypeOK
  <2>5. Requests'
    <3>1. \A h \in Redeemers : Carrying(h)'
      <4>1. ASSUME NEW h \in Redeemers, req[h].step = "credit"
            PROVE  req[h].user \in Buyers /\ req[h].carry \in Of(req[h].user, "applied")'
        BY <1>2, <2>2, <4>1 DEF PromoInv, Requests, Carrying, Of
      <4> QED BY <1>2, <4>1 DEF PromoInv, Requests, Carrying
    <3> QED BY <1>2, <3>1 DEF PromoInv, Requests, OneCarries
  <2>6. Vouchers'
    <3>1. ASSUME NEW p \in Orders PROVE Discounted(p)'
      <4>1. CASE p = o BY <1>4, <1>5, <1>6, <2>1, <4>1 DEF Discounted
      <4>2. CASE p # o
        <5>1. order'[p] = order[p] /\ Discounted(p) BY <1>5, <4>2 DEF PromoInv, Vouchers
        <5> QED BY <1>5, <2>1, <5>1 DEF Discounted
      <4> QED BY <4>1, <4>2
    <3>2. ASSUME NEW j \in DOMAIN redemptions PROVE UsedUp(j)'
      <4>1. CASE j = i BY <1>4, <1>5, <2>1, <4>1 DEF UsedUp
      <4>2. CASE j # i
        <5>1. redemptions'[j] = redemptions[j] /\ UsedUp(j) BY <2>1, <4>2 DEF PromoInv, Vouchers
        <5>2. redemptions[j].status = "consumed" => redemptions[j].order # o BY <1>2, <5>1 DEF UsedUp
        <5> QED BY <1>5, <5>1, <5>2 DEF UsedUp
      <4> QED BY <4>1, <4>2
    <3> QED BY <2>1, <3>1, <3>2 DEF Vouchers
  <2>7. Careful'
    <3>1. ASSUME NEW v \in Buyers, Alone(v) PROVE Alone(v)'
      BY <1>2, <2>3, <3>1 DEF Alone, Locks
    <3> QED BY <1>2, <3>1 DEF PromoInv, Careful
  <2>8. DaysAsRedeemed' BY <1>2, <2>2 DEF PromoInv, DaysAsRedeemed
  <2> QED BY <2>4, <2>5, <2>6, <2>7, <2>8 DEF PromoInv
<1> QED BY <1>7, <1>8

LEMMA PromoIsInvariant == PromoSpec => []PromoInv
<1>1. PromoInit => PromoInv
  <2> SUFFICES ASSUME PromoInit PROVE PromoInv
    OBVIOUS
  <2>1. redemptions \in Seq(RedemptionRow) /\ DOMAIN redemptions = {} /\ unpaid = {}
    BY DEF PromoInit
  <2>2. \A h \in Redeemers : req[h].step = "idle" BY QuitRow DEF PromoInit
  <2>3. Unopened \in OrderRow /\ Unopened.discount = 0 BY DEF Unopened, OrderRow
  <2>4. PromoTypeOK
    <3> HIDE DEF Quit, Unopened
    <3> QED BY <2>1, <2>3, QuitRow DEF PromoInit, PromoTypeOK
  <2>5. Requests BY <2>2 DEF Requests, Carrying, OneCarries
  <2>6. Vouchers BY <2>1, <2>3 DEF PromoInit, Vouchers, Discounted
  <2>7. \A u, s : Of(u, s) = {} BY <2>1 DEF Of
  <2>8. Careful BY <2>2, <2>7 DEF Careful, Alone, Locks, Pending
  <2>9. ASSUME NEW u \in Buyers
        PROVE  credited[u] + Cardinality(Crediting(u)) = Cardinality(Of(u, "applied") \ unpaid)
    <3>1. Crediting(u) = {} /\ Of(u, "applied") \ unpaid = {} BY <2>2, <2>7 DEF Crediting
    <3>2. credited[u] = 0 BY DEF PromoInit
    <3> QED BY <3>1, <3>2, FS_EmptySet
  <2> QED BY <2>4, <2>5, <2>6, <2>8, <2>9 DEF PromoInv, DaysAsRedeemed, Crediting
<1>2. PromoInv /\ [PromoNext]_promoVars => PromoInv'
  <2> SUFFICES ASSUME PromoInv, [PromoNext]_promoVars PROVE PromoInv'
    OBVIOUS
  <2>1. ASSUME NEW h \in Redeemers, NEW c \in Codes, CloseCode(h, c) PROVE PromoInv'
    BY <2>1, SameBooks DEF CloseCode
  <2>2. ASSUME NEW c \in Codes, CodeLapses(c) PROVE PromoInv' BY <2>2, SameBooks DEF CodeLapses
  <2>3. CASE UNCHANGED promoVars BY <2>3, SameBooks DEF promoVars
  <2> QED BY <2>1, <2>2, <2>3, LockStep, CommitStep, RequestEnds, OrderSteps, ConsumeStep DEF PromoNext
<1> QED BY <1>1, <1>2, PTL DEF PromoSpec

(* For any users, codes and requests: redeem_promo_code_for_user and the    *)
(* credit that follows it give each redemption's days once; only a death    *)
(* between the two loses them.                                              *)
THEOREM DaysAreCreditedOnce == PromoSpec => []DaysAsRedeemed
<1>1. PromoInv => DaysAsRedeemed BY DEF PromoInv
<1> QED BY <1>1, PromoIsInvariant, PTL

(* For any users, codes, requests and payments: a discount is consumed by a *)
(* payment opened with it, and a user whose requests never overlapped has   *)
(* one at a time.                                                           *)
THEOREM DiscountsFollowPayments == PromoSpec => []DiscountFollowsPayment
<1>1. ASSUME PromoInv PROVE DiscountFollowsPayment
  <2>1. \A i \in DOMAIN redemptions : redemptions[i].status = "consumed" =>
            /\ order[redemptions[i].order].discount = i
            /\ order[redemptions[i].order].state = "done"
    BY <1>1 DEF PromoInv, Vouchers, UsedUp
  <2>2. \A o \in Orders : order[o].state = "done" /\ order[o].discount # 0 =>
            redemptions[order[o].discount].status = "consumed"
    BY <1>1 DEF PromoInv, Vouchers, Discounted
  <2>3. ASSUME NEW u \in Buyers \ raced PROVE Cardinality(Pending(u)) <= 1
    <3>1. \A i, j \in Pending(u) : i = j BY <1>1 DEF PromoInv, Careful, Alone
    <3>2. CASE Pending(u) = {}
      <4>1. Cardinality(Pending(u)) = 0 BY <3>2, FS_EmptySet
      <4> QED BY <4>1
    <3>3. CASE Pending(u) # {}
      <4>1. PICK i : Pending(u) = {i} BY <3>1, <3>3
      <4>2. Cardinality(Pending(u)) = 1 BY <4>1, FS_Singleton
      <4> QED BY <4>2
    <3> QED BY <3>2, <3>3
  <2> QED BY <2>1, <2>2, <2>3 DEF DiscountFollowsPayment
<1> QED BY <1>1, PromoIsInvariant, PTL

-----------------------------------------------------------------------------
(* The deletion of a user. *)

(* What is on a node without being excused has a row or will have one, and  *)
(* while devices are removed it is not one of those removed.                *)
Accounted ==
    /\ enabled \ (rows \union adding) \subseteq left \union raised \union refused \union unlisted
    /\ del.step = "remove" =>
          /\ del.todo \union del.off \subseteq rows
          /\ rows \subseteq del.todo \union del.off \union unlisted
          /\ enabled \intersect del.off \subseteq raised \union refused

(* A row of a user who is there has a client, a job that will see to it,    *)
(* has given up or hangs, or its turn to be put back will come.             *)
Covered(d) ==
    \/ d \in enabled \union del.off \union unknown \union cut \union merged
    \/ restores[d] \in {"pending", "running", "failed", "stuck"}
Answered ==
    /\ del.step = "rest" => del.off = {}
    /\ del.step = "finish" => ~account
    /\ adding \subseteq enabled \ rows
    /\ account => \A d \in rows : Covered(d)

DeletionInv == DeletionTypeOK /\ Accounted /\ Answered

LEMMA DeletionInvInit == DeletionInit => DeletionInv
  BY DEF DeletionInit, DeletionInv, DeletionTypeOK, Accounted, Answered, Covered, Resting, AllDevices

(* A step of the deletion's own. *)
Progress == [step : {"rest", "remove", "finish", "undo"}, todo : SUBSET AllDevices,
             off : SUBSET AllDevices]
LEMMA DelFields ==
    ASSUME DeletionTypeOK, NEW d \in AllDevices
    PROVE  LET removed == [del EXCEPT !.todo = @ \ {d}, !.off = @ \union {d}]
               back == [del EXCEPT !.off = @ \ {d}] IN
           /\ removed \in Progress /\ removed.step = del.step
           /\ removed.todo = del.todo \ {d} /\ removed.off = del.off \union {d}
           /\ back \in Progress /\ back.step = del.step
           /\ back.todo = del.todo /\ back.off = del.off \ {d}
           /\ \A step \in {"undo", "finish"} :
                 LET moved == [del EXCEPT !.step = step] IN
                 /\ moved \in Progress /\ moved.step = step
                 /\ moved.todo = del.todo /\ moved.off = del.off
  BY DEF DeletionTypeOK, Progress

LEMMA RemoveStep ==
    ASSUME DeletionInv, NEW d \in AllDevices, RemoveClient(d)
    PROVE  DeletionInv'
<1> USE DEF DeletionInv
<1>1. /\ del.step = "remove" /\ d \in del.todo
      /\ UNCHANGED <<account, rows, job, restores, tries, merged, adding, cut, unlisted, left>>
  BY DEF RemoveClient, Unhanded, jobs
<1>2. d \in rows /\ d \notin adding BY <1>1 DEF Accounted, Answered
<1>3. CASE TakenOff(d) /\ UNCHANGED unknown
  <2>1. /\ del' \in Progress /\ del'.step = "remove" /\ del'.todo = del.todo \ {d}
        /\ del'.off = del.off \union {d} /\ enabled' = enabled \ {d}
        /\ raised' = raised \ {d} /\ refused' = refused \ {d}
    BY <1>1, <1>3, DelFields DEF TakenOff
  <2>2. DeletionTypeOK' BY <1>1, <1>3, <2>1 DEF DeletionTypeOK, Progress
  <2>3. Accounted' BY <1>1, <1>2, <1>3, <2>1 DEF Accounted
  <2>4. \A e : Covered(e) => Covered(e)' BY <1>1, <1>3, <2>1 DEF Covered
  <2> QED BY <1>1, <1>2, <2>1, <2>2, <2>3, <2>4 DEF Answered
<1>4. CASE /\ d \in enabled /\ del' = [del EXCEPT !.todo = @ \ {d}, !.off = @ \union {d}]
           /\ refused' = refused \union {d} /\ UNCHANGED <<enabled, unknown, raised>>
  <2>1. /\ del' \in Progress /\ del'.step = "remove" /\ del'.todo = del.todo \ {d}
        /\ del'.off = del.off \union {d}
    BY <1>1, <1>4, DelFields
  <2>2. DeletionTypeOK' BY <1>1, <1>4, <2>1 DEF DeletionTypeOK, Progress
  <2>3. Accounted' BY <1>1, <1>2, <1>4, <2>1 DEF Accounted
  <2>4. \A e : Covered(e) => Covered(e)' BY <1>1, <1>4, <2>1 DEF Covered
  <2> QED BY <1>1, <1>2, <1>4, <2>1, <2>2, <2>3, <2>4 DEF Answered
<1>5. CASE /\ del' = [del EXCEPT !.step = "undo"] /\ UNCHANGED <<refused, raised>>
           /\ \/ UNCHANGED <<enabled, unknown>>
              \/ enabled' = enabled \ {d} /\ unknown' = unknown \union {d}
  <2>1. del' \in Progress /\ del'.step = "undo" /\ del'.todo = del.todo /\ del'.off = del.off
    BY <1>5, DelFields
  <2>2. DeletionTypeOK' BY <1>1, <1>5, <2>1 DEF DeletionTypeOK, Progress
  <2>3. Accounted' BY <1>1, <1>2, <1>5, <2>1 DEF Accounted
  <2>4. \A e : Covered(e) => Covered(e)' BY <1>1, <1>5, <2>1 DEF Covered
  <2> QED BY <1>1, <1>2, <1>5, <2>1, <2>2, <2>3, <2>4 DEF Answered
<1> QED BY <1>3, <1>4, <1>5 DEF RemoveClient

LEMMA CommitRowsStep ==
    ASSUME DeletionInv, DeleteRows \/ FinishDeletion \/ FailDeletion \/ BeginDeletion
    PROVE  DeletionInv'
<1> USE DEF DeletionInv
<1>1. UNCHANGED <<enabled, restores, tries, merged, adding, unknown, refused, cut, raised, left>>
  BY DEF DeleteRows, FinishDeletion, FailDeletion, BeginDeletion, jobs, history
<1>2. CASE DeleteRows
  <2>1. CASE account' = FALSE /\ rows' = {} /\ del' = [del EXCEPT !.step = "finish"]
    <3>1. /\ del' \in Progress /\ del'.step = "finish" /\ del.step = "remove" /\ del.todo = {}
          /\ UNCHANGED <<job, unlisted>>
      BY <1>2, <2>1, DelFields DEF DeleteRows, DeletionTypeOK, Progress, history
    <3>2. Accounted' BY <1>1, <2>1, <3>1 DEF Accounted
    <3>3. DeletionTypeOK' BY <1>1, <2>1, <3>1 DEF DeletionTypeOK, Progress
    <3> QED BY <1>1, <2>1, <3>1, <3>2, <3>3 DEF Answered
  <2>2. CASE del' = [del EXCEPT !.step = "undo"] /\ UNCHANGED <<account, rows>>
    <3>1. /\ del' \in Progress /\ del'.step = "undo" /\ del'.off = del.off
          /\ UNCHANGED <<job, unlisted>>
      BY <1>2, <2>2, DelFields DEF DeleteRows, DeletionTypeOK, Progress, history
    <3>2. \A d : Covered(d) => Covered(d)' BY <1>1, <3>1 DEF Covered
    <3> QED BY <1>1, <2>2, <3>1, <3>2 DEF DeletionTypeOK, Progress, Accounted, Answered
  <2> QED BY <1>2, <2>1, <2>2 DEF DeleteRows
<1>3. CASE FinishDeletion
  <2>1. /\ UNCHANGED <<account, rows, unlisted>> /\ ~account
        /\ job' \in {"none", "running", "failed", "completed"}
    BY <1>3 DEF FinishDeletion, history, Answered, DeletionTypeOK
  <2>2. /\ del' \in Progress /\ del'.step \in {"rest", "undo"}
        /\ del'.step = "rest" => del'.off = {}
    <3>1. CASE del' = Resting BY <3>1 DEF Resting, Progress
    <3>2. CASE del' = [del EXCEPT !.step = "undo"] BY <3>2 DEF DeletionTypeOK, Progress
    <3> QED BY <1>3, <3>1, <3>2 DEF FinishDeletion
  <2> QED BY <1>1, <2>1, <2>2 DEF DeletionTypeOK, Progress, Accounted, Answered
<1>4. CASE FailDeletion
  <2>1. /\ UNCHANGED <<account, rows, unlisted>> /\ job' = "failed" /\ del' = Resting /\ del.off = {}
    BY <1>4 DEF FailDeletion, history
  <2>2. \A d : Covered(d) => Covered(d)' BY <1>1, <2>1 DEF Covered, Resting
  <2> QED BY <1>1, <2>1, <2>2 DEF DeletionTypeOK, Accounted, Answered, Resting
<1>5. CASE BeginDeletion
  <2>1. /\ UNCHANGED <<account, rows>> /\ unlisted' = unlisted \ rows
        /\ job' = "running" /\ del = Resting
        /\ del' = [step |-> "remove", todo |-> rows, off |-> {}]
    BY <1>5 DEF BeginDeletion
  <2>2. \A d : Covered(d) => Covered(d)' BY <1>1, <2>1 DEF Covered, Resting
  <2> QED BY <1>1, <2>1, <2>2 DEF DeletionTypeOK, Accounted, Answered, Resting
<1> QED BY <1>2, <1>3, <1>4, <1>5

(* A device on its node again without a row, or in the middle of its        *)
(* removal, is one of those raised.                                         *)
LEMMA RaiseKeeps ==
    ASSUME DeletionInv, NEW d \in AllDevices, Raise(d) \/ Unraised,
           UNCHANGED <<rows, adding, refused, unlisted, left>>
    PROVE  /\ enabled \subseteq enabled' /\ enabled' \subseteq AllDevices
           /\ raised' \subseteq AllDevices
           /\ enabled' \ (rows' \union adding') \subseteq left' \union raised' \union refused' \union unlisted'
           /\ del.step = "remove" => enabled' \intersect del.off \subseteq raised' \union refused'
           /\ Raise(d) => d \in enabled'
  BY DEF DeletionInv, DeletionTypeOK, Accounted, Raise, Unraised

LEMMA PutBackStep ==
    ASSUME DeletionInv, NEW d \in AllDevices, PutBack(d)
    PROVE  DeletionInv'
<1> USE DEF DeletionInv
<1>1. /\ del.step = "undo" /\ del' = [del EXCEPT !.off = @ \ {d}]
      /\ UNCHANGED <<account, rows, job, adding, unknown, refused, cut, unlisted, left>>
      /\ Raise(d) \/ Unraised
      /\ (Raise(d) /\ UNCHANGED jobs) \/ Enqueue(d)
  BY DEF PutBack, Undoing
<1>2. del' \in Progress /\ del'.step = "undo" /\ del'.off = del.off \ {d}
  BY <1>1, DelFields
<1>3. /\ restores' \in [AllDevices -> {"none", "pending", "running", "done", "stuck", "failed"}]
      /\ tries' \in [AllDevices -> Nat] /\ merged \subseteq merged' /\ merged' \subseteq AllDevices
      /\ \A e \in AllDevices : e # d => restores'[e] = restores[e]
  BY <1>1 DEF jobs, Enqueue, DeletionTypeOK
<1>4. Raise(d) \/ d \in merged' \/ restores'[d] \in {"pending", "running", "failed", "stuck"}
  BY <1>1 DEF Enqueue, DeletionTypeOK
<1>5. DeletionTypeOK' /\ Accounted'
  BY <1>1, <1>2, <1>3, RaiseKeeps DEF DeletionTypeOK, Progress, Accounted
<1>6. ASSUME NEW e \in rows, Covered(e) PROVE Covered(e)'
  <2>1. e \in AllDevices /\ enabled \subseteq enabled' BY <1>1, RaiseKeeps DEF DeletionTypeOK
  <2>2. CASE e = d BY <1>1, <1>4, <2>2, RaiseKeeps DEF Covered
  <2>3. CASE e # d BY <1>1, <1>2, <1>3, <1>6, <2>1, <2>3 DEF Covered
  <2> QED BY <2>2, <2>3
<1> QED BY <1>1, <1>2, <1>5, <1>6, RaiseKeeps DEF Answered

LEMMA QueueStep ==
    ASSUME DeletionInv, NEW d \in AllDevices, RestoreNext(d) \/ QueueDies
    PROVE  DeletionInv'
<1> USE DEF DeletionInv
<1>1. /\ UNCHANGED <<account, rows, job, del, adding, merged, unknown, refused, cut, unlisted, left>>
      /\ Raise(d) \/ Unraised
  BY DEF RestoreNext, ClaimRestore, RunRestore, CompleteRestore, QueueDies, queueOnly
<1>2. /\ restores' \in [AllDevices -> {"none", "pending", "running", "done", "stuck", "failed"}]
      /\ tries' \in [AllDevices -> Nat]
  BY DEF RestoreNext, ClaimRestore, RunRestore, CompleteRestore, QueueDies, queueOnly, DeletionTypeOK
<1>3. ASSUME NEW e \in AllDevices, restores[e] \in {"pending", "running", "failed", "stuck"}
      PROVE  restores'[e] \in {"pending", "running", "failed", "stuck"} \/ e \in enabled'
  <2>1. CASE RunRestore(d) /\ Raise(d)
    BY <1>3, <2>1 DEF RunRestore, Raise, DeletionTypeOK
  <2>2. CASE RunRestore(d) /\ ~Raise(d)
    BY <1>3, <2>2 DEF RunRestore, DeletionTypeOK
  <2>3. CASE ClaimRestore(d) \/ CompleteRestore(d) \/ QueueDies
    BY <1>3, <2>3 DEF ClaimRestore, CompleteRestore, QueueDies, DeletionTypeOK
  <2> QED BY <2>1, <2>2, <2>3 DEF RestoreNext
<1>4. DeletionTypeOK' /\ Accounted'
  BY <1>1, <1>2, RaiseKeeps DEF DeletionTypeOK, Accounted
<1>5. ASSUME NEW e \in rows, Covered(e) PROVE Covered(e)'
  <2>1. e \in AllDevices /\ enabled \subseteq enabled' BY <1>1, RaiseKeeps DEF DeletionTypeOK
  <2> QED BY <1>1, <1>3, <1>5, <2>1 DEF Covered
<1> QED BY <1>1, <1>4, <1>5, RaiseKeeps DEF Answered

LEMMA DeathOfDeletion ==
    ASSUME DeletionInv, DeletionDies
    PROVE  DeletionInv'
<1> USE DEF DeletionInv
<1>1. /\ UNCHANGED <<account, rows, job, restores, tries, merged, adding, unknown, refused, raised, unlisted, left>>
      /\ del' = Resting
  BY DEF DeletionDies, jobs
<1>2. PICK gone : /\ enabled' = enabled \ gone /\ cut' = cut \union del.off \union gone
                  /\ gone \subseteq {e \in del.todo : Unhanded(e)}
  BY DEF DeletionDies
<1>3. gone \subseteq rows /\ gone \subseteq AllDevices
  <2>1. ASSUME NEW e \in gone PROVE e \in rows BY <1>2, <2>1 DEF Unhanded, Accounted
  <2> QED BY <2>1 DEF DeletionTypeOK
<1>4. \A e : Covered(e) => Covered(e)' BY <1>1, <1>2 DEF Covered
<1>5. DeletionTypeOK' BY <1>1, <1>2, <1>3 DEF DeletionTypeOK, Resting
<1> QED BY <1>1, <1>2, <1>3, <1>4, <1>5 DEF Accounted, Answered, Resting

LEMMA NewDeviceStep ==
    ASSUME DeletionInv, NEW d \in NewDevices, AddClient(d) \/ AddRow(d)
    PROVE  DeletionInv'
<1> USE DEF DeletionInv
<1>1. /\ UNCHANGED <<account, job, restores, tries, merged, del, unknown, refused, cut, raised>>
      /\ d \in AllDevices
  BY DEF AddClient, AddRow, jobs, history, AllDevices
<1>2. CASE AddClient(d)
  <2>1. /\ d \notin rows /\ adding' = adding \union {d} /\ enabled' = enabled \union {d}
        /\ UNCHANGED <<rows, unlisted, left>>
    BY <1>2 DEF AddClient, history
  <2>2. \A e : Covered(e) => Covered(e)' BY <1>1, <2>1 DEF Covered
  <2> QED BY <1>1, <2>1, <2>2 DEF DeletionTypeOK, Accounted, Answered
<1>3. CASE AddRow(d)
  <2>1. d \in adding /\ d \in enabled /\ d \notin rows /\ adding' = adding \ {d}
    BY <1>3 DEF AddRow, Answered
  <2>2. CASE /\ account /\ rows' = rows \union {d} /\ UNCHANGED <<enabled, left>>
             /\ unlisted' = IF del.step = "remove" THEN unlisted \union {d} ELSE unlisted
    <3>1. \A e : Covered(e) => Covered(e)' BY <1>1, <2>2 DEF Covered
    <3>2. Covered(d)' BY <2>1, <2>2 DEF Covered
    <3> QED BY <1>1, <2>1, <2>2, <3>1, <3>2 DEF DeletionTypeOK, Accounted, Answered
  <2>3. CASE enabled' = enabled \ {d} /\ UNCHANGED <<rows, unlisted, left>>
    <3>1. \A e \in rows : Covered(e) => Covered(e)' BY <1>1, <2>1, <2>3 DEF Covered
    <3> QED BY <1>1, <2>1, <2>3, <3>1 DEF DeletionTypeOK, Accounted, Answered
  <2>4. CASE left' = left \union {d} /\ UNCHANGED <<rows, enabled, unlisted>>
    <3>1. \A e : Covered(e) => Covered(e)' BY <1>1, <2>4 DEF Covered
    <3> QED BY <1>1, <2>1, <2>4, <3>1 DEF DeletionTypeOK, Accounted, Answered
  <2> QED BY <1>3, <2>2, <2>3, <2>4 DEF AddRow
<1> QED BY <1>2, <1>3

LEMMA DeletionInvNext == DeletionInv /\ [DeletionNext]_deletionVars => DeletionInv'
<1> SUFFICES ASSUME DeletionInv, [DeletionNext]_deletionVars PROVE DeletionInv'
  OBVIOUS
<1>1. CASE QueueDies
  <2>1. PICK d \in AllDevices : restores[d] \in {"running", "done"} BY <1>1 DEF QueueDies
  <2> QED BY <1>1, <2>1, QueueStep
<1>2. CASE UNCHANGED deletionVars
  <2>1. UNCHANGED <<account, rows, enabled, job, restores, tries, merged, del, adding,
                    unknown, refused, cut, raised, unlisted, left>>
    BY <1>2 DEF deletionVars, jobs, history
  <2>2. \A d : Covered(d) => Covered(d)' BY <2>1 DEF Covered
  <2> QED BY <2>1, <2>2 DEF DeletionInv, DeletionTypeOK, Accounted, Answered
<1> QED BY <1>1, <1>2, RemoveStep, CommitRowsStep, PutBackStep, QueueStep, DeathOfDeletion, NewDeviceStep
        DEF DeletionNext

LEMMA DeletionInvHolds == DeletionSpec => []DeletionInv
  BY DeletionInvInit, DeletionInvNext, PTL DEF DeletionSpec

(* Whatever fails, dies, is refused or created meanwhile, a client without  *)
(* a row is one of the five kinds the property names: no failed call, no    *)
(* undoing and no death leaves another (delete_user_with_access).           *)
THEOREM OrphansAreExplained == DeletionSpec => []OrphansExplained
<1>1. DeletionInv => OrphansExplained
  BY DEF DeletionInv, Accounted, OrphansExplained
<1> QED BY <1>1, DeletionInvHolds, PTL

(* A deletion reported as failed has each device back, or its restore job   *)
(* will be run, was given up or hangs - for any number of devices, faults,  *)
(* attempts and deaths, but for the devices the property names              *)
(* (_enqueue_device_compensation_job, _release_device_compensation_job).    *)
THEOREM FailedDeletionsAreUndone == DeletionSpec => []FailedDeletionUndone
<1>1. DeletionInv => FailedDeletionUndone
  BY DEF DeletionInv, Answered, Covered, FailedDeletionUndone, Resting
<1> QED BY <1>1, DeletionInvHolds, PTL

-----------------------------------------------------------------------------
(* The configuration of the Xray node.  As long as nobody has met another   *)
(* at the file, one task at most is at work; what it carries is what it     *)
(* wants of the configuration as it is, and once written the temporary file *)
(* is that.                                                                 *)
Whole(s) == s = [step |-> s.step, mail |-> s.mail, on |-> s.on, conf |-> s.conf,
                 lease |-> s.lease, lines |-> s.lines]
OneSaver == \A t, u \in Tasks : saver[t] # Away /\ saver[u] # Away => t = u
Brings(t) ==
    /\ saver[t].step \in {"write", "swap"} =>
          saver[t].conf = IF t = Enforcer THEN [config EXCEPT !.rules = Rules(saver[t].lease)]
                          ELSE Upserted(saver[t].mail, saver[t].on)
    /\ saver[t].step = "swap" => tmp = saver[t].conf
    /\ saver[t].step = "file" => t = Enforcer /\ config.rules = Rules(saver[t].lease)
RulesFiled == ~ahead => config.rules = Rules(lease)

Undisturbed ==
    /\ config = [clients |-> config.clients, rules |-> config.rules]
    /\ saver = [t \in Tasks |-> saver[t]] /\ \A t \in Tasks : Whole(saver[t])
    /\ ahead \in BOOLEAN
    /\ config.clients \ unsure = wanted \ unsure
    /\ OneSaver /\ RulesFiled /\ \A t \in Tasks : Brings(t)
NodeInv == ~overlapped => Undisturbed

LEMMA NodeInvInit == NodeInit => NodeInv
<1> SUFFICES ASSUME NodeInit PROVE Undisturbed
  BY DEF NodeInv
<1>1. \A t \in Tasks : saver[t] = Away BY DEF NodeInit
<1>2. \A t \in Tasks : Whole(saver[t]) /\ Brings(t) BY <1>1 DEF Whole, Away, Brings
<1>3. RulesFiled
  <2>1. \A m \in Mails : {a \in Addresses : NoLease[m][a] # 0} = {} BY DEF NoLease
  <2> QED BY <2>1 DEF NodeInit, RulesFiled, Rules
<1> QED BY <1>1, <1>2, <1>3 DEF NodeInit, Undisturbed, OneSaver

(* The step of one task, and what is left to show of it. *)
LEMMA TaskStep ==
    ASSUME Undisturbed, NEW t \in Tasks, NEW s, Whole(s), ahead' \in BOOLEAN,
           saver' = [saver EXCEPT ![t] = s],
           \A u \in Tasks \ {t} : saver[u] = Away,
           config' = [clients |-> config'.clients, rules |-> config'.rules],
           config'.clients \ unsure' = wanted' \ unsure',
           Brings(t)', RulesFiled'
    PROVE  Undisturbed'
<1>1. /\ saver' = [u \in Tasks |-> saver'[u]] /\ saver'[t] = s
      /\ \A u \in Tasks \ {t} : saver'[u] = Away
  BY DEF Undisturbed
<1>2. OneSaver' BY <1>1 DEF OneSaver
<1>3. \A u \in Tasks : Brings(u)'
  BY <1>1 DEF Brings, Away
<1>4. \A u \in Tasks : Whole(saver'[u]) BY <1>1 DEF Whole, Away
<1> QED BY <1>1, <1>2, <1>3, <1>4 DEF Undisturbed

LEMMA OthersAway ==
    ASSUME Undisturbed, NEW t \in Tasks, saver[t] # Away
    PROVE  \A u \in Tasks \ {t} : saver[u] = Away
  BY DEF Undisturbed, OneSaver

LEMMA LoadStep ==
    ASSUME Undisturbed, ~overlapped', NEW t \in Savers, NEW m, NEW on \in BOOLEAN,
           NEW provision \in BOOLEAN, LoadConfig(t, m, on, provision)
    PROVE  Undisturbed'
<1> USE NodeAssumption
<1>1. t \in Tasks /\ t # Enforcer /\ saver[t] = Away BY DEF LoadConfig, Tasks, NodeAssumption
<1>2. UNCHANGED <<config, tmp, lease, ahead>> BY DEF LoadConfig
<1>3. CASE Ordered(m, on) /\ UNCHANGED <<saver, overlapped>> /\ Upserted(m, on) = config
  <2>1. config.clients = IF on THEN config.clients \union {m} ELSE config.clients \ {m}
    BY <1>3 DEF Upserted, Undisturbed
  <2>2. config.clients \ unsure' = wanted' \ unsure'
    BY <1>3, <2>1 DEF Ordered, Undisturbed
  <2>3. \A u \in Tasks : Brings(u)' BY <1>2, <1>3 DEF Undisturbed, Brings, Upserted
  <2> QED BY <1>2, <1>3, <2>2, <2>3 DEF Undisturbed, OneSaver, RulesFiled
<1>4. CASE /\ Enter(t, [Away EXCEPT !.step = "write", !.mail = m, !.on = on, !.conf = Upserted(m, on)])
           /\ UNCHANGED <<wanted, unsure>>
  <2> DEFINE s == [Away EXCEPT !.step = "write", !.mail = m, !.on = on, !.conf = Upserted(m, on)]
  <2>1. saver' = [saver EXCEPT ![t] = s] /\ \A u \in Tasks \ {t} : saver[u] = Away
    BY <1>4 DEF Enter
  <2> HIDE DEF s
  <2>2. /\ Whole(s) /\ s.step = "write" /\ s.mail = m /\ s.on = on
        /\ s.conf = Upserted(m, on)
    <3>1. s = [Away EXCEPT !.step = "write", !.mail = m, !.on = on, !.conf = Upserted(m, on)]
      BY DEF s
    <3> QED BY <3>1 DEF Whole, Away
  <2>3. saver'[t] = s /\ saver'[Enforcer] = saver[Enforcer]
    BY <1>1, <2>1 DEF Undisturbed, Tasks
  <2>4. Brings(t)' BY <1>1, <1>2, <2>3, <2>2 DEF Brings, Upserted
  <2>5. RulesFiled' BY <1>2, <2>3 DEF RulesFiled, Undisturbed
  <2> QED BY <1>1, <1>2, <1>4, <2>1, <2>4, <2>5, <2>2, TaskStep DEF Undisturbed
<1> QED BY <1>3, <1>4 DEF LoadConfig

LEMMA EnforceStep ==
    ASSUME Undisturbed, ~overlapped', Enforce
    PROVE  Undisturbed'
<1> DEFINE f == [m \in Mails |-> Renewed(m)]
           c == [config EXCEPT !.rules = Rules(f)]
           s == [Away EXCEPT !.step = IF c = config THEN "file" ELSE "write",
                             !.conf = c, !.lease = f, !.lines = Len(log)]
<1>1. /\ Enforcer \in Tasks /\ saver[Enforcer] = Away
      /\ UNCHANGED <<config, tmp, wanted, unsure, lease, log, ahead>>
      /\ saver' = [saver EXCEPT ![Enforcer] = s]
      /\ \A u \in Tasks \ {Enforcer} : saver[u] = Away
  BY DEF Enforce, Enter, Tasks
<1> HIDE DEF f, s
<1>2. /\ Whole(s) /\ s.step = (IF c = config THEN "file" ELSE "write")
      /\ s.conf = c /\ s.lease = f
  <2>1. s = [Away EXCEPT !.step = IF c = config THEN "file" ELSE "write",
                         !.conf = c, !.lease = f, !.lines = Len(log)]
    BY DEF s
  <2> HIDE DEF c
  <2> QED BY <2>1 DEF Whole, Away
<1>3. saver'[Enforcer] = s BY <1>1 DEF Undisturbed
<1>4. c = config => config.rules = Rules(f)
  <2>1. c.rules = Rules(f)
    <3>1. c = [config EXCEPT !.rules = Rules(f)] BY DEF c
    <3> HIDE DEF c
    <3> QED BY <3>1 DEF Undisturbed
  <2> QED BY <2>1
<1>5. Brings(Enforcer)'
  <2>1. s.step = "write" \/ s.step = "file" BY <1>2
  <2>2. s.step = "file" => config'.rules = Rules(s.lease) BY <1>1, <1>2, <1>4
  <2> QED BY <1>1, <1>2, <1>3, <2>1, <2>2 DEF Brings
<1>6. RulesFiled' BY <1>1 DEF Undisturbed, RulesFiled
<1> QED BY <1>1, <1>2, <1>5, <1>6, TaskStep DEF Undisturbed

(* What a task at work writes, swaps, files or leaves. *)
LEMMA WorkStep ==
    ASSUME Undisturbed, NEW t \in Tasks, WriteTmp(t) \/ Stop(t)
    PROVE  Undisturbed'
<1>1. saver[t] # Away
  BY DEF WriteTmp, Stop, Away
<1>2. \A u \in Tasks \ {t} : saver[u] = Away BY <1>1, OthersAway
<1>3. Enforcer \in Tasks BY DEF Tasks
<1>4. CASE WriteTmp(t)
  <2> DEFINE s == [saver[t] EXCEPT !.step = "swap"]
  <2>1. saver' = [saver EXCEPT ![t] = s] /\ UNCHANGED <<config, wanted, unsure, lease, ahead>>
    BY <1>4 DEF WriteTmp, Undisturbed
  <2>2. tmp' = saver[t].conf /\ saver[t].step = "write" BY <1>4 DEF WriteTmp
  <2> HIDE DEF s
  <2>3. /\ Whole(s) /\ s.step = "swap" /\ s.conf = saver[t].conf /\ s.mail = saver[t].mail
        /\ s.on = saver[t].on /\ s.lease = saver[t].lease
    <3>1. s = [saver[t] EXCEPT !.step = "swap"] /\ Whole(saver[t]) BY DEF s, Undisturbed
    <3> QED BY <3>1 DEF Whole
  <2>4. saver'[t] = s /\ \A u \in Tasks \ {t} : saver'[u] = saver[u] BY <2>1 DEF Undisturbed
  <2>5. Brings(t)' BY <2>1, <2>2, <2>3, <2>4 DEF Brings, Upserted, Undisturbed, Rules
  <2>6. RulesFiled' BY <1>3, <2>1, <2>2, <2>3, <2>4 DEF RulesFiled, Undisturbed
  <2> QED BY <1>2, <2>1, <2>3, <2>5, <2>6, TaskStep DEF Undisturbed
<1>5. CASE Stop(t)
  <2>1. /\ saver' = [saver EXCEPT ![t] = Away] /\ UNCHANGED <<config, tmp, wanted, unsure, lease, ahead>>
    BY <1>5 DEF Stop
  <2>2. saver'[t] = Away BY <2>1 DEF Undisturbed
  <2>3. Brings(t)' BY <2>2 DEF Brings, Away
  <2>4. RulesFiled' BY <2>1 DEF RulesFiled, Undisturbed
  <2>5. Whole(Away) BY DEF Whole, Away
  <2> QED BY <1>2, <2>1, <2>3, <2>4, <2>5, TaskStep DEF Undisturbed
<1> QED BY <1>4, <1>5

LEMMA FileStep ==
    ASSUME Undisturbed, FileLeases
    PROVE  Undisturbed'
<1>1. saver[Enforcer] # Away /\ Enforcer \in Tasks BY DEF FileLeases, Away, Tasks
<1>2. \A u \in Tasks \ {Enforcer} : saver[u] = Away BY <1>1, OthersAway
<1>3. /\ saver' = [saver EXCEPT ![Enforcer] = Away] /\ lease' = saver[Enforcer].lease
      /\ UNCHANGED <<config, tmp, wanted, unsure>> /\ ahead' = FALSE
  BY DEF FileLeases
<1>4. saver'[Enforcer] = Away BY <1>1, <1>3 DEF Undisturbed
<1>5. Brings(Enforcer)' BY <1>4 DEF Brings, Away
<1>6. RulesFiled'
  <2>1. config.rules = Rules(saver[Enforcer].lease)
    BY <1>1 DEF FileLeases, Undisturbed, Brings
  <2> QED BY <1>3, <2>1 DEF RulesFiled, Rules
<1>7. Whole(Away) BY DEF Whole, Away
<1> QED BY <1>1, <1>2, <1>3, <1>5, <1>6, <1>7, TaskStep DEF Undisturbed

(* The temporary file takes the place of the configuration. *)
LEMMA SwapStep ==
    ASSUME Undisturbed, NEW t \in Tasks, Swap(t) \/ RestartFails(t)
    PROVE  Undisturbed'
<1> DEFINE s == saver[t]
<1>1. s.step = "swap" /\ s # Away /\ Replace(t) BY DEF Swap, RestartFails, Away
<1>2. \A u \in Tasks \ {t} : saver[u] = Away BY <1>1, OthersAway
<1>3. /\ Enforcer \in Tasks /\ Whole(Away) /\ Whole(s) /\ tmp = s.conf
      /\ s.conf = IF t = Enforcer THEN [config EXCEPT !.rules = Rules(s.lease)]
                  ELSE Upserted(s.mail, s.on)
      /\ Enforcer # t => saver[Enforcer].step = "away"
  <2>1. Enforcer \in Tasks BY DEF Tasks
  <2>2. Whole(Away) /\ Whole(s) BY DEF Whole, Away, Undisturbed
  <2>3. /\ tmp = s.conf
        /\ s.conf = IF t = Enforcer THEN [config EXCEPT !.rules = Rules(s.lease)]
                    ELSE Upserted(s.mail, s.on)
    BY <1>1 DEF Undisturbed, Brings
  <2>4. Enforcer # t => saver[Enforcer].step = "away" BY <1>2, <2>1 DEF Away
  <2> QED BY <2>1, <2>2, <2>3, <2>4
<1>4. lease' = lease BY <1>1 DEF Replace
<1>5. /\ tmp = [clients |-> tmp.clients, rules |-> tmp.rules]
      /\ t = Enforcer => tmp.clients = config.clients /\ tmp.rules = Rules(s.lease)
      /\ t # Enforcer => /\ tmp.rules = config.rules
                         /\ tmp.clients = IF s.on THEN config.clients \union {s.mail}
                                          ELSE config.clients \ {s.mail}
  <2>1. CASE t = Enforcer
    <3>1. tmp = [config EXCEPT !.rules = Rules(s.lease)] BY <1>3, <2>1
    <3> QED BY <2>1, <3>1 DEF Undisturbed
  <2>2. CASE t # Enforcer
    <3>1. tmp = [config EXCEPT !.clients = IF s.on THEN config.clients \union {s.mail}
                                          ELSE config.clients \ {s.mail}]
      BY <1>3, <2>2 DEF Upserted, Undisturbed
    <3> QED BY <2>2, <3>1 DEF Undisturbed
  <2> QED BY <2>1, <2>2
<1>6. config' = [clients |-> config'.clients, rules |-> config'.rules]
  BY <1>1, <1>5 DEF Replace, Undisturbed
<1>7. config'.clients \ unsure' = wanted' \ unsure'
  <2>1. config.clients \ unsure = wanted \ unsure BY DEF Undisturbed
  <2>2. CASE tmp = NoFile \/ t = Enforcer
    <3>1. config'.clients = config.clients BY <1>1, <1>5, <2>2 DEF Replace
    <3>2. UNCHANGED <<wanted, unsure>> BY <2>2 DEF Swap, RestartFails
    <3> QED BY <2>1, <3>1, <3>2
  <2>3. CASE tmp # NoFile /\ t # Enforcer
    <3>1. config' = tmp BY <1>1, <2>3 DEF Replace
    <3>2. CASE Ordered(s.mail, s.on) BY <1>5, <2>1, <2>3, <3>1, <3>2 DEF Ordered
    <3>3. CASE unsure' = unsure \union {s.mail} /\ UNCHANGED wanted
      BY <1>5, <2>1, <2>3, <3>1, <3>3
    <3> QED BY <2>3, <3>2, <3>3 DEF Swap, RestartFails
  <2> QED BY <2>2, <2>3
<1>11. RulesFiled'
  <2> SUFFICES ASSUME ~ahead' PROVE config'.rules = Rules(lease')
    BY DEF RulesFiled, Rules
  <2>1. ~ahead /\ (t # Enforcer \/ tmp = NoFile) BY <1>1 DEF Replace
  <2>2. config.rules = Rules(lease) BY <2>1 DEF Undisturbed, RulesFiled
  <2>3. config'.rules = config.rules BY <1>1, <1>5, <2>1 DEF Replace
  <2> QED BY <1>4, <2>2, <2>3 DEF Rules
<1>8. CASE saver' = [saver EXCEPT ![t] = Away]
  <2>1. saver'[t] = Away BY <1>8 DEF Undisturbed
  <2>2. Brings(t)' BY <2>1 DEF Brings, Away
  <2>3. ahead' \in BOOLEAN BY <1>1 DEF Replace, Undisturbed
  <2>4. RulesFiled' BY <1>11
  <2> QED BY <1>2, <1>3, <1>6, <1>7, <1>8, <2>2, <2>3, <2>4, TaskStep
<1>9. CASE /\ t = Enforcer /\ tmp # NoFile
           /\ saver' = [saver EXCEPT ![t] = [s EXCEPT !.step = "file"]]
  <2> DEFINE w == [s EXCEPT !.step = "file"]
  <2>1. saver' = [saver EXCEPT ![t] = w] BY <1>9
  <2> HIDE DEF w
  <2>2. Whole(w) /\ w.step = "file" /\ w.lease = s.lease
    <3>1. w = [s EXCEPT !.step = "file"] BY DEF w
    <3> QED BY <1>3, <3>1 DEF Whole
  <2>3. saver'[t] = w BY <2>1 DEF Undisturbed
  <2>4. config'.rules = Rules(s.lease) BY <1>1, <1>5, <1>9 DEF Replace
  <2>5. Brings(t)' BY <1>9, <2>2, <2>3, <2>4 DEF Brings, Rules
  <2>6. RulesFiled' BY <1>11
  <2>7. ahead' \in BOOLEAN BY <1>1 DEF Replace, Undisturbed
  <2> QED BY <1>2, <1>6, <1>7, <2>1, <2>2, <2>5, <2>6, <2>7, TaskStep
<1>10. CASE Swap(t)
  BY <1>8, <1>9, <1>10 DEF Swap
<1>12. CASE RestartFails(t)
  BY <1>8, <1>12 DEF RestartFails
<1> QED BY <1>10, <1>12

LEMMA NodeInvNext == NodeInv /\ [NodeNext]_nodeVars => NodeInv'
<1> SUFFICES ASSUME NodeInv, [NodeNext]_nodeVars, ~overlapped' PROVE Undisturbed'
  BY DEF NodeInv
<1>1. Undisturbed
  BY DEF NodeInv, NodeNext, nodeVars, LoadConfig, Enter, Enforce, WriteTmp, Swap, Replace,
         RestartFails, Stop, FileLeases, Elapse, Connect
<1>2. ASSUME NEW t \in Savers, NEW m \in Mails, NEW on \in BOOLEAN, NEW provision \in BOOLEAN,
             LoadConfig(t, m, on, provision)
      PROVE  Undisturbed'
  BY <1>1, <1>2, LoadStep
<1>3. ASSUME NEW t \in Tasks, WriteTmp(t) \/ Swap(t) \/ RestartFails(t) \/ Stop(t)
      PROVE  Undisturbed'
  BY <1>1, <1>3, WorkStep, SwapStep
<1>4. CASE Enforce BY <1>1, <1>4, EnforceStep
<1>5. CASE FileLeases BY <1>1, <1>5, FileStep
<1>6. ASSUME Elapse \/ (\E m \in Mails, a \in Addresses : Connect(m, a)) \/ UNCHANGED nodeVars
      PROVE  Undisturbed'
  <2>1. UNCHANGED <<config, tmp, wanted, unsure, saver, lease, ahead>>
    BY <1>6 DEF Elapse, Connect, nodeVars
  <2>2. \A t \in Tasks : Brings(t)' BY <1>1, <2>1 DEF Undisturbed, Brings, Upserted, Rules
  <2>3. RulesFiled' BY <1>1, <2>1 DEF Undisturbed, RulesFiled, Rules
  <2> QED BY <1>1, <2>1, <2>2, <2>3 DEF Undisturbed, OneSaver
<1> QED BY <1>2, <1>3, <1>4, <1>5, <1>6 DEF NodeNext

(* For any clients, tasks and stops: as long as no two tasks meet at the    *)
(* file, it has the clients the successful saves have left, an e-mail whose *)
(* last save raised behind the replace apart, and - unless the enforcer has *)
(* replaced it and failed before the leases, and no pass has gone through   *)
(* since - the rules of the leases on file (_save_state, run_once).         *)
THEOREM TheFileIsAsOrdered == NodeSpec => []ConfigAsOrdered
<1>1. NodeInv => ConfigAsOrdered
  <2> SUFFICES ASSUME NodeInv, ~overlapped, \A t \in Tasks : saver[t] = Away
               PROVE  /\ config.clients \ unsure = wanted \ unsure
                      /\ ~ahead => config.rules = Rules(lease)
    BY DEF ConfigAsOrdered
  <2> QED BY DEF NodeInv, Undisturbed, RulesFiled
<1> QED BY <1>1, NodeInvInit, NodeInvNext, PTL DEF NodeSpec

-----------------------------------------------------------------------------
(* The watchdog.  Between the commit of an event and the note of the        *)
(* incident the control bot is ahead of the pass's memory, for the node in  *)
(* hand; users are ahead from their message on.                             *)
Shaped(p) == p = [step |-> p.step, todo |-> p.todo, seen |-> p.seen, incidents |-> p.incidents,
                  pending |-> p.pending, over |-> p.over, sent |-> p.sent]
InHand == {"event", "commit", "users", "note"}
WatchTypeOK ==
    /\ incidents \in [Nodes -> Kinds \union {"none"}]
    /\ health \in [Nodes -> Kinds \union {"ok", "gone"}]
    /\ Shaped(pass) /\ pass.todo \subseteq Nodes
    /\ pass.seen \in [Nodes -> Kinds \union {"none", "ok", "gone"}]
    /\ pass.incidents \in [Nodes -> Kinds \union {"none"}]
    /\ pass.step \in {"asleep", "look"} \union InHand
    /\ pass.step = "asleep" => pass = Asleep
    /\ pass.step = "look" => pass.over = FALSE
    /\ pass.step \in InHand =>
          /\ pass.todo # {} /\ pass.over \in BOOLEAN
          /\ IF pass.over THEN Incident \in Kinds ELSE Seen \in Kinds /\ Incident # Seen

HeldOn(n) == IF pass.step = "asleep" THEN incidents[n] ELSE pass.incidents[n]
After == IF pass.over THEN "none" ELSE Seen
Changes == Incident # "none" /\ ~pass.over
Alarms(n, inc) ==
    IF n \in Muted THEN n \notin shifted => (<<n, "down", "alarm">> \in open <=> inc = "down")
    ELSE \A k \in Kinds : <<n, k, "alarm">> \in open <=> inc = k
Informed(n, inc) == n \notin shifted => (n \in told <=> inc = "down")

Alarmed ==
    \A n \in Nodes \ astray :
        IF pass.step \in {"users", "note"} /\ n = N
        THEN (n \in Muted /\ Changes) \/ Alarms(n, After)
        ELSE Alarms(n, HeldOn(n))
Expected ==
    \A n \in Nodes \ astray :
        IF pass.step = "note" /\ n = N THEN Changes \/ Informed(n, After) ELSE Informed(n, HeldOn(n))
WatchInv ==
    /\ WatchTypeOK /\ Alarmed /\ Expected
    /\ pass.step = "commit" => ~Unheard

LEMMA ShapedAsleep == Shaped(Asleep) /\ Asleep.step = "asleep" /\ Asleep.todo = {}
  BY DEF Shaped, Asleep

LEMMA WatchInvInit == WatchInit => WatchInv
<1> SUFFICES ASSUME WatchInit PROVE WatchInv
  OBVIOUS
<1>1. WatchTypeOK
  BY ShapedAsleep DEF WatchInit, WatchTypeOK, Asleep, Calm, InHand
<1>2. Alarmed /\ Expected
  BY DEF WatchInit, Alarmed, Expected, Alarms, Informed, HeldOn, Asleep, Calm, Kinds
<1> QED BY <1>1, <1>2 DEF WatchInv, WatchInit, Asleep

(* The node in hand is one of those to do. *)
LEMMA NIsToDo == ASSUME WatchTypeOK, pass.todo # {} PROVE N \in pass.todo /\ N \in Nodes
  BY MinIsLeast, WatchAssumption DEF WatchTypeOK, WatchAssumption, N

(* One more look, at a node or past it: the pass's memory does not change. *)
LEMMA LookStep ==
    ASSUME WatchInv, LookWell \/ LookBad \/ LookAgain
    PROVE  WatchInv'
<1> USE DEF WatchInv
<1>1. pass.step = "look" /\ pass.todo # {} /\ OnlyPass
  BY DEF LookWell, LookBad, LookAgain, Looking
<1>2. N \in Nodes /\ Shaped(pass) BY <1>1, NIsToDo DEF WatchTypeOK
<1>3. ASSUME NEW p, NEW q, Shaped(p), p.todo = pass.todo, p.seen = pass.seen,
             p.incidents = pass.incidents, q = Done(p)
      PROVE  /\ Shaped(q) /\ q.step = "look" /\ q.todo = pass.todo \ {N} /\ q.seen = pass.seen
             /\ q.incidents = pass.incidents /\ q.over = FALSE
  BY <1>3 DEF Shaped, Done
<1>4. /\ Shaped(pass') /\ pass'.seen = pass.seen /\ pass'.incidents = pass.incidents
      /\ \/ pass'.step = "look" /\ pass'.todo = pass.todo \ {N} /\ pass'.over = FALSE
         \/ /\ pass'.step = "event" /\ pass'.todo = pass.todo /\ pass'.over \in BOOLEAN
            /\ IF pass'.over THEN Incident \in Kinds ELSE Seen \in Kinds /\ Incident # Seen
  <2>1. CASE LookWell
    <3> DEFINE p == [pass EXCEPT !.pending[N] = Uncounted]
    <3>1. \/ pass' = Done(p)
          \/ Incident # "none" /\ pass' = [p EXCEPT !.step = "event", !.over = TRUE]
      BY <2>1 DEF LookWell
    <3> HIDE DEF p
    <3>2. /\ Shaped(p) /\ p.todo = pass.todo /\ p.seen = pass.seen
          /\ p.incidents = pass.incidents
      <4>1. p = [pass EXCEPT !.pending[N] = Uncounted] BY DEF p
      <4> QED BY <1>2, <4>1 DEF Shaped
    <3>3. CASE pass' = Done(p) BY <1>3, <3>2, <3>3
    <3>4. CASE Incident # "none" /\ pass' = [p EXCEPT !.step = "event", !.over = TRUE]
      <4>1. /\ Shaped(pass') /\ pass'.step = "event" /\ pass'.over = TRUE /\ pass'.todo = p.todo
            /\ pass'.seen = p.seen /\ pass'.incidents = p.incidents
        BY <3>2, <3>4 DEF Shaped
      <4>2. Incident \in Kinds BY <1>2, <3>4 DEF WatchTypeOK, Incident
      <4> QED BY <3>2, <4>1, <4>2
    <3> QED BY <3>1, <3>3, <3>4
  <2>2. CASE LookBad
    <3> DEFINE p == [pass EXCEPT !.pending[N] = Advanced(@, Seen)]
    <3>1. /\ pass' = Done(p) \/ pass' = [p EXCEPT !.step = "event"]
          /\ Seen \in Kinds /\ Incident = "none"
      BY <2>2 DEF LookBad
    <3> HIDE DEF p
    <3>2. /\ Shaped(p) /\ p.todo = pass.todo /\ p.seen = pass.seen
          /\ p.incidents = pass.incidents /\ p.over = pass.over
      <4>1. p = [pass EXCEPT !.pending[N] = Advanced(@, Seen)] BY DEF p
      <4> QED BY <1>2, <4>1 DEF Shaped
    <3>3. CASE pass' = Done(p) BY <1>3, <3>2, <3>3
    <3>4. CASE pass' = [p EXCEPT !.step = "event"]
      <4>1. /\ Shaped(pass') /\ pass'.step = "event" /\ pass'.over = p.over /\ pass'.todo = p.todo
            /\ pass'.seen = p.seen /\ pass'.incidents = p.incidents
        BY <3>2, <3>4 DEF Shaped
      <4> QED BY <1>1, <3>1, <3>2, <4>1 DEF WatchTypeOK, Kinds
    <3> QED BY <3>1, <3>3, <3>4
  <2>3. CASE LookAgain
    <3>1. /\ Seen \in Kinds
          /\ \/ pass' = Done(pass)
             \/ Seen # Incident /\ pass' = [pass EXCEPT !.step = "event"]
      BY <2>3 DEF LookAgain
    <3>2. CASE pass' = Done(pass) BY <1>2, <1>3, <3>2
    <3>3. CASE Seen # Incident /\ pass' = [pass EXCEPT !.step = "event"]
      <4>1. /\ Shaped(pass') /\ pass'.step = "event" /\ pass'.over = pass.over
            /\ pass'.todo = pass.todo /\ pass'.seen = pass.seen /\ pass'.incidents = pass.incidents
        BY <1>2, <3>3 DEF Shaped
      <4> QED BY <1>1, <3>1, <3>3, <4>1 DEF WatchTypeOK
    <3> QED BY <3>1, <3>2, <3>3
  <2> QED BY <2>1, <2>2, <2>3
<1>5. pass'.step = "event" => N' = N /\ Incident' = Incident /\ Seen' = Seen
  BY <1>4 DEF N, Incident, Seen
<1>6. WatchTypeOK'
  BY <1>1, <1>4, <1>5 DEF WatchTypeOK, OnlyPass, world, file, InHand
<1>7. /\ pass'.step \in {"look", "event"} /\ pass'.incidents = pass.incidents
      /\ UNCHANGED <<open, told, shifted, astray>>
  BY <1>1, <1>4 DEF OnlyPass
<1>8. \A n \in Nodes \ astray : Alarms(n, pass.incidents[n]) /\ Informed(n, pass.incidents[n])
  BY <1>1 DEF Alarmed, Expected, HeldOn
<1>9. \A n \in Nodes \ astray : Alarms(n, pass.incidents[n])' /\ Informed(n, pass.incidents[n])'
  BY <1>7, <1>8 DEF Alarms, Informed
<1>10. Alarmed' /\ Expected'
  BY <1>7, <1>9 DEF Alarmed, Expected, HeldOn
<1> QED BY <1>6, <1>7, <1>10

(* The step changes and the node in hand stays. *)
LEMMA InHandStep ==
    ASSUME WatchTypeOK, NEW step \in InHand, NEW sent, pass.step \in InHand,
           \/ pass' = [pass EXCEPT !.step = step]
           \/ pass' = [pass EXCEPT !.step = step, !.sent = sent],
           UNCHANGED <<world, file>>
    PROVE  /\ WatchTypeOK' /\ pass'.step = step /\ pass'.incidents = pass.incidents
           /\ pass'.over = pass.over /\ N' = N /\ Incident' = Incident /\ Seen' = Seen
           /\ N \in Nodes
<1>1. Shaped(pass) BY DEF WatchTypeOK
<1>2. /\ Shaped(pass') /\ pass'.step = step /\ pass'.incidents = pass.incidents
      /\ pass'.over = pass.over /\ pass'.todo = pass.todo /\ pass'.seen = pass.seen
  BY <1>1 DEF Shaped
<1>3. N' = N /\ Incident' = Incident /\ Seen' = Seen BY <1>2 DEF N, Incident, Seen
<1>4. N \in Nodes BY NIsToDo DEF WatchTypeOK
<1>5. WatchTypeOK' BY <1>2, <1>3 DEF WatchTypeOK, world, file, InHand
<1> QED BY <1>2, <1>3, <1>4, <1>5

LEMMA SendStep == ASSUME WatchInv, SendEvent PROVE WatchInv'
<1> USE DEF WatchInv
<1>1. /\ pass.step = "event" /\ UNCHANGED <<world, file, open, told, astray, shifted>>
  BY DEF SendEvent
<1>2. PICK step \in {"users", "commit"}, sent \in BOOLEAN :
        /\ step = "users" <=> Unheard
        /\ \/ pass' = [pass EXCEPT !.step = step]
           \/ pass' = [pass EXCEPT !.step = step, !.sent = sent]
  BY DEF SendEvent, Due
<1>3. /\ WatchTypeOK' /\ pass'.step = step /\ pass'.incidents = pass.incidents
      /\ pass'.over = pass.over /\ N' = N /\ Incident' = Incident /\ Seen' = Seen
      /\ N \in Nodes
  <2>1. step \in InHand /\ pass.step \in InHand /\ UNCHANGED <<world, file>>
    BY <1>1 DEF InHand
  <2>2. WatchTypeOK OBVIOUS
  <2> HIDE DEF WatchInv
  <2> QED BY <1>2, <2>1, <2>2, InHandStep
<1>4. Unheard' = Unheard BY <1>3 DEF Unheard, EventKey
<1>5. \A n \in Nodes \ astray : Alarms(n, pass.incidents[n]) /\ Informed(n, pass.incidents[n])
  BY <1>1 DEF Alarmed, Expected, HeldOn
<1>6. \A n \in Nodes \ astray' : Alarms(n, pass.incidents[n])' /\ Informed(n, pass.incidents[n])'
  BY <1>1, <1>3, <1>5 DEF Alarms, Informed
<1>7. ASSUME step = "users", N \notin astray
      PROVE  (N \in Muted /\ Changes') \/ Alarms(N, After)'
  <2>1. N \in Muted /\ EventKey[2] # "down" BY <1>2, <1>7 DEF Unheard
  <2>2. CASE pass.over
    <3>1. Incident # "down" BY <2>1, <2>2 DEF EventKey
    <3>2. N \notin shifted => <<N, "down", "alarm">> \notin open
      BY <1>3, <1>5, <1>7, <2>1, <3>1 DEF Alarms, Incident
    <3> QED BY <1>1, <1>3, <2>1, <2>2, <3>2 DEF Alarms, After
  <2>3. CASE ~pass.over
    <3>1. Seen # "down" BY <2>1, <2>3 DEF EventKey
    <3>2. CASE Incident # "none" BY <1>3, <2>1, <2>3, <3>2 DEF Changes
    <3>3. CASE Incident = "none"
      <4>1. N \notin shifted => <<N, "down", "alarm">> \notin open
        BY <1>3, <1>5, <1>7, <2>1, <3>3 DEF Alarms, Incident
      <4> QED BY <1>1, <1>3, <2>1, <2>3, <3>1, <4>1 DEF Alarms, After
    <3> QED BY <3>2, <3>3
  <2> QED BY <2>2, <2>3
<1>8. Alarmed' BY <1>1, <1>2, <1>3, <1>6, <1>7 DEF Alarmed, HeldOn
<1>9. Expected' BY <1>2, <1>3, <1>6 DEF Expected, HeldOn
<1> QED BY <1>2, <1>3, <1>4, <1>8, <1>9

(* The alarm of the incident before goes, that of the new one comes. *)
LEMMA EventStep == ASSUME WatchInv, CommitEvent PROVE WatchInv'
<1> USE DEF WatchInv
<1>1. /\ pass.step = "commit" /\ UNCHANGED <<world, file, told, astray, shifted>>
      /\ pass' = [pass EXCEPT !.step = "users"] /\ ~Unheard
      /\ open' = (open \ Resolved) \union {EventKey}
  BY DEF CommitEvent
<1>2. /\ WatchTypeOK' /\ pass'.step = "users" /\ pass'.incidents = pass.incidents
      /\ pass'.over = pass.over /\ N' = N /\ Incident' = Incident /\ Seen' = Seen
      /\ N \in Nodes
  BY <1>1, InHandStep DEF InHand
<1>3. \A n \in Nodes \ astray : Alarms(n, pass.incidents[n]) /\ Informed(n, pass.incidents[n])
  BY <1>1 DEF Alarmed, Expected, HeldOn
<1>4. ASSUME NEW n \in Nodes, NEW k \in Kinds
      PROVE  <<n, k, "alarm">> \in open' <=>
                \/ <<n, k, "alarm">> \in open /\ ~(n = N /\ k = Incident)
                \/ n = N /\ ~pass.over /\ k = Seen
  <2>1. <<n, k, "alarm">> \in Resolved <=> n = N /\ k = Incident
    BY DEF Resolved, EventKeys, Kinds
  <2>2. <<n, k, "alarm">> = EventKey <=> n = N /\ ~pass.over /\ k = Seen
    BY DEF EventKey
  <2> QED BY <1>1, <2>1, <2>2
<1>5. \A n \in Nodes \ astray : n # N => Alarms(n, pass.incidents[n])'
  BY <1>1, <1>2, <1>3, <1>4 DEF Alarms, Kinds
<1>6. ASSUME N \notin astray PROVE Alarms(N, After)'
  <2>1. Incident = pass.incidents[N] BY DEF Incident
  <2>2. Alarms(N, Incident) BY <1>2, <1>3, <1>6, <2>1
  <2>3. IF pass.over THEN Incident \in Kinds ELSE Seen \in Kinds /\ Incident # Seen
    BY <1>1 DEF WatchTypeOK, InHand
  <2>4. After' = IF pass.over THEN "none" ELSE Seen BY <1>2 DEF After
  <2>5. CASE N \in Muted
    <3>1. (IF pass.over THEN Incident ELSE Seen) = "down"
      BY <1>1, <2>5 DEF Unheard, EventKey
    <3>2. <<N, "down", "alarm">> \in open' <=> ~pass.over
      BY <1>2, <1>4, <2>2, <2>5, <3>1 DEF Kinds
    <3> QED BY <1>2, <2>4, <2>5, <3>1, <3>2 DEF Alarms
  <2>6. CASE N \notin Muted
    <3>1. \A k \in Kinds : <<N, k, "alarm">> \in open <=> Incident = k
      BY <2>2, <2>6 DEF Alarms
    <3>2. \A k \in Kinds : <<N, k, "alarm">> \in open' <=> ~pass.over /\ Seen = k
      BY <1>2, <1>4, <2>3, <3>1
    <3>3. \A k \in Kinds : <<N, k, "alarm">> \in open' <=> After' = k
      BY <2>4, <3>2 DEF Kinds
    <3> QED BY <1>2, <2>6, <3>3 DEF Alarms
  <2> QED BY <2>5, <2>6
<1>7. Alarmed' BY <1>1, <1>2, <1>5, <1>6 DEF Alarmed, HeldOn
<1>8. Expected' BY <1>1, <1>2, <1>3 DEF Expected, Informed, HeldOn
<1> QED BY <1>2, <1>7, <1>8

LEMMA TellStep == ASSUME WatchInv, TellUsers PROVE WatchInv'
<1> USE DEF WatchInv
<1>1. /\ pass.step = "users" /\ UNCHANGED <<world, file, open, astray, shifted>>
      /\ pass' = [pass EXCEPT !.step = "note"]
      /\ told' = IF pass.over THEN (IF Incident = "down" THEN told \ {N} ELSE told)
                 ELSE IF Seen = "down" THEN told \union {N} ELSE told
  BY DEF TellUsers
<1>2. /\ WatchTypeOK' /\ pass'.step = "note" /\ pass'.incidents = pass.incidents
      /\ pass'.over = pass.over /\ N' = N /\ Incident' = Incident /\ Seen' = Seen
      /\ N \in Nodes
  BY <1>1, InHandStep DEF InHand
<1>3. After' = After /\ (Changes' <=> Changes) BY <1>2 DEF After, Changes
<1>4. Alarmed'
  <2>1. \A n \in Nodes \ astray : IF n = N THEN (n \in Muted /\ Changes) \/ Alarms(n, After)
                                  ELSE Alarms(n, pass.incidents[n])
    BY <1>1 DEF Alarmed, HeldOn
  <2>2. \A n \in Nodes : /\ Alarms(n, After)' <=> Alarms(n, After)
                         /\ Alarms(n, pass.incidents[n])' <=> Alarms(n, pass.incidents[n])
    <3>1. After' = After /\ pass'.incidents = pass.incidents /\ UNCHANGED <<open, shifted>>
      BY <1>1, <1>2, <1>3
    <3> QED BY <3>1 DEF Alarms
  <2>3. ASSUME NEW n \in Nodes \ astray'
        PROVE  IF n = N' THEN (n \in Muted /\ Changes') \/ Alarms(n, After)'
               ELSE Alarms(n, pass.incidents[n])'
    <3>1. n \in Nodes \ astray /\ N' = N /\ (Changes' <=> Changes) BY <1>1, <1>2, <1>3
    <3>2. CASE n = N BY <2>1, <2>2, <3>1, <3>2
    <3>3. CASE n # N BY <2>1, <2>2, <3>1, <3>3
    <3> QED BY <3>1, <3>2, <3>3
  <2> QED BY <1>2, <2>3 DEF Alarmed, HeldOn
<1>5. \A n \in Nodes \ astray : Informed(n, pass.incidents[n]) BY <1>1 DEF Expected, HeldOn
<1>6. \A n \in Nodes \ astray : n # N => Informed(n, pass.incidents[n])'
  BY <1>1, <1>2, <1>5 DEF Informed
<1>7. ASSUME N \notin astray, ~Changes PROVE Informed(N, After)'
  <2>1. Informed(N, Incident) BY <1>2, <1>5, <1>7 DEF Incident
  <2>2. CASE pass.over BY <1>1, <1>2, <1>3, <2>1, <2>2 DEF Informed, After
  <2>3. CASE ~pass.over
    <3>1. Incident = "none" BY <1>7, <2>3 DEF Changes
    <3> QED BY <1>1, <1>2, <1>3, <2>1, <2>3, <3>1 DEF Informed, After
  <2> QED BY <2>2, <2>3
<1>8. Expected' BY <1>1, <1>2, <1>3, <1>6, <1>7 DEF Expected, HeldOn
<1> QED BY <1>2, <1>4, <1>8

LEMMA NoteStep == ASSUME WatchInv, NoteIncident PROVE WatchInv'
<1> USE DEF WatchInv
<1>1. /\ pass.step = "note" /\ UNCHANGED <<world, file, open, told, astray>>
      /\ shifted' = IF Changes THEN shifted \union {N} ELSE shifted
  BY DEF NoteIncident, Changes
<1>2. N \in Nodes /\ Shaped(pass)
  BY <1>1, NIsToDo DEF WatchTypeOK, InHand
<1> DEFINE p == [pass EXCEPT !.incidents[N] = IF pass.over THEN "none" ELSE Seen,
                             !.pending[N] = Uncounted]
<1>3. pass' = Done(p) BY DEF NoteIncident
<1> HIDE DEF p
<1>4. /\ Shaped(p) /\ p.todo = pass.todo /\ p.seen = pass.seen
      /\ p.incidents = [pass.incidents EXCEPT ![N] = After]
  <2>1. p = [pass EXCEPT !.incidents[N] = IF pass.over THEN "none" ELSE Seen,
                         !.pending[N] = Uncounted]
    BY DEF p
  <2> QED BY <1>2, <2>1 DEF Shaped, After
<1>5. /\ Shaped(pass') /\ pass'.step = "look" /\ pass'.todo = pass.todo \ {N}
      /\ pass'.seen = pass.seen /\ pass'.incidents = [pass.incidents EXCEPT ![N] = After]
      /\ pass'.over = FALSE
  BY <1>3, <1>4 DEF Shaped, Done
<1>6. After \in Kinds \union {"none"} BY <1>1 DEF WatchTypeOK, InHand, After
<1>7. WatchTypeOK'
  <2>1. pass'.incidents \in [Nodes -> Kinds \union {"none"}] BY <1>5, <1>6 DEF WatchTypeOK
  <2>2. pass'.todo \subseteq Nodes /\ UNCHANGED <<incidents, health>>
    BY <1>1, <1>5 DEF WatchTypeOK, world, file
  <2> QED BY <1>5, <2>1, <2>2 DEF WatchTypeOK, InHand
<1>8. \A n \in Nodes : pass'.incidents[n] = IF n = N THEN After ELSE pass.incidents[n]
  BY <1>5 DEF WatchTypeOK
<1>9. ASSUME NEW n \in Nodes \ astray
      PROVE  Alarms(n, pass.incidents[n])' /\ Informed(n, pass.incidents[n])'
  <2>1. CASE n # N
    <3>1. Alarms(n, pass.incidents[n]) /\ Informed(n, pass.incidents[n])
      BY <1>1, <2>1 DEF Alarmed, Expected, HeldOn
    <3> QED BY <1>1, <1>8, <2>1, <3>1 DEF Alarms, Informed
  <2>2. CASE n = N /\ Changes
    <3>1. n \in Muted \/ Alarms(n, After) BY <1>1, <2>2 DEF Alarmed
    <3> QED BY <1>1, <1>8, <2>2, <3>1 DEF Alarms, Informed
  <2>3. CASE n = N /\ ~Changes
    <3>1. Alarms(n, After) /\ Informed(n, After) BY <1>1, <2>3 DEF Alarmed, Expected
    <3> QED BY <1>1, <1>8, <2>3, <3>1 DEF Alarms, Informed
  <2> QED BY <2>1, <2>2, <2>3
<1>10. Alarmed' /\ Expected' BY <1>1, <1>5, <1>9 DEF Alarmed, Expected, HeldOn
<1> QED BY <1>5, <1>7, <1>10

(* The pass begins, ends or dies: the file is read, written or left behind. *)
LEMMA PassStep ==
    ASSUME WatchInv, WakePass \/ SavePass \/ PassDies
    PROVE  WatchInv'
<1> USE DEF WatchInv
<1>1. UNCHANGED <<health, open, told, shifted>> /\ astray \subseteq astray'
  BY DEF WakePass, SavePass, PassDies, world
<1>2. CASE WakePass
  <2>1. /\ pass = Asleep /\ UNCHANGED <<incidents, astray>>
        /\ pass' = [Asleep EXCEPT !.step = "look", !.seen = health,
                                  !.todo = {n \in Nodes : health[n] # "gone"},
                                  !.incidents = incidents, !.pending = pending]
    BY <1>2 DEF WakePass, file
  <2>2. /\ Shaped(pass') /\ pass'.step = "look" /\ pass'.seen = health /\ pass'.over = FALSE
        /\ pass'.todo = {n \in Nodes : health[n] # "gone"} /\ pass'.incidents = incidents
    BY <2>1 DEF Shaped, Asleep
  <2>3. WatchTypeOK' BY <1>1, <2>1, <2>2 DEF WatchTypeOK, InHand
  <2>4. \A n \in Nodes \ astray : Alarms(n, incidents[n]) /\ Informed(n, incidents[n])
    BY <2>1, ShapedAsleep DEF Alarmed, Expected, HeldOn
  <2>5. \A n \in Nodes \ astray' : Alarms(n, pass.incidents[n])' /\ Informed(n, pass.incidents[n])'
    BY <1>1, <2>1, <2>2, <2>4 DEF Alarms, Informed
  <2>6. Alarmed' /\ Expected' BY <2>2, <2>5 DEF Alarmed, Expected, HeldOn
  <2> QED BY <2>2, <2>3, <2>6
<1>3. CASE SavePass \/ PassDies
  <2>1. pass' = Asleep BY <1>3 DEF SavePass, PassDies
  <2>2. incidents' \in [Nodes -> Kinds \union {"none"}]
    BY <1>3 DEF SavePass, PassDies, file, WatchTypeOK
  <2>3. WatchTypeOK'
    BY <1>1, <2>1, <2>2, ShapedAsleep DEF WatchTypeOK, Asleep, Calm, InHand
  <2>4. ASSUME NEW n \in Nodes \ astray'
        PROVE  /\ pass.step # "asleep" /\ incidents'[n] = pass.incidents[n]
               /\ pass.step \in InHand => n # N
    <3>1. CASE SavePass BY <2>4, <3>1 DEF SavePass, InHand
    <3>2. CASE PassDies BY <2>4, <3>2 DEF PassDies, file, InHand, WatchTypeOK
    <3> QED BY <1>3, <3>1, <3>2
  <2>5. \A n \in Nodes \ astray' : Alarms(n, incidents'[n]) /\ Informed(n, incidents'[n])
    BY <1>1, <2>4 DEF Alarmed, Expected, HeldOn, InHand
  <2>6. \A n \in Nodes \ astray' : Alarms(n, incidents[n])' /\ Informed(n, incidents[n])'
    BY <1>1, <2>5 DEF Alarms, Informed
  <2>7. Alarmed' /\ Expected' BY <2>1, <2>6, ShapedAsleep DEF Alarmed, Expected, HeldOn
  <2> QED BY <2>1, <2>3, <2>7, ShapedAsleep
<1> QED BY <1>2, <1>3

LEMMA WatchInvNext == WatchInv /\ [WatchNext]_watchVars => WatchInv'
<1> SUFFICES ASSUME WatchInv, [WatchNext]_watchVars PROVE WatchInv'
  OBVIOUS
<1>1. ASSUME UNCHANGED <<incidents, pass, open, told, shifted, astray>>,
             health' \in [Nodes -> Kinds \union {"ok", "gone"}]
      PROVE  WatchInv'
  BY <1>1 DEF WatchInv, WatchTypeOK, Alarmed, Expected, Alarms, Informed, HeldOn, After, Changes,
              Unheard, EventKey, N, Incident, Seen
<1>2. ASSUME NEW n \in Nodes, ChangeHealth(n) PROVE WatchInv'
  BY <1>1, <1>2 DEF ChangeHealth, file, WatchInv, WatchTypeOK
<1>3. CASE PassTime BY <1>1, <1>3 DEF PassTime, file, WatchInv, WatchTypeOK
<1>4. CASE UNCHANGED watchVars
  BY <1>1, <1>4 DEF watchVars, world, file, WatchInv, WatchTypeOK
<1> QED BY <1>2, <1>3, <1>4, LookStep, SendStep, EventStep, TellStep, NoteStep, PassStep
        DEF WatchNext

LEMMA WatchInvHolds == WatchSpec => []WatchInv
  BY WatchInvInit, WatchInvNext, PTL DEF WatchSpec

(* For any fleet, thresholds and deaths: between passes the open alarms of  *)
(* the control bot are the incidents on file (run_watchdog_cycle).          *)
THEOREM AlarmsAreOnFile == WatchSpec => []AlarmsMatchFile
<1>1. WatchInv => AlarmsMatchFile
  BY ShapedAsleep DEF WatchInv, Alarmed, Alarms, HeldOn, AlarmsMatchFile, Kinds
<1> QED BY <1>1, WatchInvHolds, PTL

(* For any fleet, thresholds and deaths: those who wait to be told of the   *)
(* end of works are the users of a node that is down on file.               *)
THEOREM TheEndIsAwaited == WatchSpec => []UsersHearTheEnd
<1>1. WatchInv => UsersHearTheEnd
  BY ShapedAsleep DEF WatchInv, Expected, Informed, HeldOn, UsersHearTheEnd
<1> QED BY <1>1, WatchInvHolds, PTL

-----------------------------------------------------------------------------
(* When the last message about an alarm went out is what its open event     *)
(* says, but between a message and the commit that remembers it.            *)
Spacing ==
    /\ clock \in Nat \ {0}
    /\ alarmed \in [Nodes -> [Kinds -> Nat]] /\ sentAt \in [EventKeys -> Nat]
    /\ pass.step \in {"asleep", "look", "event"} => pass.sent = FALSE
    /\ pass.sent /\ pass.step = "commit" /\ ~pass.over => alarmed[N][Seen] = clock
    /\ \A n \in Nodes \ unrecorded, k \in Kinds : alarmed[n][k] # 0 =>
          \/ <<n, k, "alarm">> \in open /\ sentAt[<<n, k, "alarm">>] = alarmed[n][k]
          \/ pass.sent /\ pass.step = "commit" /\ ~pass.over /\ n = N /\ k = Seen

LEMMA SpacingInit == WatchInit => Spacing
<1> SUFFICES ASSUME WatchInit PROVE Spacing
  OBVIOUS
<1>1. clock = 1 /\ pass.sent = FALSE BY DEF WatchInit, Asleep
<1>2. /\ alarmed \in [Nodes -> [Kinds -> Nat]]
      /\ \A n \in Nodes, k \in Kinds : alarmed[n][k] = 0
  BY DEF WatchInit
<1>3. sentAt \in [EventKeys -> Nat] BY DEF WatchInit
<1> QED BY <1>1, <1>2, <1>3 DEF Spacing

LEMMA LooksSendNothing ==
    ASSUME WatchInv, Spacing, LookWell \/ LookBad \/ LookAgain
    PROVE  Spacing'
<1>1. /\ pass.step = "look" /\ Shaped(pass) /\ pass.sent = FALSE
      /\ UNCHANGED <<clock, open, sentAt, alarmed, unrecorded>>
  BY DEF LookWell, LookBad, LookAgain, Looking, OnlyPass, world, WatchInv, WatchTypeOK, Spacing
<1>2. pass'.sent = FALSE
  <2>1. ASSUME NEW p, Shaped(p) PROVE Done(p).sent = FALSE BY <2>1 DEF Shaped, Done
  <2>2. ASSUME NEW p, NEW v, p = [pass EXCEPT !.pending[N] = v] PROVE Shaped(p) /\ p.sent = FALSE
    BY <1>1, <2>2 DEF Shaped
  <2>3. CASE LookWell
    <3>1. PICK p : p = [pass EXCEPT !.pending[N] = Uncounted] OBVIOUS
    <3>2. pass' = Done(p) \/ pass' = [p EXCEPT !.step = "event", !.over = TRUE]
      BY <2>3, <3>1 DEF LookWell
    <3>3. Shaped(p) /\ p.sent = FALSE BY <2>2, <3>1
    <3>4. CASE pass' = Done(p) BY <2>1, <3>3, <3>4
    <3>5. CASE pass' = [p EXCEPT !.step = "event", !.over = TRUE] BY <3>3, <3>5 DEF Shaped
    <3> QED BY <3>2, <3>4, <3>5
  <2>4. CASE LookBad
    <3>1. PICK v : v = Advanced(pass.pending[N], Seen) OBVIOUS
    <3>2. PICK p : p = [pass EXCEPT !.pending[N] = v] OBVIOUS
    <3>3. p = [pass EXCEPT !.pending[N] = Advanced(@, Seen)] BY <3>1, <3>2
    <3>4. pass' = Done(p) \/ pass' = [p EXCEPT !.step = "event"]
      BY <2>4, <3>3 DEF LookBad
    <3>5. Shaped(p) /\ p.sent = FALSE BY <2>2, <3>2
    <3>6. CASE pass' = Done(p) BY <2>1, <3>5, <3>6
    <3>7. CASE pass' = [p EXCEPT !.step = "event"] BY <3>5, <3>7 DEF Shaped
    <3> QED BY <3>4, <3>6, <3>7
  <2>5. CASE LookAgain
    <3>1. pass' = Done(pass) \/ pass' = [pass EXCEPT !.step = "event"] BY <2>5 DEF LookAgain
    <3>2. CASE pass' = [pass EXCEPT !.step = "event"] BY <1>1, <3>2 DEF Shaped
    <3> QED BY <1>1, <2>1, <3>1, <3>2
  <2> QED BY <2>3, <2>4, <2>5
<1> QED BY <1>1, <1>2 DEF Spacing

(* The event in hand, and why what it resolves is another. *)
LEMMA EventInHand ==
    ASSUME WatchInv, pass.step \in {"event", "commit"}
    PROVE  /\ N \in Nodes /\ EventKey \in EventKeys
           /\ ~pass.over => /\ Seen \in Kinds /\ EventKey = <<N, Seen, "alarm">>
                            /\ EventKey \notin Resolved
           /\ pass.over => EventKey = <<N, Incident, "over">>
<1>1. N \in Nodes BY NIsToDo DEF WatchInv, WatchTypeOK, InHand
<1>2. IF pass.over THEN Incident \in Kinds ELSE Seen \in Kinds /\ Incident # Seen
  BY DEF WatchInv, WatchTypeOK, InHand
<1>3. CASE pass.over
  BY <1>1, <1>2, <1>3 DEF EventKey, EventKeys
<1>4. CASE ~pass.over
  <2>1. EventKey = <<N, Seen, "alarm">> /\ Seen \in Kinds /\ Incident # Seen
    BY <1>2, <1>4 DEF EventKey
  <2>2. EventKey[2] # Incident BY <2>1
  <2>3. EventKey \notin Resolved BY <2>2 DEF Resolved
  <2> QED BY <1>1, <1>4, <2>1, <2>3 DEF EventKeys
<1> QED BY <1>3, <1>4

(* A message goes out. *)
LEMMA MessageSpaced ==
    ASSUME WatchInv, Spacing, SendEvent
    PROVE  /\ Spacing'
           /\ \A n \in Nodes \ unrecorded, k \in Kinds :
                 alarmed'[n][k] > alarmed[n][k] /\ alarmed[n][k] # 0 =>
                    alarmed'[n][k] - alarmed[n][k] >= Cooldown
<1>1. /\ pass.step = "event" /\ Shaped(pass) /\ pass.sent = FALSE
      /\ UNCHANGED <<clock, open, sentAt, unrecorded>>
  BY DEF SendEvent, world, WatchInv, WatchTypeOK, Spacing
<1>2. /\ N \in Nodes /\ EventKey \in EventKeys
      /\ ~pass.over => Seen \in Kinds /\ EventKey = <<N, Seen, "alarm">> /\ EventKey \notin Resolved
  BY <1>1, EventInHand
<1>3. \A n \in Nodes \ unrecorded, k \in Kinds : alarmed[n][k] # 0 =>
         <<n, k, "alarm">> \in open /\ sentAt[<<n, k, "alarm">>] = alarmed[n][k]
  BY <1>1 DEF Spacing
<1>4. CASE pass'.sent = FALSE /\ alarmed' = alarmed
  <2>1. \A n \in Nodes, k \in Kinds : alarmed[n][k] \in Nat BY DEF Spacing
  <2> QED BY <1>1, <1>3, <1>4, <2>1 DEF Spacing
<1>5. ASSUME NEW goes \in (IF Due THEN BOOLEAN ELSE {FALSE}),
             pass' = [pass EXCEPT !.step = "commit", !.sent = goes],
             alarmed' = IF goes /\ ~pass.over THEN [alarmed EXCEPT ![N][Seen] = clock] ELSE alarmed,
             ~(pass'.sent = FALSE /\ alarmed' = alarmed)
      PROVE  /\ Spacing'
             /\ \A n \in Nodes \ unrecorded, k \in Kinds :
                   alarmed'[n][k] > alarmed[n][k] /\ alarmed[n][k] # 0 =>
                      alarmed'[n][k] - alarmed[n][k] >= Cooldown
  <2>1. /\ pass'.step = "commit" /\ pass'.sent = goes /\ pass'.over = pass.over
        /\ pass'.todo = pass.todo /\ pass'.seen = pass.seen
    BY <1>1, <1>5 DEF Shaped
  <2>2. N' = N /\ Seen' = Seen BY <2>1 DEF N, Seen
  <2>3. goes = TRUE /\ Due BY <1>5, <2>1
  <2>4. CASE pass.over
    <3>1. alarmed' = alarmed BY <1>5, <2>4
    <3>2. \A n \in Nodes, k \in Kinds : alarmed[n][k] \in Nat BY DEF Spacing
    <3> QED BY <1>1, <1>3, <2>1, <2>4, <3>1, <3>2 DEF Spacing
  <2>5. CASE ~pass.over
    <3>1. alarmed' = [alarmed EXCEPT ![N][Seen] = clock] BY <1>5, <2>3, <2>5
    <3>2. Seen \in Kinds /\ EventKey = <<N, Seen, "alarm">> /\ EventKey \notin Resolved
      BY <1>2, <2>5
    <3>3. /\ alarmed' \in [Nodes -> [Kinds -> Nat]] /\ alarmed'[N][Seen] = clock
          /\ \A n \in Nodes, k \in Kinds : n # N \/ k # Seen => alarmed'[n][k] = alarmed[n][k]
      BY <1>2, <3>1, <3>2 DEF Spacing
    <3>4. Spacing' BY <1>1, <1>3, <2>1, <2>2, <2>3, <2>5, <3>3 DEF Spacing
    <3>5. ASSUME NEW n \in Nodes \ unrecorded, NEW k \in Kinds,
                 alarmed'[n][k] > alarmed[n][k], alarmed[n][k] # 0
          PROVE  alarmed'[n][k] - alarmed[n][k] >= Cooldown
      <4>1. alarmed[n][k] \in Nat BY DEF Spacing
      <4>2. n = N /\ k = Seen BY <3>3, <3>5, <4>1
      <4>3. EventKey \in open /\ sentAt[EventKey] = alarmed[n][k] BY <1>3, <3>2, <3>5, <4>2
      <4>4. clock - sentAt[EventKey] >= Cooldown BY <2>3, <3>2, <3>5, <4>3 DEF Due
      <4> QED BY <3>3, <4>2, <4>3, <4>4
    <3> QED BY <3>4, <3>5
  <2> QED BY <2>4, <2>5
<1>6. CASE Unheard
  <2>1. pass' = [pass EXCEPT !.step = "users"] /\ alarmed' = alarmed BY <1>6 DEF SendEvent
  <2>2. pass'.sent = FALSE BY <1>1, <2>1 DEF Shaped
  <2> QED BY <1>4, <2>1, <2>2
<1>7. CASE ~Unheard
  BY <1>4, <1>5, <1>7 DEF SendEvent
<1> QED BY <1>6, <1>7

(* The commit remembers when: what it resolves has no alarm left, what was  *)
(* sent is dated now.                                                       *)
LEMMA CommitSpaced ==
    ASSUME WatchInv, Spacing, CommitEvent
    PROVE  /\ Spacing' /\ unrecorded' = unrecorded
           /\ \A n \in Nodes, k \in Kinds : alarmed'[n][k] <= alarmed[n][k]
<1>1. /\ pass.step = "commit" /\ Shaped(pass)
      /\ pass' = [pass EXCEPT !.step = "users"]
      /\ open' = (open \ Resolved) \union {EventKey}
      /\ sentAt' = [sentAt EXCEPT ![EventKey] = IF pass.sent THEN clock
                        ELSE IF EventKey \in open \ Resolved THEN sentAt[EventKey] ELSE 0]
      /\ alarmed' = [alarmed EXCEPT ![N] = [k \in Kinds |-> IF k = Incident THEN 0 ELSE alarmed[N][k]]]
      /\ UNCHANGED <<clock, unrecorded>>
  BY DEF CommitEvent, world, WatchInv, WatchTypeOK
<1>2. pass'.step = "users" BY <1>1 DEF Shaped
<1>3. /\ N \in Nodes /\ EventKey \in EventKeys
      /\ ~pass.over => Seen \in Kinds /\ EventKey = <<N, Seen, "alarm">> /\ EventKey \notin Resolved
      /\ pass.over => EventKey = <<N, Incident, "over">>
  BY <1>1, EventInHand
<1>4. /\ alarmed' \in [Nodes -> [Kinds -> Nat]]
      /\ \A n \in Nodes, k \in Kinds :
            alarmed'[n][k] = IF n = N /\ k = Incident THEN 0 ELSE alarmed[n][k]
  BY <1>1, <1>3 DEF Spacing
<1>5. /\ sentAt' \in [EventKeys -> Nat]
      /\ \A e \in EventKeys \ {EventKey} : sentAt'[e] = sentAt[e]
      /\ pass.sent => sentAt'[EventKey] = clock
      /\ ~pass.sent /\ EventKey \in open \ Resolved => sentAt'[EventKey] = sentAt[EventKey]
  <2>1. PICK v : v = IF pass.sent THEN clock
                     ELSE IF EventKey \in open \ Resolved THEN sentAt[EventKey] ELSE 0
    OBVIOUS
  <2>2. v \in Nat BY <1>3, <2>1 DEF Spacing
  <2>3. sentAt' = [sentAt EXCEPT ![EventKey] = v] BY <1>1, <2>1
  <2>4. sentAt \in [EventKeys -> Nat] BY DEF Spacing
  <2> QED BY <1>3, <2>1, <2>2, <2>3, <2>4
<1>6. ASSUME NEW n \in Nodes \ unrecorded, NEW k \in Kinds, alarmed'[n][k] # 0
      PROVE  <<n, k, "alarm">> \in open' /\ sentAt'[<<n, k, "alarm">>] = alarmed'[n][k]
  <2>1. alarmed[n][k] # 0 /\ alarmed'[n][k] = alarmed[n][k] /\ (n # N \/ k # Incident)
    BY <1>4, <1>6
  <2>2. PICK e \in EventKeys : e = <<n, k, "alarm">> BY DEF EventKeys
  <2>3. e \notin Resolved
    <3>1. e[1] = n /\ e[2] = k BY <2>2
    <3> QED BY <2>1, <3>1 DEF Resolved
  <2>4. CASE e = EventKey
    <3>1. ~pass.over /\ n = N /\ k = Seen BY <1>3, <2>2, <2>4
    <3>2. CASE pass.sent
      BY <1>1, <1>5, <2>1, <2>2, <2>4, <3>1, <3>2 DEF Spacing
    <3>3. CASE ~pass.sent
      <4>1. e \in open /\ sentAt[e] = alarmed[n][k] BY <2>1, <2>2, <3>3 DEF Spacing
      <4> QED BY <1>1, <1>5, <2>1, <2>2, <2>3, <2>4, <3>3, <4>1
    <3> QED BY <3>2, <3>3
  <2>5. CASE e # EventKey
    <3>1. e \in open /\ sentAt[e] = alarmed[n][k]
      <4>1. ~(~pass.over /\ n = N /\ k = Seen) BY <1>3, <2>2, <2>5
      <4> QED BY <2>1, <2>2, <4>1 DEF Spacing
    <3> QED BY <1>1, <1>5, <2>1, <2>2, <2>3, <2>5, <3>1
  <2> QED BY <2>4, <2>5
<1>7. Spacing' BY <1>1, <1>2, <1>4, <1>5, <1>6 DEF Spacing
<1>8. \A n \in Nodes, k \in Kinds : alarmed'[n][k] <= alarmed[n][k]
  BY <1>4 DEF Spacing
<1> QED BY <1>1, <1>7, <1>8

(* The rest of a pass, and its death. *)
LEMMA OthersSpaced ==
    ASSUME WatchInv, Spacing,
           TellUsers \/ NoteIncident \/ WakePass \/ SavePass \/ PassDies \/ PassTime
           \/ (\E n \in Nodes : ChangeHealth(n)) \/ UNCHANGED watchVars
    PROVE  Spacing' /\ alarmed' = alarmed
<1>1. UNCHANGED <<open, sentAt, alarmed>>
  BY DEF TellUsers, NoteIncident, WakePass, SavePass, PassDies, PassTime, ChangeHealth, watchVars
<1>2. CASE TellUsers
  <2>1. pass.step = "users" /\ pass' = [pass EXCEPT !.step = "note"] /\ Shaped(pass)
        /\ UNCHANGED <<clock, unrecorded>>
    BY <1>2 DEF TellUsers, world, WatchInv, WatchTypeOK
  <2>2. pass'.step = "note" BY <2>1 DEF Shaped
  <2> QED BY <1>1, <2>1, <2>2 DEF Spacing
<1>3. CASE NoteIncident
  <2>1. /\ pass.step = "note" /\ Shaped(pass) /\ UNCHANGED <<clock, unrecorded>>
        /\ pass' = Done([pass EXCEPT !.incidents[N] = IF pass.over THEN "none" ELSE Seen,
                                     !.pending[N] = Uncounted])
    BY <1>3 DEF NoteIncident, world, WatchInv, WatchTypeOK
  <2>2. PICK p : p = [pass EXCEPT !.incidents[N] = IF pass.over THEN "none" ELSE Seen,
                                  !.pending[N] = Uncounted]
    OBVIOUS
  <2>3. Shaped(p) BY <2>1, <2>2 DEF Shaped
  <2>4. pass' = Done(p) BY <2>1, <2>2
  <2>5. pass'.step = "look" /\ pass'.sent = FALSE BY <2>3, <2>4 DEF Shaped, Done
  <2> QED BY <1>1, <2>1, <2>5 DEF Spacing
<1>4. CASE WakePass
  <2>1. pass = Asleep /\ UNCHANGED <<clock, unrecorded>> BY <1>4 DEF WakePass, world
  <2>2. pass' = [Asleep EXCEPT !.step = "look", !.seen = health,
                              !.todo = {n \in Nodes : health[n] # "gone"},
                              !.incidents = incidents, !.pending = pending]
    BY <1>4 DEF WakePass
  <2>3. pass'.step = "look" /\ pass'.sent = FALSE BY <2>2 DEF Asleep
  <2>4. pass.step = "asleep" BY <2>1 DEF Asleep
  <2> QED BY <1>1, <2>1, <2>3, <2>4 DEF Spacing
<1>5. CASE SavePass
  <2>1. pass.step = "look" /\ pass' = Asleep /\ UNCHANGED <<clock, unrecorded>>
    BY <1>5 DEF SavePass, world
  <2>2. pass'.step = "asleep" /\ pass'.sent = FALSE BY <2>1 DEF Asleep
  <2> QED BY <1>1, <2>1, <2>2 DEF Spacing
<1>6. CASE PassDies
  <2>1. /\ pass' = Asleep /\ clock' = clock
        /\ unrecorded' = IF pass.sent /\ pass.step = "commit" THEN unrecorded \union {N} ELSE unrecorded
    BY <1>6 DEF PassDies, world
  <2>2. pass'.step = "asleep" /\ pass'.sent = FALSE BY <2>1 DEF Asleep
  <2> QED BY <1>1, <2>1, <2>2 DEF Spacing
<1>7. CASE PassTime \/ (\E n \in Nodes : ChangeHealth(n))
  <2>1. pass = Asleep /\ pass' = pass /\ unrecorded' = unrecorded /\ clock' \in {clock, clock + 1}
    BY <1>7 DEF PassTime, ChangeHealth
  <2>2. pass.step = "asleep" /\ pass.sent = FALSE BY <2>1 DEF Asleep
  <2> QED BY <1>1, <2>1, <2>2 DEF Spacing
<1>8. CASE UNCHANGED watchVars
  BY <1>8 DEF watchVars, world, Spacing, N, Seen
<1> QED BY <1>1, <1>2, <1>3, <1>4, <1>5, <1>6, <1>7, <1>8

LEMMA SpacingHolds == WatchSpec => []Spacing
<1>1. WatchInv /\ Spacing /\ [WatchNext]_watchVars => Spacing'
  BY LooksSendNothing, MessageSpaced, CommitSpaced, OthersSpaced DEF WatchNext
<1> QED BY SpacingInit, WatchInvHolds, <1>1, PTL DEF WatchSpec

(* For any fleet, cooldown and deaths: two messages about one alarm of a    *)
(* node are no nearer than the cooldown, unless a pass has died between a   *)
(* message and its commit (run_watchdog_cycle).                             *)
THEOREM AlarmsAreSpaced == WatchSpec => AlarmsSpaced
<1> DEFINE Far == \A n \in Nodes \ unrecorded : \A k \in Kinds :
                     alarmed'[n][k] > alarmed[n][k] /\ alarmed[n][k] # 0 =>
                        alarmed'[n][k] - alarmed[n][k] >= Cooldown
<1>1. WatchInv /\ Spacing /\ [WatchNext]_watchVars => [Far]_watchVars
  <2> SUFFICES ASSUME WatchInv, Spacing, [WatchNext]_watchVars PROVE Far
    OBVIOUS
  <2>1. \A n \in Nodes, k \in Kinds : alarmed[n][k] \in Nat BY DEF Spacing
  <2>2. CASE SendEvent BY <2>2, MessageSpaced
  <2>3. CASE CommitEvent
    <3>1. Spacing' /\ \A n \in Nodes, k \in Kinds : alarmed'[n][k] <= alarmed[n][k]
      BY <2>3, CommitSpaced
    <3>2. \A n \in Nodes, k \in Kinds : alarmed'[n][k] \in Nat BY <3>1 DEF Spacing
    <3> QED BY <2>1, <3>1, <3>2
  <2>4. CASE alarmed' = alarmed BY <2>1, <2>4
  <2>5. CASE LookWell \/ LookBad \/ LookAgain
    BY <2>4, <2>5 DEF LookWell, LookBad, LookAgain, OnlyPass
  <2> QED BY <2>2, <2>3, <2>4, <2>5, OthersSpaced DEF WatchNext
<1> QED BY <1>1, WatchInvHolds, SpacingHolds, PTL DEF WatchSpec, AlarmsSpaced

-----------------------------------------------------------------------------
(* The parts of a finite set, and one element less. *)
LEMMA PartsCounted ==
    ASSUME NEW S, IsFiniteSet(S), NEW u \in SUBSET S
    PROVE  /\ IsFiniteSet(u) /\ Cardinality(u) \in Nat /\ (Cardinality(u) = 0 <=> u = {})
           /\ \A x \in u : u \ {x} \in SUBSET S /\ Cardinality(u \ {x}) = Cardinality(u) - 1
<1>1. IsFiniteSet(u) BY FS_Subset
<1> QED BY <1>1, FS_CardinalityType, FS_EmptySet, FS_RemoveElement

(* update_leases goes over the lines in their order: the fold is the        *)
(* function of the sets of line numbers that takes the last one off.        *)
Folded(m, base, lines) == FoldLeft(LAMBDA f, l : LeasedIf(m, f, l), base, lines)
Newest(u) == Max(u)
Renewal(g, m, base, lines, S) ==
    g = [u \in SUBSET S |-> IF u = {} THEN base
                            ELSE LeasedIf(m, g[u \ {Newest(u)}], lines[Newest(u)])]
Renewals(m, base, lines, S) == CHOOSE g : Renewal(g, m, base, lines, S)
RenewedTo(k, g, m, base, lines, S) ==
    \A u \in SUBSET S : Cardinality(u) <= k =>
        g[u] = IF u = {} THEN base ELSE LeasedIf(m, g[u \ {Newest(u)}], lines[Newest(u)])

(* The fold is such a function, if there is one. *)
LEMMA FoldIsRenewals ==
    ASSUME NEW m, NEW base, NEW lines
    PROVE  Folded(m, base, lines)
           = Renewals(m, base, lines, DOMAIN lines)[DOMAIN lines]
  BY DEF Folded, FoldLeft, MapThenFoldSet, Renewals, Renewal, Newest

(* A function that is right up to k lines is right up to k + 1. *)
LEMMA OneRenewalMore ==
    ASSUME NEW n \in Nat, NEW m, NEW V, NEW base \in V, NEW lines,
           \A i \in 1..n, f \in V : LeasedIf(m, f, lines[i]) \in V,
           NEW k \in Nat, NEW g \in [SUBSET (1..n) -> V], RenewedTo(k, g, m, base, lines, 1..n)
    PROVE  \E h \in [SUBSET (1..n) -> V] : RenewedTo(k + 1, h, m, base, lines, 1..n)
<1> DEFINE S == 1..n
<1>1. \A u \in SUBSET S : u # {} =>
         /\ Newest(u) \in u /\ u \ {Newest(u)} \in SUBSET S
         /\ Cardinality(u) \in Nat /\ Cardinality(u \ {Newest(u)}) = Cardinality(u) - 1
  <2>1. IsFiniteSet(S) BY FS_Interval
  <2>2. \A u \in SUBSET S : u # {} => Newest(u) \in u BY MaxIsGreatest DEF Newest
  <2> HIDE DEF S
  <2> QED BY <2>1, <2>2, PartsCounted
<1> DEFINE h == [u \in SUBSET S |-> IF u = {} THEN base
                                    ELSE LeasedIf(m, g[u \ {Newest(u)}], lines[Newest(u)])]
<1>2. h \in [SUBSET S -> V]
  <2>1. ASSUME NEW u \in SUBSET S, u # {}
        PROVE  LeasedIf(m, g[u \ {Newest(u)}], lines[Newest(u)]) \in V
    <3>1. Newest(u) \in S /\ g[u \ {Newest(u)}] \in V BY <1>1, <2>1
    <3> QED BY <3>1
  <2> QED BY <2>1
<1>3. \A u \in SUBSET S : h[u] = IF u = {} THEN base
                                 ELSE LeasedIf(m, g[u \ {Newest(u)}], lines[Newest(u)])
  OBVIOUS
<1> HIDE DEF h, S
<1>4. \A u \in SUBSET S : Cardinality(u) <= k => h[u] = g[u] BY <1>3 DEF RenewedTo, S
<1>5. ASSUME NEW u \in SUBSET S, Cardinality(u) <= k + 1, u # {}
      PROVE  h[u] = LeasedIf(m, h[u \ {Newest(u)}], lines[Newest(u)])
  <2>0. Cardinality(u) \in Nat /\ Cardinality(u \ {Newest(u)}) = Cardinality(u) - 1
    BY <1>1, <1>5
  <2>1. Cardinality(u \ {Newest(u)}) <= k BY <1>5, <2>0
  <2>2. h[u \ {Newest(u)}] = g[u \ {Newest(u)}] BY <1>1, <1>4, <1>5, <2>1
  <2> QED BY <1>3, <1>5, <2>2
<1>6. RenewedTo(k + 1, h, m, base, lines, S) BY <1>3, <1>5 DEF RenewedTo
<1> QED BY <1>2, <1>6 DEF S

(* What every line keeps, the fold over the lines keeps. *)
LEMMA RenewalsKeep ==
    ASSUME NEW n \in Nat, NEW m, NEW V, NEW base \in V, NEW lines, DOMAIN lines = 1..n,
           \A i \in 1..n, f \in V : LeasedIf(m, f, lines[i]) \in V
    PROVE  Folded(m, base, lines) \in V
<1> DEFINE Missed == {k \in Nat : ~\E g \in [SUBSET (1..n) -> V] : RenewedTo(k, g, m, base, lines, 1..n)}
<1>0. IsFiniteSet(1..n) BY FS_Interval
<1>1. 0 \notin Missed
  <2> DEFINE g == [u \in SUBSET (1..n) |-> base]
  <2>1. g \in [SUBSET (1..n) -> V] OBVIOUS
  <2>2. ASSUME NEW u \in SUBSET (1..n), Cardinality(u) <= 0 PROVE u = {}
    <3>1. Cardinality(u) \in Nat /\ (Cardinality(u) = 0 <=> u = {}) BY <1>0, PartsCounted
    <3> QED BY <2>2, <3>1
  <2>3. RenewedTo(0, g, m, base, lines, 1..n) BY <2>2 DEF RenewedTo
  <2> QED BY <2>1, <2>3
<1>2. \A k \in Nat : k \notin Missed => k + 1 \notin Missed BY OneRenewalMore
<1> HIDE DEF Missed
<1>3. Missed = {}
  <2> SUFFICES ASSUME Missed # {} PROVE FALSE
    OBVIOUS
  <2>1. Missed \subseteq Nat BY DEF Missed
  <2>2. PICK k \in Missed : \A j \in Missed : k <= j BY <2>1, LeastExists
  <2>3. k \in Nat /\ k # 0 BY <1>1, <2>1
  <2>4. k - 1 \in Nat /\ k - 1 \notin Missed /\ (k - 1) + 1 = k BY <2>1, <2>2, <2>3
  <2> QED BY <1>2, <2>4
<1>4. Cardinality(1..n) \in Nat BY <1>0, PartsCounted
<1>5. PICK g \in [SUBSET (1..n) -> V] : RenewedTo(Cardinality(1..n), g, m, base, lines, 1..n)
  BY <1>3, <1>4 DEF Missed
<1>6. \A u \in SUBSET (1..n) : Cardinality(u) <= Cardinality(1..n) BY <1>0, FS_Subset
<1>7. Renewal(g, m, base, lines, 1..n) BY <1>5, <1>6 DEF RenewedTo, Renewal
<1>8. PICK r : r = Renewals(m, base, lines, 1..n) OBVIOUS
<1>9. Renewal(r, m, base, lines, 1..n) BY <1>7, <1>8 DEF Renewals
<1>10. \A u \in SUBSET (1..n) : r[u] = IF u = {} THEN base
                                      ELSE LeasedIf(m, r[u \ {Newest(u)}], lines[Newest(u)])
  <2> SUFFICES ASSUME NEW u \in SUBSET (1..n)
               PROVE  r[u] = IF u = {} THEN base
                             ELSE LeasedIf(m, r[u \ {Newest(u)}], lines[Newest(u)])
    OBVIOUS
  <2>1. [s \in SUBSET (1..n) |-> IF s = {} THEN base
                                 ELSE LeasedIf(m, r[s \ {Newest(s)}], lines[Newest(s)])][u]
        = IF u = {} THEN base ELSE LeasedIf(m, r[u \ {Newest(u)}], lines[Newest(u)])
    BY Zenon
  <2> QED BY <1>9, <2>1, Zenon DEF Renewal
<1> DEFINE Astray == {j \in Nat : \E u \in SUBSET (1..n) : Cardinality(u) = j /\ r[u] \notin V}
<1>11. Astray = {}
  <2> SUFFICES ASSUME Astray # {} PROVE FALSE
    OBVIOUS
  <2>1. Astray \subseteq Nat OBVIOUS
  <2>2. PICK j \in Astray : \A i \in Astray : j <= i BY <2>1, LeastExists
  <2>3. PICK u \in SUBSET (1..n) : Cardinality(u) = j /\ r[u] \notin V BY <2>2
  <2>4. u # {} BY <1>10, <2>3
  <2>5. Newest(u) \in u BY <2>4, MaxIsGreatest DEF Newest
  <2>6. /\ u \ {Newest(u)} \in SUBSET (1..n) /\ Cardinality(u \ {Newest(u)}) = j - 1
        /\ j \in Nat /\ j # 0
    <3>1. j \in Nat BY <2>1, <2>2
    <3>2. PICK S : S = 1..n OBVIOUS
    <3>3. IsFiniteSet(S) /\ u \in SUBSET S BY <1>0, <3>2
    <3>4. /\ Cardinality(u) = 0 <=> u = {}
          /\ \A x \in u : u \ {x} \in SUBSET S /\ Cardinality(u \ {x}) = Cardinality(u) - 1
      BY <3>3, PartsCounted
    <3> QED BY <2>3, <2>4, <2>5, <3>1, <3>2, <3>4
  <2>7. j - 1 \in Nat /\ j - 1 \notin Astray BY <2>2, <2>6
  <2>8. r[u \ {Newest(u)}] \in V
    <3>1. PICK w \in SUBSET (1..n) : w = u \ {Newest(u)} BY <2>6
    <3>2. Cardinality(w) = j - 1 BY <2>6, <3>1
    <3>3. r[w] \in V BY <2>7, <3>2
    <3> QED BY <3>1, <3>3
  <2>9. r[u] = LeasedIf(m, r[u \ {Newest(u)}], lines[Newest(u)]) BY <1>10, <2>4
  <2>10. Newest(u) \in 1..n BY <2>5
  <2>11. r[u] \in V BY <2>8, <2>9, <2>10
  <2> QED BY <2>3, <2>11
<1>12. r[1..n] \in V
  <2>1. Cardinality(1..n) \notin Astray BY <1>11
  <2> QED BY <1>4, <2>1
<1> QED BY <1>8, <1>12, FoldIsRenewals

-----------------------------------------------------------------------------
(* No more addresses than the limit, white ones apart. *)
Few(m, S) == LET counted == {a \in S : <<m, a>> \notin Whitelist}
             IN  IsFiniteSet(counted) /\ Cardinality(counted) <= MaxAddresses
Placed(f) == {a \in Addresses : f[a] # 0}

(* A configuration, and leases, that keep to the limit. *)
Fitting(c) == c = [clients |-> c.clients, rules |-> c.rules] /\ \A m \in Mails : Few(m, c.rules[m])
Leases(f) == f \in [Mails -> [Addresses -> Nat]] /\ \A m \in Mails : Few(m, Placed(f[m]))
(* No lease is newer than a line still to be read. *)
Past(f, first) ==
    \A m \in Mails, a \in Addresses :
        f[m][a] <= moment /\ \A i \in first..Len(log) : f[m][a] <= log[i].at

LogOK == /\ moment \in Nat \ {0} /\ log \in Seq([mail : Mails, address : Addresses, at : Nat])
         /\ \A i \in 1..Len(log) : log[i].at # 0 /\ log[i].at <= moment

(* What the enforcer carries: new leases, made from the first lines of the  *)
(* log, in which whoever is still seen is in.                               *)
InWork(s) ==
    /\ Leases(s.lease) /\ s.lines \in 0..Len(log) /\ Past(s.lease, s.lines + 1)
    /\ \A m \in Mails : \A a \in Alive(lease[m], moment) : s.lease[m][a] # 0

(* In the configuration, in the temporary file, whoever it is of, in the    *)
(* leases and in what the tasks carry are few places.                       *)
PlaceInv ==
    /\ LogOK /\ Leases(lease) /\ Past(lease, 1)
    /\ Fitting(config) /\ (tmp = NoFile \/ Fitting(tmp))
    /\ saver = [t \in Tasks |-> saver[t]] /\ \A t \in Tasks : Whole(saver[t])
    /\ \A t \in Tasks : saver[t].step = "write" => Fitting(saver[t].conf)
    /\ saver[Enforcer].step \in {"write", "swap", "file"} => InWork(saver[Enforcer])

(* One line more. *)
LEMMA LineKeepsPlaces ==
    ASSUME NEW m \in Mails, NEW old \in [Addresses -> Nat], NEW now \in Nat, NEW V,
           V = {f \in [Addresses -> 0..now] :
                   Few(m, Placed(f)) /\ \A a \in Alive(old, now) : f[a] >= old[a]},
           NEW f \in V, NEW l \in [mail : Mails, address : Addresses, at : Nat],
           l.at # 0, l.at <= now, \A a \in Addresses : old[a] <= l.at
    PROVE  LeasedIf(m, f, l) \in V
<1> USE NodeAssumption
<1>1. /\ f \in [Addresses -> 0..now] /\ Few(m, Placed(f)) /\ \A a \in Alive(old, now) : f[a] >= old[a]
      /\ l.at \in Nat /\ l.address \in Addresses /\ LeaseTime \in Nat /\ MaxAddresses \in Nat
  OBVIOUS
<1> DEFINE g == [a \in Addresses |-> IF a \in Alive(f, l.at) THEN f[a] ELSE 0]
           h == [g EXCEPT ![l.address] = l.at]
<1>2. /\ g \in [Addresses -> 0..now]
      /\ \A a \in Addresses : g[a] = IF a \in Alive(f, l.at) THEN f[a] ELSE 0
  BY <1>1
<1> HIDE DEF g
<1>3. /\ h \in [Addresses -> 0..now] /\ h[l.address] = l.at
      /\ \A a \in Addresses \ {l.address} : h[a] = g[a]
  BY <1>1, <1>2
<1> HIDE DEF h
<1>4. ASSUME NEW a \in Alive(old, now) PROVE g[a] >= old[a] /\ h[a] >= old[a]
  <2>1. a \in Addresses /\ old[a] \in Nat /\ old[a] # 0 /\ old[a] + LeaseTime >= now
    BY <1>4 DEF Alive
  <2>2. f[a] >= old[a] /\ f[a] \in Nat BY <1>1, <1>4, <2>1
  <2>3. f[a] # 0 /\ f[a] + LeaseTime >= l.at BY <1>1, <2>1, <2>2
  <2>4. g[a] = f[a] BY <1>2, <2>1, <2>3 DEF Alive
  <2>5. CASE a = l.address BY <1>3, <2>1, <2>2, <2>4, <2>5
  <2>6. CASE a # l.address BY <1>3, <2>1, <2>2, <2>4, <2>6
  <2> QED BY <2>5, <2>6
<1> DEFINE C == {a \in Placed(f) : <<m, a>> \notin Whitelist}
           D == Counted(m, f, l.at)
<1>5. IsFiniteSet(C) /\ Cardinality(C) <= MaxAddresses /\ Cardinality(C) \in Nat
  BY <1>1, FS_CardinalityType DEF Few
<1>6. ASSUME NEW k, {a \in Placed(k) : <<m, a>> \notin Whitelist} \subseteq C PROVE Few(m, Placed(k))
  <2>1. PICK E \in SUBSET C : E = {a \in Placed(k) : <<m, a>> \notin Whitelist} BY <1>6
  <2>2. IsFiniteSet(E) /\ Cardinality(E) <= Cardinality(C) /\ Cardinality(E) \in Nat
    BY <1>5, FS_Subset, FS_CardinalityType
  <2>3. Cardinality(E) <= MaxAddresses BY <1>1, <1>5, <2>2
  <2> QED BY <2>1, <2>2, <2>3 DEF Few
<1>7. {a \in Placed(g) : <<m, a>> \notin Whitelist} = D
  BY <1>1, <1>2 DEF Placed, Counted, Alive
<1>8. D \subseteq C BY DEF Placed, Counted, Alive
<1>9. Few(m, Placed(g)) BY <1>6, <1>7, <1>8
<1>10. ASSUME \/ <<m, l.address>> \in Whitelist \/ l.address \in Alive(f, l.at)
              \/ Cardinality(D) < MaxAddresses
       PROVE  Few(m, Placed(h))
  <2> DEFINE E == {a \in Placed(h) : <<m, a>> \notin Whitelist}
  <2>1. E \subseteq D \union {l.address} BY <1>3, <1>7 DEF Placed
  <2>2. CASE <<m, l.address>> \in Whitelist \/ l.address \in Alive(f, l.at)
    <3>1. l.address \in E => l.address \in D BY <2>2 DEF Counted
    <3>2. E \subseteq C BY <1>8, <2>1, <3>1
    <3> QED BY <1>6, <3>2
  <2>3. CASE Cardinality(D) < MaxAddresses
    <3> HIDE DEF D
    <3>1. IsFiniteSet(D) /\ Cardinality(D) \in Nat BY <1>5, <1>8, FS_Subset, FS_CardinalityType
    <3>2. IsFiniteSet(D \union {l.address})
          /\ Cardinality(D \union {l.address}) <= Cardinality(D) + 1
      <4>1. PICK x : x = l.address OBVIOUS
      <4>2. /\ IsFiniteSet(D \union {x})
            /\ Cardinality(D \union {x}) = IF x \in D THEN Cardinality(D) ELSE Cardinality(D) + 1
        BY <3>1, FS_AddElement
      <4>3. Cardinality(D \union {x}) <= Cardinality(D) + 1 BY <3>1, <4>2
      <4> QED BY <4>1, <4>2, <4>3
    <3>3. /\ IsFiniteSet(E) /\ Cardinality(E) <= Cardinality(D \union {l.address})
          /\ Cardinality(E) \in Nat /\ Cardinality(D \union {l.address}) \in Nat
      BY <2>1, <3>2, FS_Subset, FS_CardinalityType
    <3>4. Cardinality(E) <= MaxAddresses BY <1>1, <2>3, <3>1, <3>2, <3>3
    <3> QED BY <3>3, <3>4 DEF Few
  <2> QED BY <1>10, <2>2, <2>3
<1>11. g \in V BY <1>2, <1>4, <1>9
<1>12. Few(m, Placed(h)) => h \in V BY <1>3, <1>4
<1>13. CASE l.mail # m BY <1>13 DEF LeasedIf
<1>14. CASE l.mail = m
  <2>1. LeasedIf(m, f, l) = Leased(m, f, l) BY <1>14 DEF LeasedIf
  <2>2. \/ LeasedIf(m, f, l) = g
        \/ /\ LeasedIf(m, f, l) = h
           /\ \/ <<m, l.address>> \in Whitelist \/ l.address \in Alive(f, l.at)
              \/ Cardinality(D) < MaxAddresses
    BY <2>1 DEF Leased, g, h
  <2> QED BY <1>10, <1>11, <1>12, <2>2
<1> QED BY <1>13, <1>14

LEMMA FewerAreFew ==
    ASSUME NEW m, NEW S, Few(m, S), NEW T, T \subseteq S
    PROVE  Few(m, T)
<1> DEFINE C == {a \in S : <<m, a>> \notin Whitelist}
           E == {a \in T : <<m, a>> \notin Whitelist}
<1>1. IsFiniteSet(C) /\ Cardinality(C) <= MaxAddresses BY DEF Few
<1>2. E \subseteq C OBVIOUS
<1> HIDE DEF C, E
<1>3. IsFiniteSet(E) /\ Cardinality(E) <= Cardinality(C) /\ Cardinality(E) \in Nat /\ Cardinality(C) \in Nat
  BY <1>1, <1>2, FS_Subset, FS_CardinalityType
<1>4. Cardinality(E) <= MaxAddresses BY <1>1, <1>3, NodeAssumption
<1> QED BY <1>3, <1>4 DEF Few, E

LEMMA NoneAreFew == \A m : Few(m, {})
<1>1. \A m : {a \in {} : <<m, a>> \notin Whitelist} = {} OBVIOUS
<1>2. IsFiniteSet({}) /\ Cardinality({}) = 0 BY FS_EmptySet
<1> QED BY <1>1, <1>2, NodeAssumption DEF Few

(* What a pass of the enforcer makes of the leases on file. *)
LEMMA RenewedKeeps ==
    ASSUME PlaceInv, NEW m \in Mails
    PROVE  /\ Renewed(m) \in [Addresses -> Nat] /\ Few(m, Placed(Renewed(m)))
           /\ \A a \in Addresses : Renewed(m)[a] <= moment
           /\ \A a \in Alive(lease[m], moment) : Renewed(m)[a] # 0
<1> DEFINE V == {f \in [Addresses -> 0..moment] :
                    Few(m, Placed(f)) /\ \A a \in Alive(lease[m], moment) : f[a] >= lease[m][a]}
           last == Folded(m, lease[m], log)
<1>1. /\ lease[m] \in [Addresses -> Nat] /\ moment \in Nat /\ Len(log) \in Nat
      /\ DOMAIN log = 1..Len(log)
      /\ \A i \in 1..Len(log) : log[i] \in [mail : Mails, address : Addresses, at : Nat]
  <2>1. lease[m] \in [Addresses -> Nat] /\ moment \in Nat BY DEF PlaceInv, Leases, LogOK
  <2>2. PICK R : R = [mail : Mails, address : Addresses, at : Nat] OBVIOUS
  <2>3. log \in Seq(R) BY <2>2 DEF PlaceInv, LogOK
  <2>4. Len(log) \in Nat /\ DOMAIN log = 1..Len(log) /\ \A i \in 1..Len(log) : log[i] \in R
    BY <2>3
  <2> QED BY <2>1, <2>2, <2>4
<1>2. lease[m] \in V
  <2>1. lease[m] \in [Addresses -> 0..moment] BY <1>1 DEF PlaceInv, Past
  <2>2. \A a \in Alive(lease[m], moment) : lease[m][a] >= lease[m][a] BY <1>1 DEF Alive
  <2> QED BY <2>1, <2>2 DEF PlaceInv, Leases
<1>3. ASSUME NEW i \in 1..Len(log), NEW f \in V PROVE LeasedIf(m, f, log[i]) \in V
  <2>1. PICK l \in [mail : Mails, address : Addresses, at : Nat] : l = log[i] BY <1>1
  <2>2. PICK old \in [Addresses -> Nat] : old = lease[m] BY <1>1
  <2>3. l.at # 0 /\ l.at <= moment /\ \A a \in Addresses : old[a] <= l.at
    BY <1>1, <2>1, <2>2 DEF PlaceInv, LogOK, Past
  <2>4. V = {k \in [Addresses -> 0..moment] :
                Few(m, Placed(k)) /\ \A a \in Alive(old, moment) : k[a] >= old[a]}
    BY <2>2
  <2> HIDE DEF V
  <2>5. LeasedIf(m, f, l) \in V BY <1>1, <2>3, <2>4, LineKeepsPlaces
  <2> QED BY <2>1, <2>5
<1> HIDE DEF V
<1>4. last \in V
  <2>1. PICK n \in Nat : n = Len(log) BY <1>1
  <2>2. PICK base, lines : base \in V /\ base = lease[m] /\ lines = log BY <1>2
  <2>3. DOMAIN lines = 1..n BY <1>1, <2>1, <2>2
  <2>4. \A i \in 1..n, f \in V : LeasedIf(m, f, lines[i]) \in V
    BY <1>3, <2>1, <2>2
  <2>5. Folded(m, base, lines) \in V
    BY <2>2, <2>3, <2>4, RenewalsKeep
  <2> QED BY <2>2, <2>5 DEF last
<1> HIDE DEF last
<1>5. /\ last \in [Addresses -> 0..moment] /\ Few(m, Placed(last))
      /\ \A a \in Alive(lease[m], moment) : last[a] >= lease[m][a]
  BY <1>4 DEF V
<1>6. Renewed(m) = [a \in Addresses |-> IF a \in Alive(last, moment) THEN last[a] ELSE 0]
  BY DEF Renewed, Folded, last
<1>7. PICK r : r = Renewed(m) OBVIOUS
<1>8. /\ r \in [Addresses -> 0..moment]
      /\ \A a \in Addresses : r[a] = IF a \in Alive(last, moment) THEN last[a] ELSE 0
  <2>1. \A a \in Addresses : (IF a \in Alive(last, moment) THEN last[a] ELSE 0) \in 0..moment
    BY <1>1, <1>5
  <2> QED BY <1>6, <1>7, <2>1
<1>9. Few(m, Placed(r))
  <2>1. Placed(r) \subseteq Placed(last) BY <1>8 DEF Placed, Alive
  <2> QED BY <1>5, <2>1, FewerAreFew
<1>10. ASSUME NEW a \in Alive(lease[m], moment) PROVE r[a] # 0
  <2>1. /\ a \in Addresses /\ lease[m][a] \in Nat /\ lease[m][a] # 0
        /\ lease[m][a] + LeaseTime >= moment /\ LeaseTime \in Nat
    BY <1>1, NodeAssumption DEF Alive
  <2>2. last[a] \in Nat /\ last[a] >= lease[m][a] BY <1>1, <1>5, <2>1
  <2>3. a \in Alive(last, moment) BY <1>1, <2>1, <2>2 DEF Alive
  <2> QED BY <1>8, <2>1, <2>2, <2>3
<1>11. r \in [Addresses -> Nat] /\ \A a \in Addresses : r[a] <= moment BY <1>1, <1>8
<1> QED BY <1>7, <1>9, <1>10, <1>11

(* The step of one task that leaves the leases and the log alone. *)
LEMMA PlaceStep ==
    ASSUME PlaceInv, NEW t \in Tasks, NEW s, Whole(s), saver' = [saver EXCEPT ![t] = s],
           UNCHANGED <<lease, log, moment>>,
           Fitting(config'), tmp' = NoFile \/ Fitting(tmp'),
           s.step = "write" => Fitting(s.conf),
           t = Enforcer /\ s.step \in {"write", "swap", "file"} => InWork(s)
    PROVE  PlaceInv'
<1>1. /\ saver' = [u \in Tasks |-> saver'[u]] /\ saver'[t] = s
      /\ \A u \in Tasks \ {t} : saver'[u] = saver[u]
  BY DEF PlaceInv
<1>2. \A u \in Tasks : Whole(saver'[u]) /\ (saver'[u].step = "write" => Fitting(saver'[u].conf))
  BY <1>1 DEF PlaceInv
<1>3. \A w : InWork(w) => InWork(w)' BY DEF InWork, Past
<1>4. Enforcer \in Tasks BY DEF Tasks
<1>5. saver'[Enforcer].step \in {"write", "swap", "file"} => InWork(saver'[Enforcer])
  BY <1>1, <1>4 DEF PlaceInv
<1>6. InWork(saver'[Enforcer]) => InWork(saver[Enforcer])' BY DEF InWork, Past
<1>7. LogOK' /\ Leases(lease)' /\ Past(lease, 1)' BY DEF PlaceInv, LogOK, Past
<1> QED BY <1>1, <1>2, <1>5, <1>6, <1>7 DEF PlaceInv

LEMMA PlaceInit == NodeInit => PlaceInv
<1> SUFFICES ASSUME NodeInit PROVE PlaceInv
  OBVIOUS
<1>1. \A t \in Tasks : saver[t] = Away BY DEF NodeInit
<1>2. \A t \in Tasks : Whole(saver[t]) /\ saver[t].step = "away" BY <1>1 DEF Whole, Away
<1>3. LogOK /\ Len(log) = 0 BY NodeAssumption DEF NodeInit, LogOK
<1>4. Leases(lease) /\ Past(lease, 1)
  <2>1. lease \in [Mails -> [Addresses -> Nat]] /\ \A m \in Mails, a \in Addresses : lease[m][a] = 0
    BY DEF NodeInit, NoLease
  <2>2. \A m \in Mails : Placed(lease[m]) = {} BY <2>1 DEF Placed
  <2>3. Leases(lease) BY <2>1, <2>2, NoneAreFew DEF Leases
  <2>4. Past(lease, 1) BY <1>3, <2>1 DEF Past, LogOK
  <2> QED BY <2>3, <2>4
<1>5. Fitting(config) /\ tmp = NoFile
  <2>1. config = [clients |-> Mails, rules |-> [m \in Mails |-> {}]] /\ tmp = NoFile BY DEF NodeInit
  <2>2. \A m \in Mails : config.rules[m] = {} BY <2>1
  <2> QED BY <2>1, <2>2, NoneAreFew DEF Fitting
<1>6. Enforcer \in Tasks /\ saver = [t \in Tasks |-> saver[t]] BY DEF NodeInit, Tasks
<1> QED BY <1>2, <1>3, <1>4, <1>5, <1>6 DEF PlaceInv

(* A task at the file: it loads, writes, swaps, stops. *)
LEMMA SaverKeepsPlaces ==
    ASSUME PlaceInv, NEW t \in Savers, NEW m \in Mails, NEW on \in BOOLEAN,
           NEW provision \in BOOLEAN, LoadConfig(t, m, on, provision)
    PROVE  PlaceInv'
<1>1. t \in Tasks /\ t # Enforcer /\ UNCHANGED <<config, tmp, lease, log, moment>>
  BY NodeAssumption DEF LoadConfig, Tasks
<1>2. Fitting(config) /\ (tmp = NoFile \/ Fitting(tmp)) BY DEF PlaceInv
<1>3. CASE UNCHANGED saver
  BY <1>1, <1>3 DEF PlaceInv, LogOK, Past, InWork
<1>4. CASE saver' = [saver EXCEPT ![t] = [Away EXCEPT !.step = "write", !.mail = m, !.on = on,
                                                      !.conf = Upserted(m, on)]]
  <2>1. PICK s : s = [Away EXCEPT !.step = "write", !.mail = m, !.on = on, !.conf = Upserted(m, on)]
    OBVIOUS
  <2>2. Whole(s) /\ s.conf = Upserted(m, on) BY <2>1 DEF Whole, Away
  <2>3. Fitting(Upserted(m, on))
    <3>1. PICK S : S = IF on THEN config.clients \union {m} ELSE config.clients \ {m} OBVIOUS
    <3>2. PICK c : c = [config EXCEPT !.clients = S] OBVIOUS
    <3>3. Upserted(m, on) = c BY <3>1, <3>2 DEF Upserted
    <3>4. c = [clients |-> c.clients, rules |-> c.rules] /\ c.rules = config.rules
      BY <1>2, <3>2 DEF Fitting
    <3>5. Fitting(c) BY <1>2, <3>4 DEF Fitting
    <3> QED BY <3>3, <3>5
  <2>4. saver' = [saver EXCEPT ![t] = s] BY <1>4, <2>1
  <2> QED BY <1>1, <1>2, <2>2, <2>3, <2>4, PlaceStep
<1> QED BY <1>3, <1>4 DEF LoadConfig, Enter

LEMMA WorkKeepsPlaces ==
    ASSUME PlaceInv, NEW t \in Tasks, WriteTmp(t) \/ Swap(t) \/ RestartFails(t) \/ Stop(t)
    PROVE  PlaceInv'
<1>1. UNCHANGED <<lease, log, moment>> BY DEF WriteTmp, Swap, RestartFails, Stop, Replace
<1>2. Whole(Away) /\ Away.step = "away" BY DEF Whole, Away
<1>3. Whole(saver[t]) BY DEF PlaceInv
<1>4. Fitting(config) /\ (tmp = NoFile \/ Fitting(tmp)) BY DEF PlaceInv
<1>5. ASSUME NEW w, NEW step, w = [saver[t] EXCEPT !.step = step]
      PROVE  Whole(w) /\ w.step = step /\ w.lease = saver[t].lease /\ w.lines = saver[t].lines
  BY <1>3, <1>5 DEF Whole
<1>6. CASE WriteTmp(t)
  <2>1. PICK w : w = [saver[t] EXCEPT !.step = "swap"] OBVIOUS
  <2>2. saver' = [saver EXCEPT ![t] = w] /\ config' = config /\ tmp' = saver[t].conf
        /\ saver[t].step = "write"
    BY <1>6, <2>1 DEF WriteTmp, PlaceInv
  <2>3. Whole(w) /\ w.step = "swap" /\ w.lease = saver[t].lease /\ w.lines = saver[t].lines
    BY <1>5, <2>1
  <2>4. Fitting(tmp') BY <2>2 DEF PlaceInv
  <2>5. t = Enforcer => InWork(w)
    <3> SUFFICES ASSUME t = Enforcer PROVE InWork(w)
      OBVIOUS
    <3>1. InWork(saver[Enforcer]) BY <2>2 DEF PlaceInv
    <3> QED BY <2>3, <3>1 DEF InWork
  <2> QED BY <1>1, <1>4, <2>2, <2>3, <2>4, <2>5, PlaceStep
<1>7. CASE Replace(t) /\ saver' = [saver EXCEPT ![t] = Away]
  <2>1. Fitting(config') /\ tmp' = NoFile BY <1>4, <1>7 DEF Replace
  <2> QED BY <1>1, <1>2, <1>7, <2>1, PlaceStep
<1>8. CASE /\ Replace(t) /\ t = Enforcer /\ saver[t].step = "swap"
           /\ saver' = [saver EXCEPT ![t] = [saver[t] EXCEPT !.step = "file"]]
  <2>1. PICK w : w = [saver[t] EXCEPT !.step = "file"] OBVIOUS
  <2>2. Whole(w) /\ w.step = "file" /\ w.lease = saver[t].lease /\ w.lines = saver[t].lines
    BY <1>5, <2>1
  <2>3. Fitting(config') /\ tmp' = NoFile BY <1>4, <1>8 DEF Replace
  <2>4. InWork(w)
    <3>1. InWork(saver[Enforcer]) BY <1>8 DEF PlaceInv
    <3> QED BY <1>8, <2>2, <3>1 DEF InWork
  <2>5. saver' = [saver EXCEPT ![t] = w] BY <1>8, <2>1
  <2> QED BY <1>1, <2>2, <2>3, <2>4, <2>5, PlaceStep
<1>9. CASE Stop(t)
  <2>1. saver' = [saver EXCEPT ![t] = Away] /\ UNCHANGED <<config, tmp>> BY <1>9 DEF Stop
  <2> QED BY <1>1, <1>2, <1>4, <2>1, PlaceStep
<1>10. CASE Swap(t) BY <1>7, <1>8, <1>10 DEF Swap
<1>11. CASE RestartFails(t) BY <1>7, <1>11 DEF RestartFails
<1> QED BY <1>6, <1>9, <1>10, <1>11

(* A pass of the enforcer: what it computes keeps the places. *)
LEMMA EnforceKeepsPlaces == ASSUME PlaceInv, Enforce PROVE PlaceInv'
<1>1. PICK f : f = [m \in Mails |-> Renewed(m)] OBVIOUS
<1>2. PICK c : c = [config EXCEPT !.rules = Rules(f)] OBVIOUS
<1>3. PICK s : s = [Away EXCEPT !.step = IF c = config THEN "file" ELSE "write",
                                !.conf = c, !.lease = f, !.lines = Len(log)]
  OBVIOUS
<1>4. /\ Enforcer \in Tasks /\ saver' = [saver EXCEPT ![Enforcer] = s]
      /\ UNCHANGED <<config, tmp, lease, log, moment>>
  BY <1>1, <1>2, <1>3 DEF Enforce, Enter, Tasks
<1>5. Whole(s) /\ s.conf = c /\ s.lease = f /\ s.lines = Len(log) BY <1>3 DEF Whole, Away
<1>6. \A m \in Mails : f[m] = Renewed(m) BY <1>1
<1>7. Leases(f)
  <2>1. \A m \in Mails : Renewed(m) \in [Addresses -> Nat] /\ Few(m, Placed(Renewed(m)))
    BY RenewedKeeps
  <2>2. f \in [Mails -> [Addresses -> Nat]] BY <1>1, <2>1
  <2> QED BY <1>6, <2>1, <2>2 DEF Leases
<1>8. Fitting(c)
  <2>1. PICK r : r = Rules(f) OBVIOUS
  <2>2. c = [config EXCEPT !.rules = r] /\ config = [clients |-> config.clients, rules |-> config.rules]
    BY <1>2, <2>1 DEF PlaceInv, Fitting
  <2>3. c = [clients |-> c.clients, rules |-> c.rules] /\ c.rules = r BY <2>2
  <2>4. \A m \in Mails : r[m] = Placed(f[m]) BY <2>1 DEF Rules, Placed
  <2>5. \A m \in Mails : Few(m, Placed(f[m])) BY <1>7 DEF Leases
  <2> QED BY <2>3, <2>4, <2>5 DEF Fitting
<1>9. InWork(s)
  <2>1. Len(log) \in Nat BY DEF PlaceInv, LogOK
  <2>2. Past(f, Len(log) + 1) BY <1>6, <2>1, RenewedKeeps DEF Past
  <2>3. \A m \in Mails : \A a \in Alive(lease[m], moment) : f[m][a] # 0
    BY <1>6, RenewedKeeps
  <2> QED BY <1>5, <1>7, <2>1, <2>2, <2>3 DEF InWork
<1> QED BY <1>4, <1>5, <1>8, <1>9, PlaceStep DEF PlaceInv

(* The leases are filed with the lines that made them. *)
LEMMA FileKeepsPlaces == ASSUME PlaceInv, FileLeases PROVE PlaceInv'
<1>1. PICK s : s = saver[Enforcer] OBVIOUS
<1>2. /\ s.step = "file" /\ lease' = s.lease /\ log' = SubSeq(log, s.lines + 1, Len(log))
      /\ saver' = [saver EXCEPT ![Enforcer] = Away] /\ UNCHANGED <<config, tmp, moment>>
      /\ Enforcer \in Tasks
  BY <1>1 DEF FileLeases, Tasks
<1>3. InWork(s) BY <1>1, <1>2 DEF PlaceInv
<1>4. PICK R : R = [mail : Mails, address : Addresses, at : Nat] OBVIOUS
<1>5. log \in Seq(R) /\ Len(log) \in Nat /\ s.lines \in 0..Len(log)
  BY <1>3, <1>4 DEF PlaceInv, LogOK, InWork
<1>6. /\ log' \in Seq(R) /\ Len(log') = Len(log) - s.lines
      /\ \A i \in 1..Len(log') : log'[i] = log[s.lines + i] /\ s.lines + i \in (s.lines + 1)..Len(log)
  <2>1. PICK p, q \in Int : p = s.lines + 1 /\ q = Len(log) BY <1>5
  <2>2. \A i \in p..q : log[i] \in R BY <1>5, <2>1
  <2>3. /\ SubSeq(log, p, q) \in Seq(R) /\ Len(SubSeq(log, p, q)) = IF p <= q THEN q - p + 1 ELSE 0
        /\ \A i \in 1..(q - p + 1) : SubSeq(log, p, q)[i] = log[p + i - 1]
    BY <2>2, SubSeqProperties
  <2>4. Len(log') = Len(log) - s.lines /\ q - p + 1 = Len(log) - s.lines
    BY <1>2, <1>5, <2>1, <2>3
  <2>5. ASSUME NEW i \in 1..Len(log')
        PROVE  log'[i] = log[s.lines + i] /\ s.lines + i \in (s.lines + 1)..Len(log)
    <3>1. p + i - 1 = s.lines + i BY <1>5, <2>1, <2>4
    <3>2. log'[i] = log[p + i - 1] BY <1>2, <2>1, <2>3, <2>4
    <3>3. s.lines + i \in (s.lines + 1)..Len(log) BY <1>5, <2>4
    <3> QED BY <3>1, <3>2, <3>3
  <2> QED BY <1>2, <2>1, <2>3, <2>4, <2>5
<1>7. LogOK'
  <2>1. \A i \in 1..Len(log') : log'[i].at # 0 /\ log'[i].at <= moment
    <3>1. \A i \in (s.lines + 1)..Len(log) : i \in 1..Len(log) BY <1>5
    <3> QED BY <1>6, <3>1 DEF PlaceInv, LogOK
  <2> QED BY <1>2, <1>4, <1>6, <2>1 DEF PlaceInv, LogOK
<1>8. Leases(lease') BY <1>2, <1>3 DEF InWork
<1>9. Past(lease, 1)'
  <2> SUFFICES ASSUME NEW m \in Mails, NEW a \in Addresses
               PROVE  /\ s.lease[m][a] <= moment
                      /\ \A i \in 1..Len(log') : s.lease[m][a] <= log'[i].at
    BY <1>2 DEF Past
  <2>1. /\ s.lease[m][a] <= moment
        /\ \A i \in (s.lines + 1)..Len(log) : s.lease[m][a] <= log[i].at
    BY <1>3 DEF InWork, Past
  <2> QED BY <1>6, <2>1
<1>10. /\ saver' = [t \in Tasks |-> saver'[t]] /\ saver'[Enforcer] = Away
       /\ \A t \in Tasks \ {Enforcer} : saver'[t] = saver[t]
  BY <1>2 DEF PlaceInv
<1>11. Whole(Away) /\ Away.step = "away" BY DEF Whole, Away
<1>12. \A t \in Tasks : Whole(saver'[t]) /\ (saver'[t].step = "write" => Fitting(saver'[t].conf))
  BY <1>10, <1>11 DEF PlaceInv
<1> QED BY <1>2, <1>7, <1>8, <1>9, <1>10, <1>11, <1>12 DEF PlaceInv

LEMMA LinesAreLines ==
    ASSUME NEW R, NEW s \in Seq(R)
    PROVE  Len(s) \in Nat /\ \A i \in 1..Len(s) : s[i] \in R
OBVIOUS

(* A later moment, a longer log. *)
LEMMA LaterPlaces ==
    ASSUME PlaceInv, UNCHANGED <<config, tmp, saver, lease>>,
           moment' \in Nat, moment <= moment',
           NEW R, R = [mail : Mails, address : Addresses, at : Nat], log' \in Seq(R),
           Len(log) <= Len(log'),
           \A i \in 1..Len(log') : \/ i \in 1..Len(log) /\ log'[i] = log[i]
                                   \/ log'[i].at = moment
    PROVE  PlaceInv'
<1>1. /\ moment \in Nat \ {0} /\ log \in Seq(R) /\ Len(log) \in Nat /\ Len(log') \in Nat
      /\ \A i \in 1..Len(log) : log[i].at # 0 /\ log[i].at <= moment /\ log[i].at \in Nat
  <2>1. moment \in Nat \ {0} /\ log \in Seq(R) BY DEF PlaceInv, LogOK
  <2>2. Len(log) \in Nat /\ Len(log') \in Nat /\ \A i \in 1..Len(log) : log[i] \in R
    <3>1. Len(log') \in Nat BY LinesAreLines
    <3> QED BY <2>1, <3>1, LinesAreLines
  <2>3. \A i \in 1..Len(log) : log[i].at \in Nat BY <2>2
  <2>4. \A i \in 1..Len(log) : log[i].at # 0 /\ log[i].at <= moment BY DEF PlaceInv, LogOK
  <2> QED BY <2>1, <2>2, <2>3, <2>4
<1>2. moment' # 0 BY <1>1
<1>3. LogOK'
  <2>1. ASSUME NEW i \in 1..Len(log') PROVE log'[i].at # 0 /\ log'[i].at <= moment'
    <3>1. PICK at : at = log'[i].at OBVIOUS
    <3>2. at \in Nat /\ at # 0 /\ at <= moment BY <1>1, <3>1
    <3>3. at <= moment' BY <1>1, <3>2
    <3> QED BY <3>1, <3>2, <3>3
  <2> QED BY <1>2, <2>1 DEF LogOK
<1>4. ASSUME NEW f, NEW k \in Nat, k # 0, Leases(f), Past(f, k) PROVE Past(f, k)'
  <2> SUFFICES ASSUME NEW m \in Mails, NEW a \in Addresses
               PROVE  /\ f[m][a] <= moment'
                      /\ \A i \in k..Len(log') : f[m][a] <= log'[i].at
    BY DEF Past
  <2>1. PICK n \in Nat : n = f[m][a] BY <1>4 DEF Leases
  <2>2. n <= moment /\ \A i \in k..Len(log) : n <= log[i].at BY <1>4, <2>1 DEF Past
  <2>3. n <= moment' BY <1>1, <2>2
  <2>4. ASSUME NEW i \in k..Len(log') PROVE n <= log'[i].at
    <3>1. i \in 1..Len(log') BY <1>1, <1>4
    <3>2. CASE log'[i].at = moment BY <2>2, <3>2
    <3>3. CASE i \in 1..Len(log) /\ log'[i] = log[i]
      <4>1. i \in k..Len(log) BY <1>1, <1>4, <3>3
      <4> QED BY <2>2, <3>3, <4>1
    <3> QED BY <3>1, <3>2, <3>3
  <2> QED BY <2>1, <2>3, <2>4
<1>5. Leases(lease) /\ Past(lease, 1) BY DEF PlaceInv
<1>6. Past(lease, 1)'
  <2>1. PICK f : f = lease OBVIOUS
  <2>2. Past(f, 1)' BY <1>4, <1>5, <2>1
  <2> QED BY <2>1, <2>2 DEF Past
<1>7. ASSUME NEW s, InWork(s) PROVE InWork(s)'
  <2>1. Leases(s.lease) /\ s.lines \in 0..Len(log) /\ Past(s.lease, s.lines + 1) BY <1>7 DEF InWork
  <2>2. s.lines \in Nat /\ s.lines + 1 # 0 /\ s.lines + 1 \in Nat /\ s.lines \in 0..Len(log')
    BY <1>1, <2>1
  <2>3. Past(s.lease, s.lines + 1)' BY <1>4, <2>1, <2>2
  <2>4. ASSUME NEW m \in Mails, NEW a \in Alive(lease[m], moment') PROVE a \in Alive(lease[m], moment)
    <3>1. a \in Addresses /\ lease[m][a] # 0 /\ lease[m][a] + LeaseTime >= moment' BY <2>4 DEF Alive
    <3>2. lease[m][a] \in Nat BY <1>5, <3>1 DEF Leases
    <3>3. lease[m][a] + LeaseTime >= moment BY <1>1, <3>1, <3>2, NodeAssumption
    <3> QED BY <3>1, <3>3 DEF Alive
  <2>5. \A m \in Mails : \A a \in Alive(lease[m], moment) : s.lease[m][a] # 0 BY <1>7 DEF InWork
  <2>6. \A m \in Mails : \A a \in Alive(lease[m], moment') : s.lease[m][a] # 0 BY <2>4, <2>5
  <2> QED BY <2>1, <2>2, <2>3, <2>6 DEF InWork
<1>8. (saver[Enforcer].step \in {"write", "swap", "file"} => InWork(saver[Enforcer]))'
  <2>1. PICK s : s = saver[Enforcer] OBVIOUS
  <2>2. s.step \in {"write", "swap", "file"} => InWork(s)' BY <1>7, <2>1 DEF PlaceInv
  <2>3. InWork(saver[Enforcer])' <=> InWork(s)' BY <2>1 DEF InWork, Past
  <2> QED BY <2>1, <2>2, <2>3
<1> QED BY <1>3, <1>5, <1>6, <1>8 DEF PlaceInv

(* A line comes to the log; time goes on. *)
LEMMA WorldKeepsPlaces ==
    ASSUME PlaceInv, Elapse \/ \E m \in Mails, a \in Addresses : Connect(m, a)
    PROVE  PlaceInv'
<1>1. UNCHANGED <<config, tmp, saver, lease>> BY DEF Elapse, Connect
<1>2. PICK R : R = [mail : Mails, address : Addresses, at : Nat] OBVIOUS
<1>3. moment \in Nat /\ log \in Seq(R) /\ Len(log) \in Nat BY <1>2 DEF PlaceInv, LogOK
<1>4. CASE Elapse
  <2>1. moment' = moment + 1 /\ log' = log BY <1>4 DEF Elapse
  <2>2. moment' \in Nat /\ moment <= moment' /\ Len(log) <= Len(log')
        /\ \A i \in 1..Len(log') : i \in 1..Len(log) /\ log'[i] = log[i]
    BY <1>3, <2>1
  <2> QED BY <1>1, <1>2, <1>3, <2>1, <2>2, LaterPlaces
<1>5. ASSUME NEW m \in Mails, NEW a \in Addresses, Connect(m, a) PROVE PlaceInv'
  <2>1. PICK l : l = [mail |-> m, address |-> a, at |-> moment] OBVIOUS
  <2>2. l \in R /\ l.at = moment BY <1>2, <1>3, <2>1
  <2>3. log' = Append(log, l) /\ moment' = moment BY <1>5, <2>1 DEF Connect
  <2>4. /\ log' \in Seq(R) /\ Len(log') = Len(log) + 1 /\ log'[Len(log) + 1] = l
        /\ \A i \in 1..Len(log) : log'[i] = log[i]
    BY <1>3, <2>2, <2>3, AppendProperties
  <2>5. \A i \in 1..Len(log') : \/ i \in 1..Len(log) /\ log'[i] = log[i]
                                \/ log'[i].at = moment
    <3>1. \A i \in 1..Len(log') : i \in 1..Len(log) \/ i = Len(log) + 1 BY <1>3, <2>4
    <3> QED BY <2>2, <2>4, <3>1
  <2>6. moment' \in Nat /\ moment <= moment' /\ Len(log) <= Len(log') BY <1>3, <2>3, <2>4
  <2> QED BY <1>1, <1>2, <2>4, <2>5, <2>6, LaterPlaces
<1> QED BY <1>4, <1>5

LEMMA PlaceInvNext == PlaceInv /\ [NodeNext]_nodeVars => PlaceInv'
<1> SUFFICES ASSUME PlaceInv, [NodeNext]_nodeVars PROVE PlaceInv'
  OBVIOUS
<1>1. ASSUME NEW t \in Savers, NEW m \in Mails, NEW on \in BOOLEAN, NEW provision \in BOOLEAN,
             LoadConfig(t, m, on, provision)
      PROVE  PlaceInv'
  BY <1>1, SaverKeepsPlaces
<1>2. ASSUME NEW t \in Tasks, WriteTmp(t) \/ Swap(t) \/ RestartFails(t) \/ Stop(t)
      PROVE  PlaceInv'
  BY <1>2, WorkKeepsPlaces
<1>3. CASE Enforce BY <1>3, EnforceKeepsPlaces
<1>4. CASE FileLeases BY <1>4, FileKeepsPlaces
<1>5. CASE Elapse \/ \E m \in Mails, a \in Addresses : Connect(m, a) BY <1>5, WorldKeepsPlaces
<1>6. CASE UNCHANGED nodeVars BY <1>6 DEF nodeVars, PlaceInv, LogOK, Past, InWork
<1> QED BY <1>1, <1>2, <1>3, <1>4, <1>5, <1>6 DEF NodeNext

LEMMA PlaceInvHolds == NodeSpec => []PlaceInv
<1>1. NodeInit => PlaceInv BY PlaceInit
<1>2. PlaceInv /\ [NodeNext]_nodeVars => PlaceInv' BY PlaceInvNext
<1> QED BY <1>1, <1>2, PTL DEF NodeSpec

(* PlacesKept, from the code of update_leases and run_once of the enforcer, *)
(* for any number of addresses, any limit, lease time and white list: the   *)
(* rules never let through more than the limit, and no pass gives the place *)
(* of an address that is still seen away.                                   *)
THEOREM PlacesAreKept == NodeSpec => PlacesKept
<1>1. ASSUME PlaceInv, PlaceInv', [NodeNext]_nodeVars, NEW m \in Mails
      PROVE  /\ Cardinality({a \in config'.rules[m] : <<m, a>> \notin Whitelist}) <= MaxAddresses
             /\ \A a \in Alive(lease[m], moment) : lease'[m][a] # 0
  <2>1. Few(m, config'.rules[m]) BY <1>1 DEF PlaceInv, Fitting
  <2>2. CASE FileLeases
    <3>1. lease' = saver[Enforcer].lease /\ InWork(saver[Enforcer])
      BY <1>1, <2>2 DEF FileLeases, PlaceInv
    <3> QED BY <2>1, <3>1 DEF Few, InWork
  <2>3. CASE lease' = lease BY <2>1, <2>3 DEF Few, Alive
  <2>4. ~FileLeases => lease' = lease
    BY <1>1 DEF NodeNext, nodeVars, LoadConfig, WriteTmp, Swap, RestartFails, Replace, Stop,
                Enforce, Elapse, Connect
  <2> QED BY <2>2, <2>3, <2>4
<1>2. PlaceInv /\ PlaceInv' /\ [NodeNext]_nodeVars
      => [\A m \in Mails :
             /\ Cardinality({a \in config'.rules[m] : <<m, a>> \notin Whitelist}) <= MaxAddresses
             /\ \A a \in Alive(lease[m], moment) : lease'[m][a] # 0]_nodeVars
  BY <1>1
<1> QED BY <1>2, PlaceInvHolds, PTL DEF NodeSpec, PlacesKept
=============================================================================
