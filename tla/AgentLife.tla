------------------------------ MODULE AgentLife ------------------------------
(***************************************************************************)
(* The life of agents: rent, loans, wills, extensions and the reaper that  *)
(* ends an epoch, with death and inheritance (crates/agent-life/src/       *)
(* lib.rs).  Souls are numbered in the order of their ids; amounts are     *)
(* small integers.  A will is kept by its soul: one a soul.                *)
(***************************************************************************)
EXTENDS Values

CONSTANTS
  Souls,          \* souls at first: id -> [balance, parent] (parent 0 for none)
  Unborn,         \* ids for the heirs that a will asks for
  Wills,          \* the wills that are tried: soul, heirs, heirs to be born
  Rent,           \* base rent a soul pays an epoch
  ExtensionPrice, \* ext_base_micro_credits, with an exponent of one
  EpochsGranted,  \* what an extension adds
  NaturalLife,    \* natural_life_epochs
  Grace,          \* insolvency_grace_epochs
  ChildGrant,     \* child_grant_micro_credits
  DebtCeiling,    \* debt_ceiling_micro_credits
  Epochs,         \* bound: the epochs the reaper is called with
  MaxReaps,       \* bound: calls of the reaper
  MaxLifeSteps    \* bound: calls other than the reaper's

\* Amounts and epochs are unsigned; an id is not that of no parent.
ASSUME LifeAssumption ==
  /\ Rent \in Nat /\ Grace \in Nat /\ NaturalLife \in Nat \ {0}
  /\ {ExtensionPrice, EpochsGranted, ChildGrant, DebtCeiling} \subseteq Nat /\ Epochs \subseteq Nat
  /\ IsFiniteSet(DOMAIN Souls) /\ IsFiniteSet(Unborn)
  /\ DOMAIN Souls \subseteq Nat \ {0} /\ Unborn \subseteq Nat \ {0}
  /\ Wills \subseteq (DOMAIN Souls) \X (SUBSET DOMAIN Souls) \X (SUBSET Unborn)
  /\ \A s \in DOMAIN Souls : Souls[s].balance \in Nat /\ Souls[s].parent \in Nat

VARIABLES
  souls,       \* LifeState.souls: id -> soul
  loan,        \* LifeState.loans, one in play: [lender, borrower, principal, outstanding, status]
  wills,       \* LifeState.wills: soul -> [heirs, unborn]
  settledSouls,     \* LifeState.settlements: <<soul, epoch>>, in order
  epoch,       \* LifeState.epoch
  books,       \* history: [given, spent, burned]
  brokeRun,    \* history: soul -> the last calls of the reaper in a row that found it broke:
               \* the epoch of the first one and how many they are
  reaps,
  lifeSteps

lifeVars == <<souls, loan, wills, settledSouls, epoch, books, brokeRun, reaps, lifeSteps>>

AllSouls == DOMAIN Souls \cup Unborn
NoLoan == [lender |-> 0, borrower |-> 0, principal |-> 0, outstanding |-> 0, status |-> "none"]

LifeStep == lifeSteps < MaxLifeSteps /\ lifeSteps' = lifeSteps + 1
Alive(S, s) == s \in DOMAIN S /\ S[s].status # "dead"
Worth(S) == Total([s \in DOMAIN S |-> S[s].balance])

\* create_soul
NewSoul(balance, born, parent) ==
  [status |-> "alive", balance |-> balance, debt |-> 0, natural |-> born + NaturalLife,
   extensions |-> 0, parent |-> parent, since |-> 0 - 1, reason |-> "none"]
-----------------------------------------------------------------------------
\* open_credit_line
OpenCreditLine(lender, borrower, principal) ==
  /\ LifeStep
  /\ loan = NoLoan /\ principal <= DebtCeiling
  /\ {lender, borrower} \subseteq DOMAIN souls
  /\ loan' = [lender |-> lender, borrower |-> borrower, principal |-> principal,
              outstanding |-> principal, status |-> "open"]
  /\ UNCHANGED <<souls, wills, settledSouls, epoch, books, brokeRun, reaps>>

\* accept_credit_line.  Nothing is taken from the lender.
AcceptCreditLine ==
  /\ LifeStep
  /\ loan.status = "open"
  /\ loan' = [loan EXCEPT !.status = "accepted"]
  /\ souls' = [souls EXCEPT ![loan.borrower].balance = @ + loan.principal]
  /\ books' = [books EXCEPT !.given = @ + loan.principal]
  /\ UNCHANGED <<wills, settledSouls, epoch, brokeRun, reaps>>

\* repay_credit_line.  Nothing is given to the lender; any debt goes down.
RepayCreditLine(amount) ==
  /\ LifeStep
  /\ loan.status = "accepted"
  /\ \E pay \in {Min({amount, loan.outstanding})} :
       /\ souls[loan.borrower].balance >= pay
       /\ souls' = [souls EXCEPT ![loan.borrower].balance = @ - pay, ![loan.borrower].debt = Minus(@, pay)]
       /\ loan' = [loan EXCEPT !.outstanding = @ - pay,
                               !.status = IF loan.outstanding = pay THEN "repaid" ELSE @]
       /\ books' = [books EXCEPT !.spent = @ + pay]
  /\ UNCHANGED <<wills, settledSouls, epoch, brokeRun, reaps>>

\* register_will
RegisterWill(s, heirs, unborn) ==
  /\ LifeStep
  /\ s \in DOMAIN souls
  /\ wills' = Put(wills, s, [heirs |-> heirs, unborn |-> unborn])
  /\ UNCHANGED <<souls, loan, settledSouls, epoch, books, brokeRun, reaps>>

\* owner_top_up, of a dead soul too
OwnerTopUp(s, amount) ==
  /\ LifeStep
  /\ souls' = [souls EXCEPT ![s].balance = @ + amount]
  /\ books' = [books EXCEPT !.given = @ + amount]
  /\ UNCHANGED <<loan, wills, settledSouls, epoch, brokeRun, reaps>>

\* purchase_extension with extension_price
PurchaseExtension(s) ==
  /\ LifeStep
  /\ Alive(souls, s)
  /\ \E price \in {ExtensionPrice * (souls[s].extensions + 1)} :
       /\ souls[s].balance >= price
       /\ souls' = [souls EXCEPT ![s].balance = @ - price, ![s].extensions = @ + 1, ![s].natural = @ + EpochsGranted]
       /\ books' = [books EXCEPT !.spent = @ + price]
  /\ UNCHANGED <<loan, wills, settledSouls, epoch, brokeRun, reaps>>
-----------------------------------------------------------------------------
\* charge_rent of every living soul: what it cannot pay becomes debt
Charged(S) ==
  [s \in DOMAIN S |-> IF S[s].status = "dead" THEN S[s]
    ELSE [S[s] EXCEPT !.balance = Minus(@, Rent), !.debt = @ + Minus(Rent, S[s].balance)]]

\* accrue_interest: one unit an epoch on what is outstanding
Interest == IF loan.status = "accepted" /\ loan.outstanding > 0 THEN 1 ELSE 0
WithInterest(S) ==
  [s \in DOMAIN S |-> IF Interest > 0 /\ s = loan.borrower THEN [S[s] EXCEPT !.debt = @ + Interest] ELSE S[s]]

Broke(soul) == soul.status # "dead" /\ soul.debt > 0 /\ soul.balance = 0

\* mark_insolvent_souls
Marked(S, e) ==
  [s \in DOMAIN S |->
    IF S[s].status = "dead" THEN S[s]
    ELSE IF Broke(S[s]) THEN [S[s] EXCEPT !.since = IF @ < 0 THEN e ELSE @, !.status = "quarantined"]
    ELSE [S[s] EXCEPT !.since = 0 - 1, !.status = "alive"]]

\* mark_dead
Dead(S, s, reason) == [S EXCEPT ![s].status = "dead", ![s].reason = reason]

\* spawn_unborn_heirs
Spawned(S, s, e) ==
  LET born == IF s \in DOMAIN wills THEN wills[s].unborn \ DOMAIN S ELSE {}
  IN [x \in DOMAIN S \cup born |-> IF x \in born THEN NewSoul(ChildGrant, e, s) ELSE S[x]]

\* kin_set: the living heirs of the will, else the living children, else the siblings
KinSet(S, s) ==
  LET named == {h \in IF s \in DOMAIN wills THEN wills[s].heirs ELSE {} : Alive(S, h)}
      children == {c \in DOMAIN S : S[c].parent = s /\ Alive(S, c)}
      siblings == {c \in DOMAIN S \ {s} : S[c].parent = S[s].parent /\ Alive(S, c)}
  IN IF named # {} THEN named ELSE IF children # {} THEN children
     ELSE IF S[s].parent # 0 THEN siblings ELSE {}

\* Seeded defect: the remainder of an estate is given to nobody.
LegacyRounded(heirs, h, estate) == estate \div Cardinality(heirs)

\* Ids in their order.
IdOrder(S) == {p \in S \X S : p[1] < p[2]}

\* What an heir gets: equal parts, and one more for the first ones while dust is left
Legacy(heirs, h, estate) ==
  LET n == Cardinality(heirs)
      place == Place(IdOrder(heirs), heirs, h)
  IN (estate \div n) + IF place < estate % n THEN 1 ELSE 0

\* settle_inheritance; an estate without heirs is burned
Inherited(S, s) ==
  LET heirs == KinSet(S, s)
  IN [x \in DOMAIN S |->
       IF x = s THEN [S[x] EXCEPT !.balance = 0]
       ELSE IF x \in heirs THEN [S[x] EXCEPT !.balance = @ + Legacy(heirs, x, S[s].balance)]
       ELSE S[x]]

\* Whether the reaper ends a soul's life in this epoch, and why
Due(soul, e) ==
  IF soul.status = "dead" THEN "none"
  ELSE IF soul.natural <= e THEN "natural"
  ELSE IF soul.since >= 0 /\ Minus(e, soul.since) >= Grace THEN "insolvency"
  ELSE "none"

\* The reaper at one soul
ReapOne(r, s, e) ==
  LET why == Due(r.souls[s], e)
      after == Spawned(Dead(r.souls, s, why), s, e)
      kin == KinSet(after, s)
  IN IF why = "none" THEN r
     ELSE [souls |-> Inherited(after, s),
           settled |-> Append(r.settled, <<s, e>>),
           granted |-> r.granted + ChildGrant * Cardinality(DOMAIN after \ DOMAIN r.souls),
           burned |-> r.burned + IF kin = {} THEN after[s].balance ELSE 0]

\* The reaper goes through the souls in the order of their ids, which it takes before
\* it starts.
Reaped(marked, e) ==
  LET ids == InPlaces(DOMAIN marked, IdOrder(DOMAIN marked))
      reap[i \in 0 .. Len(ids)] ==
        IF i = 0 THEN [souls |-> marked, settled |-> settledSouls, granted |-> 0, burned |-> 0]
        ELSE ReapOne(reap[i - 1], ids[i], e)
  IN reap[Len(ids)]

\* No call in a row, and the row with one more call at e.
NoRun == [first |-> 0, runs |-> 0]
Longer(run, e) == [first |-> IF run.runs = 0 THEN e ELSE run.first, runs |-> run.runs + 1]

\* reaper_epoch: rent, interest, insolvency, then death and inheritance soul by soul.  The
\* epoch is the caller's: it may be the last one again, skip some or be an earlier one.
ReaperEpoch(e) ==
  /\ reaps < MaxReaps /\ reaps' = reaps + 1
  /\ epoch' = e
  /\ \E marked \in {Marked(WithInterest(Charged(souls)), e)} :
       \E r \in {Reaped(marked, e)} :
         /\ souls' = r.souls
         /\ settledSouls' = r.settled
         /\ books' = [given |-> books.given + r.granted,
                      spent |-> books.spent + Worth(souls) - Worth(marked),
                      burned |-> books.burned + r.burned]
         /\ brokeRun' = [s \in AllSouls |->
              IF s \in DOMAIN marked /\ Broke(marked[s]) THEN Longer(brokeRun[s], e) ELSE NoRun]
  /\ loan' = [loan EXCEPT !.outstanding = @ + Interest]
  /\ UNCHANGED <<wills, lifeSteps>>
-----------------------------------------------------------------------------
LifeInit ==
  /\ souls = [s \in DOMAIN Souls |-> NewSoul(Souls[s].balance, 0, Souls[s].parent)]
  /\ loan = NoLoan /\ wills = Empty /\ settledSouls = <<>> /\ epoch = 0
  /\ books = [given |-> Worth(Souls), spent |-> 0, burned |-> 0]
  /\ brokeRun = [s \in AllSouls |-> NoRun] /\ reaps = 0 /\ lifeSteps = 0

LifeNext ==
  \/ \E a, b \in DOMAIN Souls : a # b /\ OpenCreditLine(a, b, DebtCeiling)
  \/ AcceptCreditLine
  \/ \E amount \in 1 .. 2 : RepayCreditLine(amount)
  \/ \E w \in Wills : RegisterWill(w[1], w[2], w[3])
  \/ \E s \in DOMAIN souls : OwnerTopUp(s, 1) \/ PurchaseExtension(s)
  \/ \E e \in Epochs : ReaperEpoch(e)

LifeSpec == LifeInit /\ [][LifeNext]_lifeVars
-----------------------------------------------------------------------------
\* Through several deaths in one epoch, heirs who die after they inherited and heirs born
\* of a will, credits move and are not made or lost: what souls hold is what they were
\* given less what they paid and what was burned for want of an heir.
EstatesConserved == Worth(souls) + books.spent + books.burned = books.given

\* Death settles an estate once, however many epochs follow and whatever the dead soul is
\* given later: a soul is dead exactly when one settlement of it is on record.
SettledOnce ==
  \A s \in DOMAIN souls :
    Cardinality({i \in DOMAIN settledSouls : settledSouls[i][1] = s}) = IF souls[s].status = "dead" THEN 1 ELSE 0

\* Insolvency kills only a soul that every call of the reaper found broke since a first one,
\* and unless there is no grace that one was an earlier call, with an epoch that is the whole
\* grace before this one (reaper_epoch, mark_insolvent_souls): a gift or a repayment in between
\* starts the grace anew.  Calls are not counted against epochs: a caller that skips the
\* epochs of the grace kills at its second call, as the repository's own test does.
GraceGranted ==
  [][\A s \in DOMAIN souls :
       souls[s].reason = "none" /\ souls'[s].reason = "insolvency" =>
         /\ brokeRun'[s].runs >= 1
         /\ Grace > 0 => brokeRun'[s].runs >= 2 /\ epoch' >= brokeRun'[s].first + Grace]_lifeVars

\* Estates (agent-life/src/lib.rs): through rent, loans, gifts and deaths in
\* any order money is neither made nor lost, and every soul is settled once.
EstatesSafe ==
  /\ EstatesConserved /\ SettledOnce

=============================================================================
