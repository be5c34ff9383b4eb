----------------------- MODULE OcnPaymentManagerProofs -----------------------
(***************************************************************************)
(* Theorems about OcnPaymentManager, for any accounts, stablecoins,        *)
(* amounts, staking period and bounds.                                     *)
(***************************************************************************)
EXTENDS OcnPaymentManager, FiniteSetTheorems, TLAPS

\* The steps that move no stake: tokens moved by their owners, administration.
Elsewhere == UNCHANGED stakeVars

LEMMA AdminStepsElsewhere ==
  ASSUME NEW sender \in Account, AdminStep(sender)
  PROVE  Elsewhere /\ UNCHANGED <<balance, blockNumber>>
BY DEF AdminStep, SetOperator, SetFundingYearlyAmount, SetStablecoinAddress, TransferOwnership,
       ReassignRole, Upgrade, Elsewhere, tokenVars

LEMMA TokenStepsElsewhere == ASSUME TokenStep PROVE Elsewhere
BY DEF TokenStep, Approve, Transfer, Mine, Elsewhere

\* A number of whole tokens is a natural number of a token's smallest units.
LEMMA UnitsNat ==
  ASSUME PaymentAssumption, NEW y \in YearlyAmounts
  PROVE  y * Unit \in Nat
<1>1. y \in Nat /\ Unit \in Nat
  BY DEF PaymentAssumption
<1>2. \A m, n \in Nat : m * n \in Nat
  OBVIOUS
<1> QED
  BY ONLY <1>1, <1>2

\* Moving an amount the sender holds leaves natural numbers everywhere.
LEMMA MovedType ==
  ASSUME NEW held \in [Holder -> Nat], NEW from \in Holder, NEW to \in Holder,
         NEW amount \in Nat, held[from] >= amount
  PROVE  Moved(held, from, to, amount) \in [Holder -> Nat]
<1> SUFFICES ASSUME NEW h \in Holder
             PROVE  held[h] + (IF h = to THEN amount ELSE 0)
                      - (IF h = from THEN amount ELSE 0) \in Nat
  BY DEF Moved
<1>1. CASE h = from
  BY <1>1
<1>2. CASE h # from
  BY <1>2
<1> QED
  BY <1>1, <1>2

-----------------------------------------------------------------------------
(* Type correctness *)

\* Every transaction keeps the type of every variable: no balance and no
\* allowance is ever driven below zero.
THEOREM TypeCorrect == ASSUME PaymentAssumption PROVE Spec => []TypeOK
<1> USE DEF PaymentAssumption
<1>0. \A y \in YearlyAmounts : y * Unit \in Nat
  BY UnitsNat
<1>1. Init => TypeOK
  BY <1>0 DEF Init, TypeOK, Address
<1>2. TypeOK /\ [Next]_vars => TypeOK'
  <2> SUFFICES ASSUME TypeOK, [Next]_vars PROVE TypeOK'
    OBVIOUS
  <2>1. CASE UNCHANGED vars
    BY <2>1 DEF TypeOK, vars, roleVars, settingVars, stakeVars, tokenVars
  <2>2. CASE TokenStep
    <3>1. ASSUME NEW a \in Account, NEW t \in Token, NEW y \in YearlyAmounts,
                 Approve(a, t, y * Unit)
          PROVE  TypeOK'
      BY <1>0, <3>1 DEF Approve, TypeOK, roleVars, settingVars, stakeVars
    <3>2. ASSUME NEW a \in Account, NEW h \in Holder, NEW t \in Token, NEW y \in YearlyAmounts,
                 Transfer(a, h, t, y * Unit)
          PROVE  TypeOK'
      <4>1. Moved(balance[t], a, h, y * Unit) \in [Holder -> Nat]
        BY <1>0, <3>2, MovedType DEF Transfer, TypeOK, Holder
      <4> QED
        BY <3>2, <4>1 DEF Transfer, TypeOK, roleVars, settingVars, stakeVars
    <3>3. CASE Mine
      BY <3>3 DEF Mine, TypeOK, roleVars, settingVars, stakeVars, tokenVars
    <3> QED
      BY <2>2, <3>1, <3>2, <3>3 DEF TokenStep
  <2>3. CASE StakeStep
    <3>1. ASSUME NEW a \in Account, NEW p \in Address, Pay(a, p) PROVE TypeOK'
      <4>1. Moved(balance[euroStablecoin], a, Manager, fundingYearlyAmount) \in [Holder -> Nat]
        BY <3>1, MovedType DEF Pay, TypeOK, Holder
      <4>2. allowance[euroStablecoin][a] - fundingYearlyAmount \in Nat
        BY <3>1 DEF Pay, TypeOK
      <4>3. balance' \in [Token -> [Holder -> Nat]] /\ allowance' \in [Token -> [Account -> Nat]]
        BY <3>1, <4>1, <4>2 DEF Pay, TypeOK
      <4>4. stakedFunds' \in [Address -> Nat] /\ stakingBlock' \in [Address -> Nat]
        BY <3>1 DEF Pay, Dated, TypeOK
      <4> QED
        BY <3>1, <4>3, <4>4 DEF Pay, Dated, TypeOK, roleVars, settingVars
    <3>2. ASSUME NEW p \in Address, WithdrawToRegistryOperator(p) PROVE TypeOK'
      <4>1. operatorAddress \in Holder
        BY <3>2 DEF WithdrawToRegistryOperator, TypeOK, Address, Holder
      <4>2. Moved(balance[euroStablecoin], Manager, operatorAddress, stakedFunds[p])
              \in [Holder -> Nat]
        BY <3>2, <4>1, MovedType DEF WithdrawToRegistryOperator, AmountToWithdraw, TypeOK, Holder
      <4> QED
        BY <3>2, <4>2 DEF WithdrawToRegistryOperator, AmountToWithdraw, StakeCleared, TypeOK,
                          roleVars, settingVars
    <3> QED
      BY <2>3, <3>1, <3>2 DEF StakeStep
  <2>4. ASSUME NEW sender \in Account, AdminStep(sender) PROVE TypeOK'
    <3> USE DEF TypeOK, stakeVars, tokenVars, roleVars, settingVars
    <3>1. ASSUME NEW a \in Address, SetOperator(sender, a) PROVE TypeOK'
      BY <3>1 DEF SetOperator
    <3>2. ASSUME NEW y \in YearlyAmounts, SetFundingYearlyAmount(sender, y) PROVE TypeOK'
      BY <1>0, <3>2 DEF SetFundingYearlyAmount
    <3>3. ASSUME NEW t \in Token, SetStablecoinAddress(sender, t) PROVE TypeOK'
      BY <3>3 DEF SetStablecoinAddress
    <3>4. ASSUME NEW a \in Address, TransferOwnership(sender, a) PROVE TypeOK'
      BY <3>4 DEF TransferOwnership, Transferred, Granted, Revoked
    <3>5. ASSUME NEW a \in Address, ReassignRole(sender, a) PROVE TypeOK'
      <4>1. admins' \subseteq Address /\ upgraders' \subseteq Address
        BY <3>5 DEF ReassignRole, Reassigned, Granted, Revoked
      <4> QED
        BY <3>5, <4>1 DEF ReassignRole
    <3>6. CASE Upgrade(sender)
      BY <3>6 DEF Upgrade
    <3> QED
      BY <2>4, <3>1, <3>2, <3>3, <3>4, <3>5, <3>6 DEF AdminStep
  <2> QED
    BY <2>1, <2>2, <2>3, <2>4 DEF Next
<1> QED
  BY <1>1, <1>2, PTL DEF Spec

-----------------------------------------------------------------------------
(* Stakes *)

\* Every stake carries the block it was made in, which is not in the future.
THEOREM StakesStayDated == ASSUME PaymentAssumption PROVE Spec => []StakesDated
<1>1. Init => StakesDated
  BY DEF Init, StakesDated
<1>2. TypeOK /\ StakesDated /\ [Next]_vars => StakesDated'
  <2> SUFFICES ASSUME TypeOK, StakesDated, [Next]_vars PROVE StakesDated'
    OBVIOUS
  <2>1. ASSUME Elsewhere, blockNumber' >= blockNumber, blockNumber' \in Nat PROVE StakesDated'
    BY <2>1 DEF Elsewhere, stakeVars, StakesDated, TypeOK
  <2>2. CASE UNCHANGED vars
    BY <2>1, <2>2 DEF vars, Elsewhere, TypeOK
  <2>3. CASE TokenStep
    <3>1. blockNumber' >= blockNumber /\ blockNumber' \in Nat
      BY <2>3 DEF TokenStep, Approve, Transfer, Mine, TypeOK
    <3> QED
      BY <2>1, <2>3, <3>1, TokenStepsElsewhere
  <2>4. ASSUME NEW a \in Account, NEW p \in Address, Pay(a, p) PROVE StakesDated'
    BY <2>4 DEF Pay, Dated, StakesDated, TypeOK
  <2>5. ASSUME NEW p \in Address, WithdrawToRegistryOperator(p) PROVE StakesDated'
    BY <2>5 DEF WithdrawToRegistryOperator, StakeCleared, StakesDated, TypeOK
  <2>6. ASSUME NEW sender \in Account, AdminStep(sender) PROVE StakesDated'
    BY <2>1, <2>6, AdminStepsElsewhere DEF TypeOK
  <2> QED
    BY <2>2, <2>3, <2>4, <2>5, <2>6 DEF Next, StakeStep
<1> QED
  BY <1>1, <1>2, TypeCorrect, PTL DEF Spec

\* A stake is neither moved nor given another staking block before it is
\* mature, whoever pays, withdraws, administers or upgrades in between.
THEOREM StakesUntouchedUntilMature ==
  ASSUME PaymentAssumption PROVE Spec => StakeUntouchedUntilMature
<1> DEFINE Untouched ==
      \A p \in Address :
        stakedFunds[p] > 0 /\ blockNumber - stakingBlock[p] < StakingPeriod =>
          UNCHANGED <<stakedFunds[p], stakingBlock[p]>>
<1>1. TypeOK /\ [Next]_vars => [Untouched]_vars
  <2> SUFFICES ASSUME TypeOK, Next PROVE Untouched
    OBVIOUS
  <2>1. Elsewhere => Untouched
    BY DEF Elsewhere, stakeVars
  <2>2. ASSUME NEW a \in Account, NEW q \in Address, Pay(a, q) PROVE Untouched
    BY <2>2 DEF Pay, MayPay, Dated, TypeOK
  <2>3. ASSUME NEW q \in Address, WithdrawToRegistryOperator(q) PROVE Untouched
    BY <2>3 DEF WithdrawToRegistryOperator, Mature, StakeCleared, TypeOK, PaymentAssumption
  <2> QED
    BY <2>1, <2>2, <2>3, TokenStepsElsewhere, AdminStepsElsewhere DEF Next, StakeStep
<1> QED
  BY <1>1, TypeCorrect, PTL DEF Spec, StakeUntouchedUntilMature

\* Tokens leave the contract only in a withdrawal, as exactly one mature stake,
\* and arrive at the operator.
THEOREM TokensLeaveOnlyAsMatureStakes ==
  ASSUME PaymentAssumption PROVE Spec => TokensLeaveAsMatureStakes
<1> DEFINE Accounted ==
      \A t \in Token :
        LET paidOut == balance[t][Manager] - balance'[t][Manager] IN
        paidOut > 0 =>
          /\ t = euroStablecoin /\ operatorAddress # NoAddress
          /\ balance'[t][operatorAddress] = balance[t][operatorAddress] + paidOut
          /\ \E p \in Address :
               /\ blockNumber - stakingBlock[p] >= StakingPeriod
               /\ stakedFunds[p] = paidOut /\ stakedFunds'[p] = 0
<1>1. TypeOK /\ [Next]_vars => [Accounted]_vars
  <2> SUFFICES ASSUME TypeOK, Next PROVE Accounted
    OBVIOUS
  <2>0. Manager \in Holder /\ Manager \notin Account /\ Account \subseteq Holder
    BY DEF Holder, PaymentAssumption, Address
  <2>1. ASSUME \A t \in Token : balance'[t][Manager] >= balance[t][Manager],
               \A t \in Token : balance'[t][Manager] \in Nat
        PROVE  Accounted
    BY <2>0, <2>1 DEF TypeOK
  <2>2. ASSUME NEW a \in Account, NEW h \in Holder, NEW s \in Token, NEW amount \in Nat,
               balance' = [balance EXCEPT ![s] = Moved(balance[s], a, h, amount)]
        PROVE  Accounted
    <3>1. \A t \in Token : /\ balance'[t][Manager] >= balance[t][Manager]
                           /\ balance'[t][Manager] \in Nat
      BY <2>0, <2>2 DEF Moved, TypeOK
    <3> QED
      BY <2>1, <3>1
  <2>3. CASE TokenStep
    <3>1. ASSUME NEW a \in Account, NEW h \in Holder, NEW t \in Token, NEW y \in YearlyAmounts,
                 Transfer(a, h, t, y * Unit)
          PROVE  Accounted
      <4>1. y * Unit \in Nat
        BY UnitsNat
      <4>2. balance' = [balance EXCEPT ![t] = Moved(balance[t], a, h, y * Unit)]
        BY <3>1 DEF Transfer
      <4> HIDE DEF Accounted
      <4> QED
        BY <2>2, <4>1, <4>2
    <3>2. UNCHANGED balance => Accounted
      BY <2>0, <2>1 DEF TypeOK
    <3> QED
      BY <2>3, <3>1, <3>2 DEF TokenStep, Approve, Mine, tokenVars
  <2>4. ASSUME NEW a \in Account, NEW q \in Address, Pay(a, q) PROVE Accounted
    BY <2>0, <2>2, <2>4 DEF Pay, TypeOK
  <2>5. ASSUME NEW q \in Address, WithdrawToRegistryOperator(q) PROVE Accounted
    <3> DEFINE held == balance[euroStablecoin]
    <3>1. /\ operatorAddress \in Account /\ operatorAddress # Manager
          /\ operatorAddress \in Holder /\ operatorAddress # NoAddress
      BY <2>0, <2>5 DEF WithdrawToRegistryOperator, TypeOK, Address
    <3>2. /\ balance' = [balance EXCEPT ![euroStablecoin] =
                           Moved(held, Manager, operatorAddress, stakedFunds[q])]
          /\ stakedFunds'[q] = 0 /\ stakedFunds[q] \in Nat
          /\ blockNumber - stakingBlock[q] >= StakingPeriod
      BY <2>5 DEF WithdrawToRegistryOperator, Mature, AmountToWithdraw, StakeCleared, TypeOK,
                  PaymentAssumption
    <3>3. /\ balance'[euroStablecoin][Manager] = held[Manager] - stakedFunds[q]
          /\ balance'[euroStablecoin][operatorAddress] = held[operatorAddress] + stakedFunds[q]
          /\ \A t \in Token \ {euroStablecoin} : balance'[t] = balance[t]
      BY <2>0, <3>1, <3>2 DEF Moved, TypeOK
    <3>4. \A t \in Token : balance[t][Manager] \in Nat
      BY <2>0 DEF TypeOK
    <3>5. /\ euroStablecoin \in Token
          /\ held[Manager] - balance'[euroStablecoin][Manager] = stakedFunds[q]
      BY <3>2, <3>3, <3>4 DEF TypeOK
    <3> SUFFICES ASSUME NEW t \in Token, balance[t][Manager] - balance'[t][Manager] > 0
                 PROVE  /\ t = euroStablecoin
                        /\ stakedFunds[q] = balance[t][Manager] - balance'[t][Manager]
      BY <3>1, <3>2, <3>3, <3>5
    <3>6. t = euroStablecoin
      BY <3>3, <3>4
    <3> QED
      BY <3>5, <3>6
  <2>6. ASSUME NEW sender \in Account, AdminStep(sender) PROVE Accounted
    BY <2>0, <2>1, <2>6, AdminStepsElsewhere DEF TypeOK
  <2> QED
    BY <2>3, <2>4, <2>5, <2>6 DEF Next, StakeStep
<1> QED
  BY <1>1, TypeCorrect, PTL DEF Spec, TokensLeaveAsMatureStakes

\* The payment status of a party that has paid never returns to PENDING, also
\* after its stake is withdrawn.
THEOREM PaidStaysPaid == ASSUME PaymentAssumption PROVE Spec => PaidIsNeverPending
<1> DEFINE Kept ==
      \A p \in Address : GetPaymentStatus(p) # "PENDING" => GetPaymentStatus(p)' # "PENDING"
<1>1. TypeOK /\ StakesDated /\ [Next]_vars => [Kept]_vars
  <2> SUFFICES ASSUME TypeOK, StakesDated, Next PROVE Kept
    OBVIOUS
  <2>1. Elsewhere => Kept
    BY DEF Elsewhere, stakeVars, GetPaymentStatus
  <2>2. ASSUME NEW a \in Account, NEW q \in Address, Pay(a, q) PROVE Kept
    BY <2>2 DEF Pay, Dated, TypeOK, GetPaymentStatus
  <2>3. ASSUME NEW q \in Address, WithdrawToRegistryOperator(q) PROVE Kept
    BY <2>3 DEF WithdrawToRegistryOperator, StakeCleared, TypeOK, StakesDated, GetPaymentStatus
  <2> QED
    BY <2>1, <2>2, <2>3, TokenStepsElsewhere, AdminStepsElsewhere DEF Next, StakeStep
<1> QED
  BY <1>1, TypeCorrect, StakesStayDated, PTL DEF Spec, PaidIsNeverPending

-----------------------------------------------------------------------------
(* Sums: the sum of a function is the number of single units it is made of, *)
(* so that it can be reasoned about as the size of a set.                   *)

\* The single units a function's values on s are made of.
UnitsOf(f, s) == {e \in s \X Nat : e[2] \in 1..f[e[1]]}

LEMMA UnitsOfOne ==
  ASSUME NEW x, NEW n \in Nat
  PROVE  IsFiniteSet({x} \X (1..n)) /\ Cardinality({x} \X (1..n)) = n
<1>1. IsFiniteSet({x}) /\ Cardinality({x}) = 1
  BY FS_Singleton
<1>2. IsFiniteSet(1..n) /\ Cardinality(1..n) = n
  BY FS_Interval
<1> DEFINE A == {x}
           B == 1..n
<1> HIDE DEF A, B
<1>3. IsFiniteSet(A \X B) /\ Cardinality(A \X B) = Cardinality(A) * Cardinality(B)
  BY <1>1, <1>2, FS_Product DEF A, B
<1>4. Cardinality(A) * Cardinality(B) = n
  BY <1>1, <1>2 DEF A, B
<1> QED BY <1>3, <1>4 DEF A, B

LEMMA UnitsFinite ==
  ASSUME NEW s, IsFiniteSet(s), NEW f, \A i \in s : f[i] \in Nat
  PROVE  IsFiniteSet(UnitsOf(f, s)) /\ Cardinality(UnitsOf(f, s)) \in Nat
<1> DEFINE of == [i \in s |-> {i} \X (1..f[i])]
           all == {of[i] : i \in s}
<1>1. IsFiniteSet(all)
  <2>1. of \in Surjection(s, all)
    BY DEF Surjection
  <2> QED BY <2>1, FS_Surjection
<1>2. \A t \in all : IsFiniteSet(t)
  <2>1. \A i \in s : IsFiniteSet({i} \X (1..f[i]))
    BY UnitsOfOne
  <2> QED BY <2>1
<1>3. UnitsOf(f, s) = UNION all
  BY DEF UnitsOf
<1>4. IsFiniteSet(UNION all)
  BY <1>1, <1>2, FS_UNION
<1> QED BY <1>3, <1>4, FS_CardinalityType

LEMMA UnitsWithOne ==
  ASSUME NEW s, IsFiniteSet(s), NEW f, \A i \in s : f[i] \in Nat, NEW x \in s
  PROVE  Cardinality(UnitsOf(f, s)) = f[x] + Cardinality(UnitsOf(f, s \ {x}))
<1> DEFINE A == {x} \X (1..f[x])
           B == UnitsOf(f, s \ {x})
<1>1. IsFiniteSet(A) /\ Cardinality(A) = f[x]
  BY UnitsOfOne
<1>2. IsFiniteSet(s \ {x})
  BY FS_RemoveElement
<1>3. IsFiniteSet(B) /\ Cardinality(B) \in Nat
  BY <1>2, UnitsFinite
<1>4. UnitsOf(f, s) = A \union B /\ A \cap B = {}
  BY DEF UnitsOf
<1> HIDE DEF A, B
<1>5. Cardinality(A \union B) = Cardinality(A) + Cardinality(B) - Cardinality(A \cap B)
  BY <1>1, <1>3, FS_Union
<1>6. Cardinality(A \cap B) = 0
  BY <1>4, FS_EmptySet
<1> QED BY <1>1, <1>3, <1>4, <1>5, <1>6 DEF B

\* The sum of the community modules is the number of units.
LEMMA SumIsUnits ==
  ASSUME NEW D, IsFiniteSet(D), NEW f \in [D -> Nat]
  PROVE  SumFunction(f) = Cardinality(UnitsOf(f, D))
<1> DEFINE One(s) == CHOOSE x \in s : TRUE
           Eq(g) == g = [s \in SUBSET D |-> IF s = {} THEN 0 ELSE f[One(s)] + g[s \ {One(s)}]]
           closed == [s \in SUBSET D |-> Cardinality(UnitsOf(f, s))]
<1>1. SumFunction(f) = (CHOOSE g : Eq(g))[D]
  BY DEF SumFunction, SumFunctionOnSet, FoldFunctionOnSet, MapThenFoldSet
<1>2. \A s \in SUBSET D : IsFiniteSet(s) /\ \A i \in s : f[i] \in Nat
  BY FS_Subset
<1>3. \A s \in SUBSET D : s # {} => One(s) \in s
  OBVIOUS
<1>4. Eq(closed)
  <2>1. closed[{}] = 0
    <3>1. UnitsOf(f, {}) = {}
      BY DEF UnitsOf
    <3> QED BY <3>1, FS_EmptySet
  <2>2. ASSUME NEW s \in SUBSET D, s # {} PROVE closed[s] = f[One(s)] + closed[s \ {One(s)}]
    <3> DEFINE x == One(s)
    <3>1. x \in s /\ s \ {x} \in SUBSET D
      BY <1>3, <2>2
    <3> HIDE DEF x
    <3>2. Cardinality(UnitsOf(f, s)) = f[x] + Cardinality(UnitsOf(f, s \ {x}))
      BY <1>2, <3>1, UnitsWithOne
    <3> QED BY <3>1, <3>2 DEF x
  <2> QED BY <2>1, <2>2
<1>5. ASSUME NEW g, Eq(g) PROVE g[D] = closed[D]
  <2> DEFINE Bad == {s \in SUBSET D : g[s] # closed[s]}
  <2> SUFFICES ASSUME Bad # {} PROVE FALSE
    OBVIOUS
  <2>1. IsWellFoundedOn(StrictSubsetOrdering(D), SUBSET D)
    BY FS_StrictSubsetOrderingWellFounded, FS_FiniteSubsetsOfFinite
  <2>2. PICK s \in Bad : \A t \in Bad : <<t, s>> \notin StrictSubsetOrdering(D)
    BY <2>1, WFMin
  <2>3. s # {}
    BY <1>4, <1>5
  <2>4. One(s) \in s /\ s \ {One(s)} \in SUBSET D
    BY <1>3, <2>3
  <2>5. s \ {One(s)} \notin Bad
    <3>1. s \in SUBSET D /\ s \ {One(s)} # s
      BY <2>4
    <3>2. <<s \ {One(s)}, s>> \in StrictSubsetOrdering(D)
      BY <2>4, <3>1 DEF StrictSubsetOrdering
    <3> QED BY <2>2, <3>2
  <2> HIDE DEF closed, One
  <2>6. g[s] = f[One(s)] + g[s \ {One(s)}] /\ closed[s] = f[One(s)] + closed[s \ {One(s)}]
    BY <1>4, <1>5, <2>3
  <2> QED BY <2>4, <2>5, <2>6
<1>6. Eq(CHOOSE g : Eq(g))
  BY <1>4
<1> HIDE DEF Eq
<1> QED BY <1>1, <1>5, <1>6

LEMMA SumNat ==
  ASSUME NEW D, IsFiniteSet(D), NEW f \in [D -> Nat] PROVE SumFunction(f) \in Nat
BY SumIsUnits, UnitsFinite

LEMMA SumOfZeros ==
  ASSUME NEW D, IsFiniteSet(D), NEW f \in [D -> Nat], \A i \in D : f[i] = 0
  PROVE  SumFunction(f) = 0
<1>1. UnitsOf(f, D) = {}
  BY DEF UnitsOf
<1> QED BY <1>1, SumIsUnits, FS_EmptySet

LEMMA SumGrows ==
  ASSUME NEW D, IsFiniteSet(D), NEW f \in [D -> Nat], NEW g \in [D -> Nat],
         \A i \in D : f[i] <= g[i]
  PROVE  SumFunction(f) <= SumFunction(g)
<1>1. UnitsOf(f, D) \subseteq UnitsOf(g, D)
  BY DEF UnitsOf
<1>2. IsFiniteSet(UnitsOf(g, D))
  BY UnitsFinite
<1>3. Cardinality(UnitsOf(f, D)) <= Cardinality(UnitsOf(g, D))
  BY <1>1, <1>2, FS_Subset
<1> QED BY <1>3, SumIsUnits

\* Where one value changes, the sum changes by as much.
LEMMA SumChanges ==
  ASSUME NEW D, IsFiniteSet(D), NEW f \in [D -> Nat], NEW g \in [D -> Nat], NEW x \in D,
         \A i \in D \ {x} : g[i] = f[i]
  PROVE  SumFunction(g) + f[x] = SumFunction(f) + g[x]
<1>1. UnitsOf(f, D \ {x}) = UnitsOf(g, D \ {x})
  BY DEF UnitsOf
<1>2. Cardinality(UnitsOf(f, D \ {x})) \in Nat
  <2>1. IsFiniteSet(D \ {x})
    BY FS_RemoveElement
  <2> QED BY <2>1, UnitsFinite
<1>3. /\ Cardinality(UnitsOf(f, D)) = f[x] + Cardinality(UnitsOf(f, D \ {x}))
      /\ Cardinality(UnitsOf(g, D)) = g[x] + Cardinality(UnitsOf(g, D \ {x}))
  BY UnitsWithOne
<1>4. SumFunction(f) = Cardinality(UnitsOf(f, D)) /\ SumFunction(g) = Cardinality(UnitsOf(g, D))
  BY SumIsUnits
<1> QED BY <1>1, <1>2, <1>3, <1>4

-----------------------------------------------------------------------------
(* What the contract owes and what it holds *)

Held == [t \in Token |-> balance[t][Manager]]

\* Of a step: the contract's tokens do not get fewer and no stake is moved; one
\* stake and the contract's tokens in the current stablecoin grow by as much; or
\* both shrink by as much.
Gives == /\ UNCHANGED stakedFunds
         /\ \A t \in Token : Held[t] <= Held'[t]

Exchanges(p) ==
  /\ \A q \in Address \ {p} : stakedFunds'[q] = stakedFunds[q]
  /\ \A t \in Token \ {euroStablecoin} : Held'[t] = Held[t]
  /\ Held'[euroStablecoin] + stakedFunds[p] = Held[euroStablecoin] + stakedFunds'[p]
  /\ UNCHANGED euroStablecoin

LEMMA StakesAndTokens ==
  ASSUME PaymentAssumption, TypeOK, [Next]_vars
  PROVE  Gives \/ \E p \in Address : Exchanges(p)
<1>0. /\ Manager \in Holder /\ Manager \notin Account /\ Account \subseteq Holder
      /\ NoAddress # Manager
  BY DEF Holder, PaymentAssumption, Address
<1>1. /\ \A t \in Token : Held[t] = balance[t][Manager] /\ Held'[t] = balance'[t][Manager]
      /\ \A t \in Token : Held[t] \in Nat
  BY <1>0 DEF Held, TypeOK
<1>2. ASSUME UNCHANGED <<stakedFunds, balance>> PROVE Gives
  BY <1>1, <1>2 DEF Gives
<1>3. CASE UNCHANGED vars
  BY <1>2, <1>3 DEF vars, stakeVars, tokenVars
<1>4. ASSUME NEW a \in Account, NEW h \in Holder, NEW t \in Token, NEW y \in YearlyAmounts,
             Transfer(a, h, t, y * Unit)
      PROVE  Gives
  <2>1. y * Unit \in Nat
    BY UnitsNat
  <2>2. \A s \in Token : balance'[s][Manager] >= balance[s][Manager]
    BY <1>0, <1>4, <2>1 DEF Transfer, Moved, TypeOK
  <2> QED BY <1>1, <1>4, <2>2 DEF Gives, Transfer, stakeVars, TypeOK
<1>5. ASSUME NEW a \in Account, NEW p \in Address, Pay(a, p) PROVE Exchanges(p)
  <2>1. /\ balance' = [balance EXCEPT ![euroStablecoin] =
                         Moved(balance[euroStablecoin], a, Manager, fundingYearlyAmount)]
        /\ stakedFunds' = [stakedFunds EXCEPT ![p] = @ + fundingYearlyAmount]
        /\ UNCHANGED euroStablecoin
    BY <1>5 DEF Pay, settingVars
  <2>2. /\ \A t \in Token \ {euroStablecoin} : balance'[t] = balance[t]
        /\ balance'[euroStablecoin][Manager] = balance[euroStablecoin][Manager] + fundingYearlyAmount
        /\ stakedFunds'[p] = stakedFunds[p] + fundingYearlyAmount
        /\ \A q \in Address \ {p} : stakedFunds'[q] = stakedFunds[q]
    BY <1>0, <2>1 DEF Moved, TypeOK
  <2> QED BY <1>1, <2>1, <2>2 DEF Exchanges, TypeOK
<1>6. ASSUME NEW p \in Address, WithdrawToRegistryOperator(p) PROVE Exchanges(p)
  <2>1. /\ balance' = [balance EXCEPT ![euroStablecoin] =
                         Moved(balance[euroStablecoin], Manager, operatorAddress, stakedFunds[p])]
        /\ stakedFunds' = [stakedFunds EXCEPT ![p] = 0]
        /\ UNCHANGED euroStablecoin
        /\ operatorAddress # Manager
    BY <1>0, <1>6 DEF WithdrawToRegistryOperator, AmountToWithdraw, StakeCleared, settingVars, TypeOK,
       Address
  <2>2. /\ \A t \in Token \ {euroStablecoin} : balance'[t] = balance[t]
        /\ balance'[euroStablecoin][Manager] = balance[euroStablecoin][Manager] - stakedFunds[p]
        /\ stakedFunds'[p] = 0
        /\ \A q \in Address \ {p} : stakedFunds'[q] = stakedFunds[q]
    BY <1>0, <2>1 DEF Moved, TypeOK
  <2> QED BY <1>1, <2>1, <2>2 DEF Exchanges, TypeOK
<1>7. ASSUME NEW sender \in Account, AdminStep(sender) PROVE Gives
  BY <1>2, <1>7, AdminStepsElsewhere DEF Elsewhere, stakeVars
<1>8. CASE TokenStep
  BY <1>2, <1>4, <1>8 DEF TokenStep, Approve, Mine, stakeVars, tokenVars
<1> QED BY <1>3, <1>5, <1>6, <1>7, <1>8 DEF Next, StakeStep

LEMMA AddressesFinite == ASSUME PaymentAssumption PROVE IsFiniteSet(Address) /\ IsFiniteSet(Token)
BY FS_AddElement DEF PaymentAssumption, Address

\* No stake is counted that no tokens are there for: in all stablecoins together
\* the contract holds what it owes.
THEOREM StakesStayBackedInTotal == ASSUME PaymentAssumption PROVE Spec => []StakesBackedInTotal
<1>0. IsFiniteSet(Address) /\ IsFiniteSet(Token)
  BY AddressesFinite
<1>1. Init => StakesBackedInTotal
  <2> SUFFICES ASSUME Init PROVE SumFunction(Held) >= SumFunction(stakedFunds)
    BY DEF StakesBackedInTotal, Held
  <2>1. stakedFunds \in [Address -> Nat] /\ \A p \in Address : stakedFunds[p] = 0
    BY DEF Init
  <2>2. Held \in [Token -> Nat]
    BY DEF Init, Held, Holder
  <2>3. SumFunction(stakedFunds) = 0 /\ SumFunction(Held) \in Nat
    BY <1>0, <2>1, <2>2, SumOfZeros, SumNat
  <2> QED BY <2>3
<1>2. TypeOK /\ TypeOK' /\ StakesBackedInTotal /\ [Next]_vars => StakesBackedInTotal'
  <2> SUFFICES ASSUME TypeOK, TypeOK', SumFunction(Held) >= SumFunction(stakedFunds), [Next]_vars
               PROVE  SumFunction(Held') >= SumFunction(stakedFunds')
    BY DEF StakesBackedInTotal, Held
  <2>1. /\ Held \in [Token -> Nat] /\ Held' \in [Token -> Nat]
        /\ stakedFunds \in [Address -> Nat] /\ stakedFunds' \in [Address -> Nat]
        /\ euroStablecoin \in Token
    BY DEF Held, Holder, TypeOK
  <2>2. /\ SumFunction(Held) \in Nat /\ SumFunction(Held') \in Nat
        /\ SumFunction(stakedFunds) \in Nat /\ SumFunction(stakedFunds') \in Nat
    BY <1>0, <2>1, SumNat
  <2>3. CASE Gives
    <3>1. SumFunction(Held) <= SumFunction(Held')
      BY <1>0, <2>1, <2>3, SumGrows DEF Gives
    <3> QED BY <2>2, <2>3, <3>1 DEF Gives
  <2>4. ASSUME NEW p \in Address, Exchanges(p) PROVE SumFunction(Held') >= SumFunction(stakedFunds')
    <3>1. SumFunction(stakedFunds') + stakedFunds[p] = SumFunction(stakedFunds) + stakedFunds'[p]
      BY <1>0, <2>1, <2>4, SumChanges DEF Exchanges
    <3>2. SumFunction(Held') + Held[euroStablecoin] = SumFunction(Held) + Held'[euroStablecoin]
      BY <1>0, <2>1, <2>4, SumChanges DEF Exchanges
    <3>3. Held'[euroStablecoin] + stakedFunds[p] = Held[euroStablecoin] + stakedFunds'[p]
      BY <2>4 DEF Exchanges
    <3>4. /\ Held[euroStablecoin] \in Nat /\ Held'[euroStablecoin] \in Nat
          /\ stakedFunds[p] \in Nat /\ stakedFunds'[p] \in Nat
      BY <2>1
    <3> QED BY <2>2, <3>1, <3>2, <3>3, <3>4
  <2> QED BY <2>3, <2>4, StakesAndTokens
<1> QED
  BY <1>1, <1>2, TypeCorrect, PTL DEF Spec

\* As long as nobody changes the stablecoin, the contract holds enough of it to
\* pay out every stake; so it is that change alone which can strand one.
THEOREM StakesStayBackedByTheirStablecoin ==
  ASSUME PaymentAssumption
  PROVE  Spec /\ [][euroStablecoin' = euroStablecoin]_vars => []StakesBackedByStablecoin
<1>0. IsFiniteSet(Address)
  BY AddressesFinite
<1>1. Init => StakesBackedByStablecoin
  <2> SUFFICES ASSUME Init PROVE StakesBackedByStablecoin
    OBVIOUS
  <2>1. stakedFunds \in [Address -> Nat] /\ \A p \in Address : stakedFunds[p] = 0
    BY DEF Init
  <2>2. balance[euroStablecoin][Manager] \in Nat
    BY DEF Init, Holder
  <2>3. SumFunction(stakedFunds) = 0
    BY <1>0, <2>1, SumOfZeros
  <2> QED BY <2>2, <2>3 DEF StakesBackedByStablecoin
<1>2. TypeOK /\ TypeOK' /\ StakesBackedByStablecoin /\ [Next]_vars
      /\ [euroStablecoin' = euroStablecoin]_vars => StakesBackedByStablecoin'
  <2> SUFFICES ASSUME TypeOK, TypeOK', StakesBackedByStablecoin, [Next]_vars,
                      [euroStablecoin' = euroStablecoin]_vars
               PROVE  StakesBackedByStablecoin'
    OBVIOUS
  <2>0. euroStablecoin' = euroStablecoin
    BY DEF vars, settingVars
  <2> DEFINE held == Held[euroStablecoin]
             heldNext == Held'[euroStablecoin]
  <2>1. /\ stakedFunds \in [Address -> Nat] /\ stakedFunds' \in [Address -> Nat]
        /\ held \in Nat /\ heldNext \in Nat
        /\ held = balance[euroStablecoin][Manager]
        /\ heldNext = balance'[euroStablecoin'][Manager]
        /\ euroStablecoin \in Token
    BY <2>0 DEF Held, Holder, TypeOK
  <2>2. SumFunction(stakedFunds) \in Nat /\ SumFunction(stakedFunds') \in Nat
    BY <1>0, <2>1, SumNat
  <2>3. held >= SumFunction(stakedFunds)
    BY <2>1 DEF StakesBackedByStablecoin
  <2> SUFFICES heldNext >= SumFunction(stakedFunds')
    BY <2>1 DEF StakesBackedByStablecoin
  <2>4. CASE Gives
    <3>1. held <= heldNext
      BY <2>1, <2>4 DEF Gives
    <3> HIDE DEF held, heldNext
    <3> QED BY <2>1, <2>2, <2>3, <2>4, <3>1 DEF Gives
  <2>5. ASSUME NEW p \in Address, Exchanges(p) PROVE heldNext >= SumFunction(stakedFunds')
    <3>1. SumFunction(stakedFunds') + stakedFunds[p] = SumFunction(stakedFunds) + stakedFunds'[p]
      BY <1>0, <2>1, <2>5, SumChanges DEF Exchanges
    <3>2. heldNext + stakedFunds[p] = held + stakedFunds'[p]
      BY <2>5 DEF Exchanges
    <3>3. stakedFunds[p] \in Nat /\ stakedFunds'[p] \in Nat
      BY <2>1
    <3> HIDE DEF held, heldNext
    <3> QED BY <2>1, <2>2, <2>3, <3>1, <3>2, <3>3
  <2> QED BY <2>4, <2>5, StakesAndTokens
<1> QED
  BY <1>1, <1>2, TypeCorrect, PTL DEF Spec
=============================================================================
