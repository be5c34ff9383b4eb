-------------------------- MODULE OcnPaymentManager --------------------------
(***************************************************************************)
(* The OcnPaymentManager contract (behind its UUPS proxy): parties stake a *)
(* yearly amount of a stablecoin, which goes to the registry's operator    *)
(* after the staking period.  The stablecoins are standard ERC20 tokens,   *)
(* external to the contract; anybody can move their own tokens.            *)
(***************************************************************************)
EXTENDS Naturals, FiniteSets, Functions, AccessControl

CONSTANTS
  Account,          \* addresses other than 0 and the contract's
  NoAddress,        \* address(0)
  Manager,          \* the contract's own address
  Token,            \* ERC20 contracts
  Deployer,         \* who deploys and initializes the proxy
  YearlyAmounts,    \* arguments of setFundingYearlyAmount, in whole euros
  Unit,             \* 1e18: base units of a whole euro
  MaxUint,          \* 2^256 - 1
  StakingPeriod,    \* 2102400 blocks
  InitialBalance,   \* tokens each account starts with, in base units
  MaxBlock,         \* bound on the block number
  MaxVersion        \* bound on the number of upgrades

Address == Account \union {NoAddress}
Holder == Account \union {Manager}

ASSUME PaymentAssumption ==
  /\ NoAddress \notin Account /\ Manager \notin Address
  /\ IsFiniteSet(Account) /\ IsFiniteSet(Token)  \* addresses have 160 bits
  /\ Deployer \in Account
  /\ YearlyAmounts \subseteq Nat
  /\ {Unit, StakingPeriod} \subseteq Nat \ {0}
  /\ {MaxUint, InitialBalance, MaxBlock, MaxVersion} \subseteq Nat

VARIABLES
  admins,               \* members of DEFAULT_ADMIN_ROLE
  upgraders,            \* members of UPGRADER_ROLE
  version,
  fundingYearlyAmount,  \* in base units
  euroStablecoin,
  operatorAddress,
  stakingBlock,         \* party -> block of its last stake, 0 if none
  stakedFunds,          \* party -> base units staked
  balance,              \* token -> holder -> base units
  allowance,            \* token -> owner -> base units the contract may take
  blockNumber

roleVars == <<admins, upgraders>>
settingVars == <<version, fundingYearlyAmount, euroStablecoin, operatorAddress>>
stakeVars == <<stakingBlock, stakedFunds>>
tokenVars == <<balance, allowance>>
vars == <<roleVars, settingVars, stakeVars, tokenVars, blockNumber>>

\* Deployment of the proxy with initialize(): roles to the deployer.
Init ==
  /\ admins = {Deployer}
  /\ upgraders = {Deployer}
  /\ version = 0
  /\ fundingYearlyAmount \in {y * Unit : y \in YearlyAmounts}
  /\ euroStablecoin \in Token
  /\ operatorAddress \in Address
  /\ stakingBlock = [p \in Address |-> 0]
  /\ stakedFunds = [p \in Address |-> 0]
  /\ balance = [t \in Token |-> [h \in Holder |-> IF h = Manager THEN 0 ELSE InitialBalance]]
  /\ allowance = [t \in Token |-> [a \in Account |-> 0]]
  /\ blockNumber = 1

-----------------------------------------------------------------------------
(* The stablecoins and the chain *)

Moved(held, from, to, amount) ==
  [h \in Holder |-> held[h] + (IF h = to THEN amount ELSE 0) - (IF h = from THEN amount ELSE 0)]

Approve(owner, t, amount) ==
  /\ allowance' = [allowance EXCEPT ![t][owner] = amount]
  /\ UNCHANGED <<roleVars, settingVars, stakeVars, balance, blockNumber>>

Transfer(from, to, t, amount) ==
  /\ balance[t][from] >= amount
  /\ balance' = [balance EXCEPT ![t] = Moved(balance[t], from, to, amount)]
  /\ UNCHANGED <<roleVars, settingVars, stakeVars, allowance, blockNumber>>

Mine ==
  /\ blockNumber < MaxBlock
  /\ blockNumber' = blockNumber + 1
  /\ UNCHANGED <<roleVars, settingVars, stakeVars, tokenVars>>

-----------------------------------------------------------------------------
(* Stakes *)

\* Mutant: without the check of the stake there is.
MayPayAgain(party) == TRUE

MayPay(party) == stakedFunds[party] = 0

\* Mutant: notes the block the stake is due instead of the one it was paid in.
DateByMaturity(party) == [stakingBlock EXCEPT ![party] = blockNumber + StakingPeriod]

Dated(party) == [stakingBlock EXCEPT ![party] = blockNumber]

Pay(sender, party) ==
  LET t == euroStablecoin
      amount == fundingYearlyAmount
  IN
  /\ MayPay(party)
  /\ allowance[t][sender] >= amount
  /\ balance[t][sender] >= amount  \* else transferFrom reverts
  /\ allowance' = [allowance EXCEPT ![t][sender] = @ - amount]
  /\ balance' = [balance EXCEPT ![t] = Moved(balance[t], sender, Manager, amount)]
  /\ stakedFunds' = [stakedFunds EXCEPT ![party] = @ + amount]
  /\ stakingBlock' = Dated(party)
  /\ UNCHANGED <<roleVars, settingVars, blockNumber>>

\* Mutant: forgets when the stake was paid.
MatureByBlock(party) == blockNumber >= StakingPeriod

Mature(party) == blockNumber >= stakingBlock[party] + StakingPeriod

\* Mutant: pays out the amount of this year.
YearlyAmountToWithdraw(party) == fundingYearlyAmount

AmountToWithdraw(party) == stakedFunds[party]

\* Mutant: subtracts the amount of this year, which may not be the one staked.
StakeLessYearlyAmount(party) ==
  /\ stakedFunds' = [stakedFunds EXCEPT ![party] = @ - fundingYearlyAmount]
  /\ UNCHANGED stakingBlock

\* Mutant: forgets the party altogether.
PartyForgotten(party) ==
  /\ stakedFunds' = [stakedFunds EXCEPT ![party] = 0]
  /\ stakingBlock' = [stakingBlock EXCEPT ![party] = 0]

StakeCleared(party) ==
  /\ stakedFunds' = [stakedFunds EXCEPT ![party] = 0]
  /\ UNCHANGED stakingBlock

WithdrawToRegistryOperator(party) ==
  LET t == euroStablecoin
      amountToWithdraw == AmountToWithdraw(party)
  IN
  /\ operatorAddress # NoAddress
  /\ stakedFunds[party] # 0
  /\ Mature(party)
  /\ balance[t][Manager] >= amountToWithdraw  \* else transfer reverts
  /\ StakeCleared(party)
  /\ balance' = [balance EXCEPT ![t] =
                   Moved(balance[t], Manager, operatorAddress, amountToWithdraw)]
  /\ UNCHANGED <<roleVars, settingVars, allowance, blockNumber>>

-----------------------------------------------------------------------------
(* Administration *)

\* Mutant: without onlyRole.
SetOperatorByAnyone(sender, operator) ==
  /\ operatorAddress' = operator
  /\ UNCHANGED <<roleVars, version, fundingYearlyAmount, euroStablecoin, stakeVars, tokenVars,
                 blockNumber>>

SetOperator(sender, operator) ==
  /\ sender \in admins
  /\ operatorAddress' = operator
  /\ UNCHANGED <<roleVars, version, fundingYearlyAmount, euroStablecoin, stakeVars, tokenVars,
                 blockNumber>>

SetFundingYearlyAmount(sender, yearly) ==
  /\ sender \in admins
  /\ yearly * Unit <= MaxUint  \* else the multiplication panics
  /\ fundingYearlyAmount' = yearly * Unit
  /\ UNCHANGED <<roleVars, version, euroStablecoin, operatorAddress, stakeVars, tokenVars,
                 blockNumber>>

SetStablecoinAddress(sender, t) ==
  /\ sender \in admins
  /\ euroStablecoin' = t
  /\ UNCHANGED <<roleVars, version, fundingYearlyAmount, operatorAddress, stakeVars, tokenVars,
                 blockNumber>>

TransferOwnership(sender, newOwner) ==
  /\ sender \in admins
  /\ admins' = Transferred(admins, sender, newOwner)
  /\ UNCHANGED <<upgraders, settingVars, stakeVars, tokenVars, blockNumber>>

\* The inherited grantRole, revokeRole and renounceRole: the admins of
\* UPGRADER_ROLE are the members of DEFAULT_ADMIN_ROLE.
ReassignRole(sender, account) ==
  /\ \/ admins' \in Reassigned(admins, sender, account) /\ UNCHANGED upgraders
     \/ /\ sender \in admins
        /\ upgraders' \in {Granted(upgraders, account), Revoked(upgraders, account)}
        /\ UNCHANGED admins
     \/ upgraders' = Revoked(upgraders, sender) /\ UNCHANGED admins
  /\ UNCHANGED <<settingVars, stakeVars, tokenVars, blockNumber>>

\* upgradeToAndCall: the storage stays, the implementation changes to one that
\* is taken to behave as this one.
Upgrade(sender) ==
  /\ sender \in upgraders
  /\ version < MaxVersion
  /\ version' = version + 1
  /\ UNCHANGED <<roleVars, fundingYearlyAmount, euroStablecoin, operatorAddress, stakeVars,
                 tokenVars, blockNumber>>

-----------------------------------------------------------------------------
TokenStep ==
  \/ \E a \in Account, t \in Token, y \in YearlyAmounts : Approve(a, t, y * Unit)
  \/ \E a \in Account, h \in Holder, t \in Token, y \in YearlyAmounts :
       Transfer(a, h, t, y * Unit)
  \/ Mine

StakeStep ==
  \/ \E a \in Account, p \in Address : Pay(a, p)
  \/ \E p \in Address : WithdrawToRegistryOperator(p)

AdminStep(sender) ==
  \/ \E a \in Address : SetOperator(sender, a)
  \/ \E y \in YearlyAmounts : SetFundingYearlyAmount(sender, y)
  \/ \E t \in Token : SetStablecoinAddress(sender, t)
  \/ \E a \in Address : TransferOwnership(sender, a)
  \/ \E a \in Address : ReassignRole(sender, a)
  \/ Upgrade(sender)

Next ==
  \/ TokenStep
  \/ StakeStep
  \/ \E sender \in Account : AdminStep(sender)

Spec == Init /\ [][Next]_vars

-----------------------------------------------------------------------------
(* Views *)

\* Mutant: a status by the stake alone.
GetStakeStatus(party) == IF stakedFunds[party] > 0 THEN "PAYMENT_UP_TO_DATE" ELSE "PENDING"

GetPaymentStatus(party) ==
  IF stakedFunds[party] > 0 THEN "PAYMENT_UP_TO_DATE"
  ELSE IF stakingBlock[party] > 0 THEN "INSUFFICIENT_FUNDS"
  ELSE "PENDING"

GetPaymentBlock(party) == <<stakingBlock[party], blockNumber>>

GetFundingYearlyAmount == fundingYearlyAmount \div Unit

-----------------------------------------------------------------------------
(* Properties *)

TypeOK ==
  /\ admins \subseteq Address /\ upgraders \subseteq Address
  /\ version \in 0..MaxVersion
  /\ fundingYearlyAmount \in Nat
  /\ euroStablecoin \in Token
  /\ operatorAddress \in Address
  /\ stakingBlock \in [Address -> Nat]
  /\ stakedFunds \in [Address -> Nat]
  /\ balance \in [Token -> [Holder -> Nat]]
  /\ allowance \in [Token -> [Account -> Nat]]
  /\ blockNumber \in Nat \ {0}

\* A stake has a staking block, in the past: it is neither withdrawable at once
\* nor reported as never paid.
StakesDated ==
  \A p \in Address :
    /\ stakingBlock[p] <= blockNumber
    /\ stakedFunds[p] > 0 => stakingBlock[p] > 0

\* Whatever mix of stablecoins the stakes were paid in, the contract holds at
\* least as many tokens in all as it owes stakes.
StakesBackedInTotal ==
  SumFunction([t \in Token |-> balance[t][Manager]]) >= SumFunction(stakedFunds)

\* Every stake can be withdrawn once it is mature: the contract holds enough of
\* the current stablecoin for all stakes, in whatever order they are withdrawn.
StakesBackedByStablecoin ==
  balance[euroStablecoin][Manager] >= SumFunction(stakedFunds)

\* Nobody can shorten, extend, top up or take a stake before it is mature: not
\* by paying again, nor by changing the amount, the stablecoin or the operator.
StakeUntouchedUntilMature ==
  [][\A p \in Address :
       stakedFunds[p] > 0 /\ blockNumber - stakingBlock[p] < StakingPeriod =>
         UNCHANGED <<stakedFunds[p], stakingBlock[p]>>]_vars

\* Tokens leave the contract only as the whole stake of a mature party, in the
\* current stablecoin, to the operator of that moment.
TokensLeaveAsMatureStakes ==
  [][\A t \in Token :
       LET paidOut == balance[t][Manager] - balance'[t][Manager] IN
       paidOut > 0 =>
         /\ t = euroStablecoin /\ operatorAddress # NoAddress
         /\ balance'[t][operatorAddress] = balance[t][operatorAddress] + paidOut
         /\ \E p \in Address :
              /\ blockNumber - stakingBlock[p] >= StakingPeriod
              /\ stakedFunds[p] = paidOut /\ stakedFunds'[p] = 0]_vars

\* A party that has paid once is never again reported as PENDING.
PaidIsNeverPending ==
  [][\A p \in Address : GetPaymentStatus(p) # "PENDING" => GetPaymentStatus(p)' # "PENDING"]_vars

\* A contract that lost its last admin (transferOwnership to oneself is enough)
\* keeps its settings and stays without admin for ever.
OrphanIsFrozen ==
  [][admins = {} =>
       UNCHANGED <<admins, fundingYearlyAmount, euroStablecoin, operatorAddress>>]_vars

-----------------------------------------------------------------------------
(* What the comments say and the code does not do *)

\* "transfer ownership from the deployer address to the Timelock": who hands
\* the contract over keeps no role in it.
OwnershipLeavesNothingBehind ==
  [][\A sender, newOwner \in Account :
       TransferOwnership(sender, newOwner) /\ newOwner # sender =>
         sender \notin admins' \union upgraders']_vars
=============================================================================
