----------------------------- MODULE Liquidator -----------------------------
(***************************************************************************)
(* The Rust liquidation bot (solend-liquidator/src): the driver that loads *)
(* the configuration and builds one retriever per market, the shared       *)
(* MarketsCapsule behind a RwLock, and process_markets, the iteration that *)
(* fetches every market, persists what it fetched, refreshes every         *)
(* obligation, sends one transaction per obligation found underwater and   *)
(* writes the obligation it reads back into the capsule.                   *)
(*                                                                         *)
(* Every tokio task is a process of its own with its state in a function   *)
(* indexed by what it works on: a fetch and a persist task per market, a   *)
(* market task per market, and a refresh, an update and a writer task per  *)
(* obligation.  The main task joins them.  A step is what a task does      *)
(* between two awaits.  A panic inside a task is only seen by the task     *)
(* that awaits its handle, where unwrap() panics in turn.                  *)
(*                                                                         *)
(* The chain and its RPC node are the environment: accounts change at any  *)
(* time, a call may fail (Fault), a transaction that was accepted lands,   *)
(* fails or expires later.  An obligation is reduced to its debt and to a  *)
(* version that grows with every change of the account; a market to one    *)
(* price, in the unit of the debt its collateral can carry, so that the    *)
(* obligation is underwater when its debt exceeds the price.               *)
(***************************************************************************)
EXTENDS Naturals, Sequences, FiniteSets

CONSTANTS
    MarketList,        \* the markets, in the order of the configuration
    Obligations,       \* addresses of obligation accounts
    MarketOf,          \* the market an obligation belongs to
    Accounts,          \* the signer's associated token accounts
    RepayAccount,      \* of an obligation's selected borrow
    CollateralAccount, \* of the collateral mint of its selected deposit
    LiquidityAccount,  \* of the liquidity mint of its selected deposit
    InitialAccounts,   \* the accounts that exist when the bot starts
    InitialBalance,    \* what each holds
    Gains,             \* the amounts of liquidity a liquidation may yield
    TxSlots,           \* bounds how many transactions are pending at a time
    Prices, Debts,     \* the values prices and debts take
    Eternal,           \* the mode: run_eternal_liquidator or run_liquidator_iter
    MaxFaults,         \* bounds how many calls fail
    MaxEvents,         \* bounds how often others change the chain
    NoObl, NoRsv, NoMarket, NoTask, NoTx \* None

Range(seq) == {seq[i] : i \in DOMAIN seq}

Markets == Range(MarketList)

ASSUME MarketsAssumption ==
    /\ MarketList \in Seq(Markets) /\ MarketList # << >>
    /\ \A i, j \in DOMAIN MarketList : MarketList[i] = MarketList[j] => i = j
    /\ MarketOf \in [Obligations -> Markets]

ASSUME AccountsAssumption ==
    /\ RepayAccount \in [Obligations -> Accounts]
    /\ CollateralAccount \in [Obligations -> Accounts]
    /\ LiquidityAccount \in [Obligations -> Accounts]
    /\ InitialAccounts \subseteq Accounts
    /\ InitialBalance \in [Accounts -> Nat]

ASSUME NumbersAssumption ==
    /\ Prices \subseteq Nat /\ Prices # {} /\ Debts \subseteq Nat /\ Debts # {}
    /\ Gains \subseteq Nat /\ Eternal \in BOOLEAN /\ MaxFaults \in Nat /\ MaxEvents \in Nat

Obl == [debt : Nat, version : Nat]
Rsv == [price : Nat, version : Nat]

(* MarketData: the three maps a retriever holds.  An address that is not a  *)
(* key of the map of obligations has NoObl; the reserves are NoRsv, and the *)
(* oracle data FALSE, when the map is empty.                                *)
MarketData == [obligations : [Obligations -> Obl \cup {NoObl}],
               reserves : Rsv \cup {NoRsv},
               oracle : BOOLEAN]

Retriever == [inner : MarketData, initialized : BOOLEAN]

ASSUME NoneAssumption ==
    /\ {NoObl, NoRsv} \cap (Obl \cup Rsv) = {} /\ NoMarket \notin Retriever
    /\ NoTask \notin Obligations /\ NoTask \notin TxSlots

EmptyData == [obligations |-> [o \in Obligations |-> NoObl],
              reserves |-> NoRsv,
              oracle |-> FALSE]

VARIABLES
    (* the chain *)
    oracle,    \* market -> the price its oracle reports
    reserve,   \* market -> the price its reserves recorded when last refreshed
    chainObl,  \* obligation -> its account, or NoObl before it is opened
    accounts,  \* the associated token accounts that exist
    creating,  \* those with a pending transaction that creates them
    wallet,    \* account -> balance
    pool,      \* slot -> a liquidation transaction
    events,    \* how many more changes others make
    (* the bot *)
    phase,     \* where the main task is
    at,        \* the index of the market it is at in its current loop
    awaits,    \* the update task whose handle it awaits, or NoTask
    capsule,   \* market -> its retriever
    fetch,     \* market -> its fetch task
    persist,   \* the markets whose persist task has not yet run
    view,      \* market -> the MarketData cloned for its market task
    market,    \* market -> its market task
    refresh,   \* obligation -> its refresh task
    update,    \* obligation -> its update task
    writer,    \* obligation -> what its writer task has yet to write, or NoObl
    faults,    \* how many more calls fail
    (* history *)
    asOf       \* versions on the chain when the iteration began

chainVars == <<oracle, reserve, chainObl, accounts, creating, wallet, pool, events>>
taskVars == <<fetch, persist, view, market, refresh, update, writer>>
mainVars == <<phase, at, awaits>>
vars == <<chainVars, mainVars, taskVars, capsule, faults, asOf>>

UpdateStates == {"idle", "ata", "create", "wallet", "collateral", "liquidity",
                 "sign", "send", "reread", "none", "some", "panicked"}

FetchTask == [pc : {"idle", "start", "running", "done", "panicked"},
              todo : SUBSET {"reserves", "oracle", "scan"},
              unread : SUBSET Obligations,
              data : MarketData]

UpdateTask == [pc : UpdateStates,
               amount : Nat,
               create : SUBSET Accounts,
               tx : TxSlots \cup {NoTask},
               result : Obl \cup {NoObl}]

(* A transaction is signed once and sent until the node accepts it.          *)
(* "settled" is one that has landed, failed or expired while its task still  *)
(* resends it; a slot with no transaction has NoTx.  current: signed in this *)
(* iteration (history).                                                      *)
Tx == [st : {"signed", "sent", "settled"},
       obl : Obligations,
       amount : Nat,
       create : SUBSET Accounts,
       current : BOOLEAN]

ASSUME NoTxAssumption == NoTx \notin Tx

IdleFetch == [pc |-> "idle", todo |-> {}, unread |-> {}, data |-> EmptyData]

IdleUpdate == [pc |-> "idle", amount |-> 0, create |-> {}, tx |-> NoTask,
               result |-> NoObl]

VersionOf(x) == IF x \in {NoObl, NoRsv} THEN 0 ELSE x.version

ObligationsOf(m) == {o \in Obligations : MarketOf[o] = m}

(* The keys of a market's map of obligations. *)
Keys(data) == {o \in Obligations : data.obligations[o] # NoObl}

(* A call to the RPC node fails. *)
Fault == /\ faults > 0
         /\ faults' = faults - 1
-----------------------------------------------------------------------------
ChainType ==
    /\ oracle \in [Markets -> Nat]
    /\ reserve \in [Markets -> Rsv]
    /\ chainObl \in [Obligations -> Obl \cup {NoObl}]
    /\ accounts \subseteq Accounts
    /\ creating \subseteq Accounts
    /\ wallet \in [Accounts -> Nat]
    /\ pool \in [TxSlots -> Tx \cup {NoTx}]
    /\ events \in Nat

MainType ==
    /\ phase \in {"config", "boot", "fetch", "spawn", "collect", "drain", "done", "dead"}
    /\ at \in 1..(Len(MarketList) + 1)
    /\ awaits \in Obligations \cup {NoTask}

TaskType ==
    /\ fetch \in [Markets -> FetchTask]
    /\ persist \subseteq Markets
    /\ view \in [Markets -> MarketData]
    /\ market \in [Markets -> {"idle", "running", "done"}]
    /\ refresh \in [Obligations -> {"idle", "running", "none", "some"}]
    /\ update \in [Obligations -> UpdateTask]
    /\ writer \in [Obligations -> Obl \cup {NoObl}]

(* The type invariant of the chain, the main task, the other tasks and the   *)
(* capsule.                                                                  *)
TypeOK ==
    /\ ChainType
    /\ MainType
    /\ TaskType
    /\ capsule \in [Markets -> Retriever \cup {NoMarket}]
    /\ faults \in Nat
    /\ asOf \in [obl : [Obligations -> Nat], rsv : [Markets -> Nat]]

Init ==
    /\ oracle \in [Markets -> Prices]
    /\ reserve = [m \in Markets |-> [price |-> oracle[m], version |-> 1]]
    /\ chainObl \in [Obligations -> {[debt |-> d, version |-> 1] : d \in Debts} \cup {NoObl}]
    /\ accounts = InitialAccounts
    /\ creating = {}
    /\ wallet = InitialBalance
    /\ pool = [s \in TxSlots |-> NoTx]
    /\ events = MaxEvents
    /\ phase = "config"
    /\ at = 1
    /\ awaits = NoTask
    /\ capsule = [m \in Markets |-> NoMarket]
    /\ fetch = [m \in Markets |-> IdleFetch]
    /\ persist = {}
    /\ view = [m \in Markets |-> EmptyData]
    /\ market = [m \in Markets |-> "idle"]
    /\ refresh = [o \in Obligations |-> "idle"]
    /\ update = [o \in Obligations |-> IdleUpdate]
    /\ writer = [o \in Obligations |-> NoObl]
    /\ faults = MaxFaults
    /\ asOf = [obl |-> [o \in Obligations |-> 0], rsv |-> [m \in Markets |-> 0]]
-----------------------------------------------------------------------------
(* The main task. *)

Running == phase \notin {"done", "dead"}

(* get_solend_config: every call in it is unwrapped. *)
LoadConfig ==
    /\ phase = "config"
    /\ phase' = "boot"
    /\ UNCHANGED <<chainVars, taskVars, at, awaits, capsule, faults, asOf>>

ConfigFails ==
    /\ phase = "config"
    /\ Fault
    /\ phase' = "dead"
    /\ UNCHANGED <<chainVars, taskVars, at, awaits, capsule, asOf>>

(* update_initially, in a task per market. *)
UpdateInitially(m) ==
    /\ phase = "boot"
    /\ capsule[m] = NoMarket
    /\ capsule' = [capsule EXCEPT ![m] = [inner |-> EmptyData, initialized |-> FALSE]]
    /\ UNCHANGED <<chainVars, mainVars, taskVars, faults, asOf>>

(* The start of process_markets: a fetch task per market is spawned. *)
BeginIteration ==
    /\ phase' = "fetch"
    /\ at' = 1
    /\ fetch' = [m \in Markets |-> [IdleFetch EXCEPT !.pc = "start"]]
    /\ asOf' = [obl |-> [o \in Obligations |-> VersionOf(chainObl[o])],
                rsv |-> [m \in Markets |-> VersionOf(reserve[m])]]
    /\ pool' = [s \in TxSlots |->
                IF pool[s] = NoTx THEN NoTx ELSE [pool[s] EXCEPT !.current = FALSE]]
    /\ UNCHANGED <<oracle, reserve, chainObl, accounts, creating, wallet, events,
                   awaits, capsule, persist, view, market, refresh, update,
                   writer, faults>>

JoinBoot ==
    /\ phase = "boot"
    /\ \A m \in Markets : capsule[m] # NoMarket
    /\ BeginIteration

(* Join the fetch task of the next market and spawn its persist task. *)
AwaitFetch ==
    /\ phase = "fetch"
    /\ at <= Len(MarketList)
    /\ LET m == MarketList[at] IN
       \/ /\ fetch[m].pc = "done"
          /\ persist' = persist \cup {m}
          /\ at' = at + 1
          /\ UNCHANGED phase
       \/ /\ fetch[m].pc = "panicked"
          /\ phase' = "dead"
          /\ UNCHANGED <<persist, at>>
    /\ UNCHANGED <<chainVars, awaits, capsule, fetch, view, market, refresh,
                   update, writer, faults, asOf>>

(* Variant: the handles of the spawned tasks are dropped, not awaited. *)
NotAwaited == TRUE

PersistJoined == persist = {}

JoinPersist ==
    /\ phase = "fetch"
    /\ at > Len(MarketList)
    /\ PersistJoined
    /\ phase' = "spawn"
    /\ at' = 1
    /\ UNCHANGED <<chainVars, awaits, taskVars, capsule, faults, asOf>>

(* Clone the retriever of the next market and spawn its market task, which   *)
(* spawns a refresh task for each obligation of the clone before it awaits.  *)
SpawnMarket ==
    /\ phase = "spawn"
    /\ LET m == MarketList[at]
           data == capsule[m].inner
       IN /\ view' = [view EXCEPT ![m] = data]
          /\ market' = [market EXCEPT ![m] = "running"]
          /\ refresh' = [o \in Obligations |->
                           IF o \in Keys(data) THEN "running" ELSE refresh[o]]
    /\ IF at = Len(MarketList) THEN phase' = "collect" /\ at' = 1
                               ELSE phase' = phase /\ at' = at + 1
    /\ UNCHANGED <<chainVars, awaits, capsule, fetch, persist, update, writer,
                   faults, asOf>>

(* Variant: a task that panicked is filtered out of the handles. *)
LiveHandles(m) == {o \in ObligationsOf(m) : update[o].pc \notin {"idle", "panicked"}}

(* The handles a market task returned, less those already awaited. *)
Handles(m) == {o \in ObligationsOf(m) : update[o].pc # "idle"}

(* Await the next handle of the market at hand; the map gives the handles in *)
(* an arbitrary order.                                                       *)
AwaitNext ==
    /\ phase = "collect"
    /\ awaits = NoTask
    /\ market[MarketList[at]] = "done"
    /\ \E o \in Handles(MarketList[at]) : awaits' = o
    /\ UNCHANGED <<chainVars, phase, at, taskVars, capsule, faults, asOf>>

(* An update task that ends is joined: a panic in it ends the process, and   *)
(* an obligation it returns is handed to a writer task.                      *)
AwaitUpdate ==
    /\ phase = "collect"
    /\ awaits # NoTask
    /\ \/ /\ update[awaits].pc = "panicked"
          /\ phase' = "dead"
          /\ UNCHANGED <<awaits, update, writer>>
       \/ /\ update[awaits].pc \in {"none", "some"}
          /\ writer' = [writer EXCEPT ![awaits] =
                          IF update[awaits].pc = "some" THEN update[awaits].result ELSE @]
          /\ update' = [update EXCEPT ![awaits] = IdleUpdate]
          /\ awaits' = NoTask
          /\ UNCHANGED phase
    /\ UNCHANGED <<chainVars, at, capsule, fetch, persist, view, market, refresh,
                   faults, asOf>>

NextMarket ==
    /\ phase = "collect"
    /\ awaits = NoTask
    /\ market[MarketList[at]] = "done"
    /\ Handles(MarketList[at]) = {}
    /\ market' = [market EXCEPT ![MarketList[at]] = "idle"]
    /\ IF at = Len(MarketList) THEN phase' = "drain" /\ at' = 1
                               ELSE phase' = phase /\ at' = at + 1
    /\ UNCHANGED <<chainVars, awaits, capsule, fetch, persist, view, refresh,
                   update, writer, faults, asOf>>

WritersJoined == \A o \in Obligations : writer[o] = NoObl

Loop ==
    /\ phase = "drain"
    /\ WritersJoined
    /\ Eternal
    /\ BeginIteration

Return ==
    /\ phase = "drain"
    /\ WritersJoined
    /\ ~Eternal
    /\ phase' = "done"
    /\ UNCHANGED <<chainVars, at, awaits, taskVars, capsule, faults, asOf>>

MainStep == \/ LoadConfig \/ JoinBoot \/ AwaitFetch \/ JoinPersist \/ SpawnMarket
            \/ AwaitNext \/ AwaitUpdate \/ NextMarket \/ Loop \/ Return
-----------------------------------------------------------------------------
(* The fetch and persist tasks of a market. *)

FetchUnchanged == UNCHANGED <<chainVars, mainVars, capsule, persist, view,
                              market, refresh, update, writer, asOf>>

(* The clone of the retriever decides how the obligations are fetched: all   *)
(* accounts of the market the first time, the keys it already holds later.   *)
FetchStart(m) ==
    /\ Running
    /\ fetch[m].pc = "start"
    /\ capsule[m] # NoMarket
    /\ fetch' = [fetch EXCEPT ![m] =
                   [pc |-> "running",
                    todo |-> {"reserves", "oracle"} \cup
                               (IF capsule[m].initialized THEN {} ELSE {"scan"}),
                    unread |-> IF capsule[m].initialized THEN Keys(capsule[m].inner)
                                                         ELSE {},
                    data |-> EmptyData]]
    /\ UNCHANGED faults
    /\ FetchUnchanged

Fetching(m) == Running /\ fetch[m].pc = "running"

(* get_reserves: an error yields the empty map. *)
FetchReserves(m) ==
    /\ Fetching(m)
    /\ "reserves" \in fetch[m].todo
    /\ \/ /\ fetch' = [fetch EXCEPT ![m].todo = @ \ {"reserves"},
                                    ![m].data.reserves = reserve[m]]
          /\ UNCHANGED faults
       \/ /\ Fault
          /\ fetch' = [fetch EXCEPT ![m].todo = @ \ {"reserves"}]
    /\ FetchUnchanged

(* get_token_oracle_data: an unreadable feed is left out of the map, a       *)
(* failed call is unwrapped.                                                 *)
FetchOracle(m) ==
    /\ Fetching(m)
    /\ "oracle" \in fetch[m].todo
    /\ \/ /\ fetch' = [fetch EXCEPT ![m].todo = @ \ {"oracle"},
                                    ![m].data.oracle = TRUE]
          /\ UNCHANGED faults
       \/ /\ Fault
          /\ \/ fetch' = [fetch EXCEPT ![m].todo = @ \ {"oracle"}]
             \/ fetch' = [fetch EXCEPT ![m].pc = "panicked"]
    /\ FetchUnchanged

(* get_obligations: an error yields the empty map. *)
GetObligations(m) ==
    /\ Fetching(m)
    /\ "scan" \in fetch[m].todo
    /\ \/ /\ fetch' = [fetch EXCEPT
                         ![m].todo = @ \ {"scan"},
                         ![m].data.obligations =
                           [o \in Obligations |->
                              IF MarketOf[o] = m THEN chainObl[o] ELSE NoObl]]
          /\ UNCHANGED faults
       \/ /\ Fault
          /\ fetch' = [fetch EXCEPT ![m].todo = @ \ {"scan"}]
    /\ FetchUnchanged

(* update_obligations: a task per key, each reading one account; a failed    *)
(* call is unwrapped.                                                        *)
UpdateObligation(m, o) ==
    /\ Fetching(m)
    /\ o \in fetch[m].unread
    /\ \/ /\ fetch' = [fetch EXCEPT ![m] = [fetch[m] EXCEPT !.unread = @ \ {o},
                                       !.data.obligations[o] = chainObl[o]]]
          /\ UNCHANGED faults
       \/ /\ Fault
          /\ fetch' = [fetch EXCEPT ![m].pc = "panicked"]
    /\ FetchUnchanged

FetchReturn(m) ==
    /\ Fetching(m)
    /\ fetch[m].todo = {} /\ fetch[m].unread = {}
    /\ fetch' = [fetch EXCEPT ![m].pc = "done"]
    /\ UNCHANGED faults
    /\ FetchUnchanged

(* update_market_data_for, under the write lock. *)
PersistMarket(m) ==
    /\ Running
    /\ m \in persist
    /\ capsule' = [capsule EXCEPT ![m] = [inner |-> fetch[m].data, initialized |-> TRUE]]
    /\ persist' = persist \ {m}
    /\ UNCHANGED <<chainVars, mainVars, fetch, view, market, refresh, update,
                   writer, faults, asOf>>
-----------------------------------------------------------------------------
(* The market task and its refresh tasks. *)

(* refresh_obligation and the tests on its result: the oracle map is only    *)
(* asked whether it has the reserve, the price is the one the reserve        *)
(* recorded.  borrowed_value is the debt, unhealthy_borrow_value the price.  *)
Underwater(data, o) ==
    /\ data.reserves # NoRsv
    /\ data.oracle
    /\ data.obligations[o].debt # 0
    /\ data.reserves.price # 0
    /\ data.obligations[o].debt > data.reserves.price

(* Variant: the tests for a zero price and a zero debt are missing. *)
ComparesZeros(o) ==
    LET data == view[MarketOf[o]] IN
    /\ Running
    /\ refresh[o] = "running"
    /\ refresh' = [refresh EXCEPT ![o] =
                     IF /\ data.reserves # NoRsv /\ data.oracle
                        /\ data.obligations[o].debt > data.reserves.price
                     THEN "some" ELSE "none"]
    /\ UNCHANGED <<chainVars, mainVars, capsule, fetch, persist, view, market,
                   update, writer, faults, asOf>>

RefreshObligation(o) ==
    /\ Running
    /\ refresh[o] = "running"
    /\ refresh' = [refresh EXCEPT ![o] =
                     IF Underwater(view[MarketOf[o]], o) THEN "some" ELSE "none"]
    /\ UNCHANGED <<chainVars, mainVars, capsule, fetch, persist, view, market,
                   update, writer, faults, asOf>>

(* Join a refresh task and spawn the update task of its obligation, which    *)
(* returns at once when there is nothing to liquidate.                       *)
SpawnUpdate(o) ==
    /\ Running
    /\ market[MarketOf[o]] = "running"
    /\ refresh[o] \in {"none", "some"}
    /\ refresh' = [refresh EXCEPT ![o] = "idle"]
    /\ update' = [update EXCEPT ![o] =
                    [IdleUpdate EXCEPT !.pc = IF refresh[o] = "some" THEN "ata" ELSE "none"]]
    /\ UNCHANGED <<chainVars, mainVars, capsule, fetch, persist, view, market,
                   writer, faults, asOf>>

MarketReturn(m) ==
    /\ Running
    /\ market[m] = "running"
    /\ \A o \in ObligationsOf(m) : refresh[o] = "idle"
    /\ market' = [market EXCEPT ![m] = "done"]
    /\ UNCHANGED <<chainVars, mainVars, capsule, fetch, persist, view, refresh,
                   update, writer, faults, asOf>>
-----------------------------------------------------------------------------
(* The update task of an obligation. *)

UpdateUnchanged == UNCHANGED <<mainVars, capsule, fetch, persist, view, market,
                               refresh, writer, asOf>>

Updating(o, state) == Running /\ update[o].pc = state

Goto(o, state) == update' = [update EXCEPT ![o].pc = state]

(* get_or_create_account_data: any error, be it that the account does not    *)
(* exist or that the call failed, leads to a transaction that creates it.    *)
GetAccount(o) ==
    /\ Updating(o, "ata")
    /\ \/ /\ Goto(o, IF RepayAccount[o] \in accounts THEN "wallet" ELSE "create")
          /\ UNCHANGED faults
       \/ /\ Fault
          /\ Goto(o, "create")
    /\ UNCHANGED chainVars
    /\ UpdateUnchanged

(* The transaction is sent and not awaited; a failed call is unwrapped. *)
CreateAccount(o) ==
    /\ Updating(o, "create")
    /\ \/ /\ creating' = creating \cup {RepayAccount[o]}
          /\ Goto(o, "wallet")
          /\ UNCHANGED faults
       \/ /\ Fault
          /\ Goto(o, "panicked")
          /\ UNCHANGED creating
    /\ UNCHANGED <<oracle, reserve, chainObl, accounts, wallet, pool, events>>
    /\ UpdateUnchanged

(* Variants: an empty wallet is unwrapped; the task waits for funds. *)
PanicsOnEmpty(balance) == IF balance = 0 THEN "panicked" ELSE "collateral"
WaitsForFunds(balance) == IF balance = 0 THEN "wallet" ELSE "collateral"

AfterWallet(balance) == IF balance = 0 THEN "none" ELSE "collateral"

(* get_wallet_token_data: None, when the account is missing or the call      *)
(* fails, is unwrapped; an empty wallet ends the task.                       *)
ReadWallet(o) ==
    LET balance == wallet[RepayAccount[o]] IN
    /\ Updating(o, "wallet")
    /\ \/ /\ RepayAccount[o] \in accounts
          /\ update' = [update EXCEPT ![o].pc = AfterWallet(balance),
                                      ![o].amount = balance]
          /\ UNCHANGED faults
       \/ /\ RepayAccount[o] \notin accounts
          /\ Goto(o, "panicked")
          /\ UNCHANGED faults
       \/ /\ Fault
          /\ Goto(o, "panicked")
    /\ UNCHANGED chainVars
    /\ UpdateUnchanged

(* get_or_substitute_account_data, for the collateral and then the liquidity *)
(* account: on any error an instruction that creates the account is added.   *)
Substitute(o, state, account, next) ==
    /\ Updating(o, state)
    /\ \/ /\ update' = [update EXCEPT ![o].pc = next,
                                      ![o].create = @ \cup ({account} \ accounts)]
          /\ UNCHANGED faults
       \/ /\ Fault
          /\ update' = [update EXCEPT ![o].pc = next,
                                      ![o].create = @ \cup {account}]
    /\ UNCHANGED chainVars
    /\ UpdateUnchanged

(* Variant: the task gives up when the account to seize into is missing. *)
GivesUpOnMissing(o) ==
    Substitute(o, "collateral", CollateralAccount[o],
               IF CollateralAccount[o] \in accounts THEN "liquidity" ELSE "none")

SubstituteCollateral(o) ==
    Substitute(o, "collateral", CollateralAccount[o], "liquidity")

SubstituteLiquidity(o) ==
    Substitute(o, "liquidity", LiquidityAccount[o], "sign")

(* The blockhash is fetched, unwrapping the answer, and the transaction is   *)
(* signed: once, before the first attempt to send it.                        *)
SignTransaction(o) ==
    /\ Updating(o, "sign")
    /\ \/ \E s \in TxSlots :
             /\ pool[s] = NoTx
             /\ pool' = [pool EXCEPT ![s] = [st |-> "signed", obl |-> o,
                                             amount |-> update[o].amount,
                                             create |-> update[o].create,
                                             current |-> TRUE]]
             /\ update' = [update EXCEPT ![o].pc = "send", ![o].tx = s]
             /\ UNCHANGED faults
       \/ /\ Fault
          /\ Goto(o, "panicked")
          /\ UNCHANGED pool
    /\ UNCHANGED <<oracle, reserve, chainObl, accounts, creating, wallet, events>>
    /\ UpdateUnchanged

(* What the cluster makes of a signed transaction it receives: a signature   *)
(* it has seen is not processed again.                                       *)
Receive(tx) == [tx EXCEPT !.st = IF @ = "signed" THEN "sent" ELSE @]

(* FutureRetry sends the signed transaction until the node accepts it.       *)
SendTransaction(o) ==
    LET s == update[o].tx IN
    /\ Updating(o, "send")
    /\ pool' = [pool EXCEPT ![s] = IF @.st = "settled" THEN NoTx ELSE Receive(@)]
    /\ update' = [update EXCEPT ![o].pc = "reread", ![o].tx = NoTask]
    /\ UNCHANGED <<oracle, reserve, chainObl, accounts, creating, wallet, events, faults>>
    /\ UpdateUnchanged

(* Variant: the transaction is signed inside the retried closure, with a new *)
(* blockhash for each attempt.                                               *)
RetrySigns(o) ==
    /\ Updating(o, "send")
    /\ Fault
    /\ pool' = [pool EXCEPT ![update[o].tx] = Receive(@)]
    /\ update' = [update EXCEPT ![o].pc = "sign", ![o].tx = NoTask]
    /\ UNCHANGED <<oracle, reserve, chainObl, accounts, creating, wallet, events>>
    /\ UpdateUnchanged

(* handle_error waits and retries whatever the error, also when the node has *)
(* taken the transaction although the call failed.                           *)
RetrySend(o) ==
    /\ Updating(o, "send")
    /\ Fault
    /\ pool' = [pool EXCEPT ![update[o].tx] = Receive(@)]
    /\ UNCHANGED <<oracle, reserve, chainObl, accounts, creating, wallet, events, update>>
    /\ UpdateUnchanged

(* get_obligation: read back at once, whether or not the transaction landed; *)
(* None is unwrapped.                                                        *)
GetObligation(o) ==
    /\ Updating(o, "reread")
    /\ \/ /\ update' = [update EXCEPT ![o].pc = "some", ![o].result = chainObl[o]]
          /\ UNCHANGED faults
       \/ /\ Fault
          /\ Goto(o, "panicked")
    /\ UNCHANGED chainVars
    /\ UpdateUnchanged

(* update_distinct_obligation_for, under the write lock. *)
WriteObligation(o) ==
    /\ Running
    /\ writer[o] # NoObl
    /\ capsule' = [capsule EXCEPT ![MarketOf[o]].inner.obligations[o] = writer[o]]
    /\ writer' = [writer EXCEPT ![o] = NoObl]
    /\ UNCHANGED <<chainVars, mainVars, fetch, persist, view, market, refresh,
                   update, faults, asOf>>
-----------------------------------------------------------------------------
(* The chain: what others do, and what becomes of the bot's transactions.    *)

BotUnchanged == UNCHANGED <<mainVars, taskVars, capsule, faults, asOf>>

Event == /\ events > 0
         /\ events' = events - 1

MovePrice(m) ==
    /\ Event
    /\ \E p \in Prices \ {oracle[m]} : oracle' = [oracle EXCEPT ![m] = p]
    /\ UNCHANGED <<reserve, chainObl, accounts, creating, wallet, pool>>
    /\ BotUnchanged

(* The reserve takes over the price of its oracle: process_refresh_reserve. *)
Refreshed(m) == [price |-> oracle[m], version |-> reserve[m].version + 1]

RefreshReserve(m) ==
    /\ reserve[m].price # oracle[m]
    /\ reserve' = [reserve EXCEPT ![m] = Refreshed(m)]
    /\ UNCHANGED <<oracle, chainObl, accounts, creating, wallet, pool, events>>
    /\ BotUnchanged

ChangeObligation(o) ==
    /\ Event
    /\ \E d \in Debts :
         /\ chainObl[o] # NoObl => d # chainObl[o].debt
         /\ chainObl' = [chainObl EXCEPT ![o] = [debt |-> d, version |-> VersionOf(@) + 1]]
    /\ UNCHANGED <<oracle, reserve, accounts, creating, wallet, pool>>
    /\ BotUnchanged

AccountCreated(a) ==
    /\ a \in creating
    /\ creating' = creating \ {a}
    /\ accounts' = accounts \cup {a}
    /\ UNCHANGED <<oracle, reserve, chainObl, wallet, pool, events>>
    /\ BotUnchanged

(* The slot of a transaction that is over is free, unless its task still     *)
(* resends it.                                                               *)
Settle(s) ==
    pool' = [pool EXCEPT ![s] = IF \E o \in Obligations : update[o].tx = s
                                THEN [@ EXCEPT !.st = "settled"] ELSE NoTx]

(* The transaction refreshes the reserves and the obligation and liquidates: *)
(* the program refuses a healthy obligation, and the tokens repaid come from *)
(* the wallet.  A create instruction fails if the account exists.            *)
Liquidatable(o) ==
    /\ chainObl[o] # NoObl
    /\ oracle[MarketOf[o]] # 0
    /\ chainObl[o].debt # 0
    /\ chainObl[o].debt >= oracle[MarketOf[o]]

(* Variant: the amount decided when the transaction was signed is trusted. *)
RepaysQuoted(tx) == {n \in 1..chainObl[tx.obl].debt : n <= tx.amount}

(* What the program may take: some part of the debt, up to the amount the    *)
(* bot offered and what the wallet holds when the transaction lands.         *)
Repayable(tx) == {n \in 1..chainObl[tx.obl].debt :
                    n <= tx.amount /\ n <= wallet[RepayAccount[tx.obl]]}

Land(s) ==
    LET tx == pool[s]
        o == tx.obl
        pay == RepayAccount[o]
    IN
    /\ tx # NoTx /\ tx.st = "sent"
    /\ Liquidatable(o)
    /\ tx.create \cap accounts = {}
    /\ {pay, CollateralAccount[o], LiquidityAccount[o]} \subseteq accounts \cup tx.create
    /\ \E repaid \in Repayable(tx), gain \in Gains :
         /\ chainObl' = [chainObl EXCEPT ![o] = [debt |-> @.debt - repaid,
                                                 version |-> @.version + 1]]
         /\ wallet' = [[wallet EXCEPT ![pay] = @ - repaid]
                         EXCEPT ![LiquidityAccount[o]] = @ + gain]
    /\ accounts' = accounts \cup tx.create
    /\ reserve' = [reserve EXCEPT ![MarketOf[o]] = Refreshed(MarketOf[o])]
    /\ Settle(s)
    /\ UNCHANGED <<oracle, creating, events>>
    /\ BotUnchanged

(* The transaction fails or its blockhash expires: nothing else changes. *)
Drop(s) ==
    /\ pool[s] # NoTx /\ pool[s].st = "sent"
    /\ Settle(s)
    /\ UNCHANGED <<oracle, reserve, chainObl, accounts, creating, wallet, events>>
    /\ BotUnchanged
-----------------------------------------------------------------------------
FetchStep(m) == \/ UpdateInitially(m) \/ FetchStart(m) \/ FetchReserves(m)
                \/ FetchOracle(m) \/ GetObligations(m)
                \/ \E o \in Obligations : UpdateObligation(m, o)
                \/ FetchReturn(m) \/ PersistMarket(m) \/ MarketReturn(m)

UpdateStep(o) == \/ RefreshObligation(o) \/ SpawnUpdate(o) \/ GetAccount(o)
                 \/ CreateAccount(o) \/ ReadWallet(o) \/ SubstituteCollateral(o)
                 \/ SubstituteLiquidity(o) \/ SignTransaction(o)
                 \/ SendTransaction(o) \/ GetObligation(o) \/ WriteObligation(o)

BotStep == \/ MainStep \/ ConfigFails
           \/ \E m \in Markets : FetchStep(m)
           \/ \E o \in Obligations : UpdateStep(o) \/ RetrySend(o)

ChainStep == \/ \E m \in Markets : MovePrice(m) \/ RefreshReserve(m)
             \/ \E o \in Obligations : ChangeObligation(o)
             \/ \E a \in Accounts : AccountCreated(a)
             \/ \E s \in TxSlots : Land(s) \/ Drop(s)

(* main returned or panicked, and the process with it. *)
Stopped == ~Running /\ UNCHANGED vars

Next == BotStep \/ ChainStep \/ Stopped

Spec == Init /\ [][Next]_vars

(* The runtime polls every task that can run, a call to the node returns,    *)
(* and a node that is asked to send a transaction accepts it sooner or later.*)
(* A pending transaction is settled: its blockhash expires if nothing else.  *)
(* Nothing is assumed of what others do on the chain.                        *)
Fairness ==
    /\ WF_vars(MainStep)
    /\ \A m \in Markets : WF_vars(FetchStep(m))
    /\ \A o \in Obligations : WF_vars(UpdateStep(o))
    /\ \A s \in TxSlots : WF_vars(Land(s) \/ Drop(s))

FairSpec == Spec /\ Fairness
-----------------------------------------------------------------------------
(* Safety. *)

(* The update task of o is at work on a liquidation. *)
Working(o) == update[o].pc \notin {"idle", "none", "some", "panicked"}

(* The transaction in slot s was signed for o in this iteration. *)
CurrentTx(s, o) == pool[s] # NoTx /\ pool[s].obl = o /\ pool[s].current

(* Every task is joined before the iteration that spawned it is over:        *)
(* when process_markets starts over, no task of an earlier call is left to   *)
(* read the capsule late or to write an old obligation over a newer one, and *)
(* the market tasks start only when every fetched market is persisted.       *)
TasksJoined ==
    /\ phase \in {"fetch", "drain"} =>
         \A o \in Obligations : refresh[o] = "idle" /\ update[o].pc = "idle"
    /\ phase = "fetch" => \A o \in Obligations : writer[o] = NoObl
    /\ phase \in {"spawn", "collect", "drain"} =>
         /\ persist = {}
         /\ \A m \in Markets : fetch[m].pc = "done"

(* A liquidation is worked on, and a transaction of this iteration exists,   *)
(* only for an obligation that was underwater in the data its market task    *)
(* was given, that was read from the chain after the iteration began: both   *)
(* the obligation and the reserves are at least as recent as they were then. *)
DecisionsAreFresh ==
    \A o \in Obligations :
        (Working(o) \/ \E s \in TxSlots : CurrentTx(s, o)) =>
            LET data == view[MarketOf[o]] IN
            /\ o \in Keys(data)
            /\ Underwater(data, o)
            /\ data.obligations[o].version >= asOf.obl[o]
            /\ data.reserves.version >= asOf.rsv[MarketOf[o]]

(* A decision to liquidate puts at most one transaction on the chain however *)
(* often the send is retried, because it is signed once, outside the retry.  *)
OneTransactionPerDecision ==
    \A o \in Obligations : \A s, t \in TxSlots :
        CurrentTx(s, o) /\ CurrentTx(t, o) => s = t

(* The process panics only after a call to the node failed or when the       *)
(* account it repays from did not exist when it started: a healthy           *)
(* obligation, an empty wallet, a missing account to seize into, a           *)
(* transaction that fails on chain or an empty market never bring it down.   *)
DiesOnlyOfFaults ==
    /\ faults = MaxFaults
    /\ \A o \in Obligations : RepayAccount[o] \in InitialAccounts
    => phase # "dead"

(* What the capsule knows of an obligation never goes back in time: neither  *)
(* the next fetch nor the write of the obligation read back after a send     *)
(* replaces it by an older state of the account.                             *)
CapsuleNeverRegresses ==
    [][\A o \in Obligations :
         capsule[MarketOf[o]] # NoMarket =>
           VersionOf(capsule'[MarketOf[o]].inner.obligations[o])
             >= VersionOf(capsule[MarketOf[o]].inner.obligations[o])]_vars
-----------------------------------------------------------------------------
(* Liveness. *)

(* In the eternal mode iterations follow each other until the process dies;  *)
(* in the other mode the one iteration ends.                                 *)
IterationsComplete == []<>(phase = "fetch" /\ at = 1) \/ <>[]~Running

(* A panic in any task brings the process down: no task that died is waited  *)
(* for forever, and none is forgotten.                                       *)
PanicIsFatal ==
    /\ \A m \in Markets : fetch[m].pc = "panicked" ~> phase = "dead"
    /\ \A o \in Obligations : update[o].pc = "panicked" ~> phase = "dead"

(* o is tracked, and the chain shows it underwater at the price its reserves *)
(* recorded, with tokens in the wallet to repay with.                        *)
Actionable(o) ==
    /\ capsule[MarketOf[o]] # NoMarket
    /\ o \in Keys(capsule[MarketOf[o]].inner)
    /\ reserve[MarketOf[o]].price # 0
    /\ chainObl[o].debt > reserve[MarketOf[o]].price
    /\ RepayAccount[o] \in accounts
    /\ wallet[RepayAccount[o]] > 0

(* An obligation that stays so is attempted again and again, unless the      *)
(* process has died: no iteration is the last, and no failed, dropped or     *)
(* doomed transaction makes the bot give up on it.                           *)
UnderwaterIsAttempted ==
    \A o \in Obligations :
        <>[]Actionable(o) => []<>(update[o].pc = "reread") \/ <>(phase = "dead")
=============================================================================
