-------------------------- MODULE LiquidatorProofs --------------------------
(* What holds of the bot for every list of markets, every set of obligations *)
(* and accounts and any number of faults and events, layer by layer of its   *)
(* inductive invariant.                                                      *)
EXTENDS LiquidatorInv, TLAPS

(* Layer 1: types. *)

(* Every index of the configuration's list is a market. *)
LEMMA ListedMarkets ==
    /\ Len(MarketList) \in Nat
    /\ \A i \in 1..Len(MarketList) : MarketList[i] \in Markets
  BY MarketsAssumption DEF Markets, Range

(* VersionOf yields a number for everything that may be in a map. *)
LEMMA VersionOfType ==
    /\ \A x \in Obl \cup {NoObl} : VersionOf(x) \in Nat
    /\ \A x \in Rsv \cup {NoRsv} : VersionOf(x) \in Nat
  BY DEF VersionOf, Obl, Rsv

LEMMA BlankTypes ==
    /\ EmptyData \in MarketData
    /\ IdleFetch \in FetchTask
    /\ IdleUpdate \in UpdateTask
  BY DEF EmptyData, MarketData, IdleFetch, FetchTask, IdleUpdate, UpdateTask,
         UpdateStates

LEMMA InitTypeInv == Init => TypeInv
<1> SUFFICES ASSUME Init PROVE TypeInv
  OBVIOUS
<1>1. ChainType
  <2>1. oracle \in [Markets -> Nat]
    BY NumbersAssumption DEF Init
  <2>2. reserve \in [Markets -> Rsv]
    BY <2>1 DEF Init, Rsv
  <2>3. chainObl \in [Obligations -> Obl \cup {NoObl}]
    BY NumbersAssumption DEF Init, Obl
  <2> QED
    BY <2>1, <2>2, <2>3, AccountsAssumption, NumbersAssumption DEF Init, ChainType
<1>2. MainType
  BY ListedMarkets DEF Init, MainType
<1>3. TaskType
  BY BlankTypes DEF Init, TaskType
<1>4. SlotsOwned
  BY DEF Init, SlotsOwned, SlotOwned, IdleUpdate
<1> QED
  BY <1>1, <1>2, <1>3, <1>4, NumbersAssumption
  DEF Init, TypeOK, TypeInv, LoopBounds, CapsuleReady, WritersInPhase

(* A step that leaves pool and the update tasks alone leaves the slots owned. *)
LEMMA SlotsFrame ==
    ASSUME SlotsOwned, UNCHANGED <<pool, update>> PROVE SlotsOwned'
  BY DEF SlotsOwned, SlotOwned

(* What the main task does keeps every variable in its type. *)
LEMMA MainStepType ==
    ASSUME TypeInv, MainStep \/ ConfigFails PROVE TypeInv'
<1> USE ListedMarkets, SlotsFrame
    DEF TypeInv, TypeOK, mainVars, taskVars, chainVars, LoopBounds, CapsuleReady, WritersInPhase
<1>1. CASE LoadConfig
  BY <1>1 DEF LoadConfig, ChainType, MainType, TaskType
<1>2. CASE ConfigFails
  BY <1>2 DEF ConfigFails, Fault, ChainType, MainType, TaskType
<1>3. ASSUME BeginIteration, \A m \in Markets : capsule[m] # NoMarket, WritersJoined
      PROVE  TypeInv'
  <2>1. pool' \in [TxSlots -> Tx \cup {NoTx}]
    <3>1. ASSUME NEW s \in TxSlots, pool[s] # NoTx
          PROVE [pool[s] EXCEPT !.current = FALSE] \in Tx
      <4>1. pool[s] \in Tx
        BY <3>1 DEF ChainType
      <4> QED
        BY <4>1 DEF Tx
    <3> QED
      BY <1>3, <3>1 DEF BeginIteration
  <2>2. fetch' \in [Markets -> FetchTask]
    BY <1>3, BlankTypes DEF BeginIteration, FetchTask, IdleFetch
  <2>3. asOf' \in [obl : [Obligations -> Nat], rsv : [Markets -> Nat]]
    BY <1>3, VersionOfType DEF BeginIteration, ChainType
  <2>4. SlotsOwned'
    <3> SUFFICES ASSUME NEW o \in Obligations PROVE SlotOwned(o)'
      BY DEF SlotsOwned
    <3>1. SlotOwned(o) /\ update'[o] = update[o]
      BY <1>3 DEF SlotsOwned, BeginIteration
    <3>2. CASE update[o].tx # NoTask
      <4> DEFINE s == update[o].tx
      <4>1. s \in TxSlots /\ pool[s] \in Tx /\ pool[s].obl = o
        BY <3>1, <3>2 DEF SlotOwned, TaskType, UpdateTask, ChainType
      <4>2. pool'[s] = [pool[s] EXCEPT !.current = FALSE]
        BY <1>3, <4>1, NoTxAssumption DEF BeginIteration
      <4>3. pool'[s] \in Tx /\ pool'[s].obl = o
        BY <4>1, <4>2 DEF Tx
      <4> QED
        BY <3>1, <4>3, NoTxAssumption DEF SlotOwned
    <3> QED
      BY <3>1, <3>2 DEF SlotOwned
  <2>5. MainType'
    BY <1>3 DEF BeginIteration, MainType
  <2>6. TaskType'
    BY <1>3, <2>2 DEF BeginIteration, TaskType
  <2>7. ChainType'
    BY <1>3, <2>1 DEF BeginIteration, ChainType
  <2> QED
    BY <1>3, <2>3, <2>4, <2>5, <2>6, <2>7 DEF BeginIteration, WritersJoined
<1>4. CASE AwaitFetch
  <2>1. MarketList[at] \in Markets /\ at + 1 \in 1..(Len(MarketList) + 1)
    BY <1>4 DEF AwaitFetch, MainType
  <2> QED
    BY <1>4, <2>1 DEF AwaitFetch, ChainType, MainType, TaskType
<1>5. CASE JoinPersist
  BY <1>5, MarketsAssumption DEF JoinPersist, ChainType, MainType, TaskType
<1>6. CASE SpawnMarket
  <2>1. MarketList[at] \in Markets
    BY <1>6 DEF SpawnMarket, MainType
  <2>2. capsule[MarketList[at]].inner \in MarketData
    BY <1>6, <2>1 DEF SpawnMarket, Retriever
  <2>3. MainType' /\ LoopBounds'
    BY <1>6 DEF SpawnMarket, MainType
  <2>4. TaskType'
    BY <1>6, <2>1, <2>2 DEF SpawnMarket, TaskType
  <2> QED
    BY <1>6, <2>3, <2>4 DEF SpawnMarket, ChainType
<1>7. CASE AwaitNext
  BY <1>7 DEF AwaitNext, Handles, ObligationsOf, ChainType, MainType, TaskType
<1>8. CASE AwaitUpdate
  <2>1. awaits \in Obligations
    BY <1>8 DEF AwaitUpdate, MainType
  <2>2. TaskType'
    <3>1. update[awaits].result \in Obl \cup {NoObl}
      BY <2>1 DEF TaskType, UpdateTask
    <3>2. writer' \in [Obligations -> Obl \cup {NoObl}]
      BY <1>8, <2>1, <3>1 DEF AwaitUpdate, TaskType
    <3>3. update' \in [Obligations -> UpdateTask]
      BY <1>8, <2>1, BlankTypes DEF AwaitUpdate, TaskType
    <3> QED
      BY <1>8, <3>2, <3>3 DEF AwaitUpdate, TaskType
  <2>3. SlotsOwned'
    <3> SUFFICES ASSUME NEW o \in Obligations PROVE SlotOwned(o)'
      BY DEF SlotsOwned
    <3>1. update'[o] = update[o] \/ update'[o] = IdleUpdate
      BY <1>8, <2>1 DEF AwaitUpdate, TaskType
    <3>2. CASE update'[o] = update[o]
      BY <1>8, <3>2 DEF AwaitUpdate, SlotsOwned, SlotOwned
    <3>3. CASE update'[o] = IdleUpdate
      BY <3>3 DEF SlotOwned, IdleUpdate
    <3> QED
      BY <3>1, <3>2, <3>3
  <2> QED
    BY <1>8, <2>2, <2>3 DEF AwaitUpdate, ChainType, MainType
<1>9. CASE NextMarket
  <2>1. MainType' /\ LoopBounds'
    BY <1>9 DEF NextMarket, MainType
  <2> QED
    BY <1>9, <2>1 DEF NextMarket, ChainType, TaskType
<1>10. CASE Return
  BY <1>10 DEF Return, WritersJoined, ChainType, MainType, TaskType
<1>11. CASE JoinBoot
  <2>1. WritersJoined
    BY <1>11 DEF JoinBoot, WritersJoined
  <2> QED
    BY <1>3, <1>11, <2>1 DEF JoinBoot
<1>12. CASE Loop
  BY <1>3, <1>12 DEF Loop
<1> QED
  BY <1>1, <1>2, <1>4, <1>5, <1>6, <1>7, <1>8, <1>9, <1>10, <1>11, <1>12 DEF MainStep

(* A step that only replaces the fetch task of one market, by one of its type. *)
LEMMA FetchTaskType ==
    ASSUME TypeInv, NEW m \in Markets, FetchUnchanged,
           faults' \in Nat, NEW task \in FetchTask,
           fetch' = [fetch EXCEPT ![m] = task]
    PROVE  TypeInv'
  BY SlotsFrame DEF TypeInv, TypeOK, FetchUnchanged, chainVars, mainVars,
     ChainType, MainType, TaskType, LoopBounds, CapsuleReady, WritersInPhase

(* The parts of what a fetch task holds. *)
LEMMA FetchParts ==
    ASSUME TypeInv, NEW m \in Markets
    PROVE  /\ fetch[m] \in FetchTask
           /\ fetch[m].todo \subseteq {"reserves", "oracle", "scan"}
           /\ fetch[m].unread \subseteq Obligations
           /\ fetch[m].data \in MarketData
           /\ reserve[m] \in Rsv
           /\ \A o \in Obligations : chainObl[o] \in Obl \cup {NoObl}
           /\ \A o \in Obligations : fetch[m].data.obligations[o] \in Obl \cup {NoObl}
<1>1. fetch[m] \in FetchTask
  BY DEF TypeInv, TypeOK, TaskType
<1>2. fetch[m].data \in MarketData
  BY <1>1 DEF FetchTask
<1> QED
  BY <1>1, <1>2 DEF TypeInv, TypeOK, ChainType, FetchTask, MarketData

(* Each way a fetch task records what it read gives a fetch task. *)
LEMMA TodoUpdate ==
    ASSUME NEW t \in FetchTask, NEW q \in SUBSET {"reserves", "oracle", "scan"}
    PROVE  /\ [t EXCEPT !.todo = q] \in FetchTask
           /\ [t EXCEPT !.todo = q, !.data.oracle = TRUE] \in FetchTask
           /\ [t EXCEPT !.pc = "panicked"] \in FetchTask
           /\ [t EXCEPT !.pc = "done"] \in FetchTask
<1>1. [t EXCEPT !.todo = q] \in FetchTask
  BY DEF FetchTask
<1>2. [t EXCEPT !.todo = q, !.data.oracle = TRUE] \in FetchTask
  BY DEF FetchTask, MarketData
<1>3. [t EXCEPT !.pc = "panicked"] \in FetchTask /\ [t EXCEPT !.pc = "done"] \in FetchTask
  BY DEF FetchTask
<1> QED
  BY <1>1, <1>2, <1>3

LEMMA ReservesUpdate ==
    ASSUME NEW t \in FetchTask, NEW q \in SUBSET {"reserves", "oracle", "scan"}, NEW r \in Rsv
    PROVE  [t EXCEPT !.todo = q, !.data.reserves = r] \in FetchTask
  BY DEF FetchTask, MarketData

LEMMA ScanUpdate ==
    ASSUME NEW t \in FetchTask, NEW q \in SUBSET {"reserves", "oracle", "scan"},
           NEW f \in [Obligations -> Obl \cup {NoObl}]
    PROVE  [t EXCEPT !.todo = q, !.data.obligations = f] \in FetchTask
  BY DEF FetchTask, MarketData

LEMMA ReadUpdate ==
    ASSUME NEW t \in FetchTask, NEW q \in SUBSET Obligations,
           NEW o \in Obligations, NEW x \in Obl \cup {NoObl}
    PROVE  [t EXCEPT !.unread = q, !.data.obligations[o] = x] \in FetchTask
<1>1. t.data.obligations \in [Obligations -> Obl \cup {NoObl}]
  BY DEF FetchTask, MarketData
<1> QED
  BY <1>1 DEF FetchTask, MarketData

LEMMA FetchStepType ==
    ASSUME TypeInv, NEW m \in Markets, FetchStep(m) PROVE TypeInv'
<1> DEFINE task == fetch'[m]
<1>f. faults \in Nat /\ (Fault => faults' \in Nat)
  BY DEF TypeInv, TypeOK, Fault
<1>1. CASE UpdateInitially(m)
  <2>1. capsule' \in [Markets -> Retriever \cup {NoMarket}]
    BY <1>1, BlankTypes DEF UpdateInitially, TypeInv, TypeOK, Retriever
  <2> QED
    BY <1>1, <2>1, SlotsFrame DEF UpdateInitially, TypeInv, TypeOK, ChainType, MainType,
       TaskType, chainVars, mainVars, taskVars, LoopBounds, CapsuleReady, WritersInPhase
<1>2. CASE FetchStart(m)
  <2>1. task \in FetchTask /\ fetch' = [fetch EXCEPT ![m] = task]
    <3>1. fetch' = [fetch EXCEPT ![m] = task]
      BY <1>2 DEF FetchStart, TypeInv, TypeOK, TaskType
    <3>2. Keys(capsule[m].inner) \subseteq Obligations
      BY DEF Keys
    <3> QED
      BY <1>2, <3>1, <3>2, BlankTypes DEF FetchStart, FetchTask, TypeInv, TypeOK, TaskType
  <2> QED
    BY <1>2, <1>f, <2>1, FetchTaskType DEF FetchStart
<1>3. CASE FetchReserves(m)
  <2> DEFINE u == [fetch[m] EXCEPT !.todo = @ \ {"reserves"}, !.data.reserves = reserve[m]]
             v == [fetch[m] EXCEPT !.todo = @ \ {"reserves"}]
  <2>1. u \in FetchTask /\ v \in FetchTask
    BY FetchParts, ReservesUpdate, TodoUpdate
  <2>2. fetch' = [fetch EXCEPT ![m] = u] \/ fetch' = [fetch EXCEPT ![m] = v]
    BY <1>3 DEF FetchReserves, TypeInv, TypeOK, TaskType, FetchTask
  <2> HIDE DEF u, v
  <2> QED
    BY <1>3, <1>f, <2>1, <2>2, FetchTaskType DEF FetchReserves
<1>4. CASE FetchOracle(m)
  <2> DEFINE u == [fetch[m] EXCEPT !.todo = @ \ {"oracle"}, !.data.oracle = TRUE]
             v == [fetch[m] EXCEPT !.todo = @ \ {"oracle"}]
             w == [fetch[m] EXCEPT !.pc = "panicked"]
  <2>1. u \in FetchTask /\ v \in FetchTask /\ w \in FetchTask
    BY FetchParts, TodoUpdate
  <2>2. \/ fetch' = [fetch EXCEPT ![m] = u]
        \/ fetch' = [fetch EXCEPT ![m] = v]
        \/ fetch' = [fetch EXCEPT ![m] = w]
    BY <1>4 DEF FetchOracle, TypeInv, TypeOK, TaskType, FetchTask
  <2> HIDE DEF u, v, w
  <2> QED
    BY <1>4, <1>f, <2>1, <2>2, FetchTaskType DEF FetchOracle
<1>5. CASE GetObligations(m)
  <2> DEFINE scan == [o \in Obligations |-> IF MarketOf[o] = m THEN chainObl[o] ELSE NoObl]
             u == [fetch[m] EXCEPT !.todo = @ \ {"scan"}, !.data.obligations = scan]
             v == [fetch[m] EXCEPT !.todo = @ \ {"scan"}]
  <2>1. scan \in [Obligations -> Obl \cup {NoObl}]
    BY FetchParts
  <2>2. u \in FetchTask /\ v \in FetchTask
    BY <2>1, FetchParts, ScanUpdate, TodoUpdate
  <2>3. fetch' = [fetch EXCEPT ![m] = u] \/ fetch' = [fetch EXCEPT ![m] = v]
    BY <1>5 DEF GetObligations, TypeInv, TypeOK, TaskType, FetchTask
  <2> HIDE DEF u, v
  <2> QED
    BY <1>5, <1>f, <2>2, <2>3, FetchTaskType DEF GetObligations
<1>6. ASSUME NEW o \in Obligations, UpdateObligation(m, o) PROVE TypeInv'
  <2> DEFINE u == [fetch[m] EXCEPT !.unread = @ \ {o}, !.data.obligations[o] = chainObl[o]]
             v == [fetch[m] EXCEPT !.pc = "panicked"]
  <2>1. u \in FetchTask /\ v \in FetchTask
    BY FetchParts, ReadUpdate, TodoUpdate
  <2>2. fetch' = [fetch EXCEPT ![m] = u] \/ fetch' = [fetch EXCEPT ![m] = v]
    <3>1. fetch \in [Markets -> FetchTask]
      BY DEF TypeInv, TypeOK, TaskType
    <3> QED
      BY <1>6, <3>1 DEF UpdateObligation
  <2> HIDE DEF u, v
  <2> QED
    BY <1>6, <1>f, <2>1, <2>2, FetchTaskType DEF UpdateObligation
<1>7. CASE FetchReturn(m)
  <2> DEFINE u == [fetch[m] EXCEPT !.pc = "done"]
  <2>1. u \in FetchTask
    BY FetchParts, TodoUpdate
  <2>2. fetch' = [fetch EXCEPT ![m] = u]
    BY <1>7 DEF FetchReturn, TypeInv, TypeOK, TaskType, FetchTask
  <2> HIDE DEF u
  <2> QED
    BY <1>7, <1>f, <2>1, <2>2, FetchTaskType DEF FetchReturn
<1>8. CASE PersistMarket(m)
  <2>1. capsule' \in [Markets -> Retriever \cup {NoMarket}]
    BY <1>8, FetchParts DEF PersistMarket, TypeInv, TypeOK, Retriever
  <2>2. \A n \in Markets : capsule[n] # NoMarket => capsule'[n] # NoMarket
    <3>1. [inner |-> fetch[m].data, initialized |-> TRUE] # NoMarket
      <4>1. [inner |-> fetch[m].data, initialized |-> TRUE] \in Retriever
        BY FetchParts DEF Retriever
      <4> QED
        BY <4>1, NoneAssumption
    <3> QED
      BY <1>8, <3>1 DEF PersistMarket, TypeInv, TypeOK
  <2> QED
    BY <1>8, <2>1, <2>2, SlotsFrame DEF PersistMarket, TypeInv, TypeOK, ChainType, MainType,
       TaskType, chainVars, mainVars, LoopBounds, CapsuleReady, WritersInPhase
<1>9. CASE MarketReturn(m)
  BY <1>9, SlotsFrame DEF MarketReturn, TypeInv, TypeOK, ChainType, MainType,
     TaskType, chainVars, mainVars, LoopBounds, CapsuleReady, WritersInPhase
<1> QED
  BY <1>1, <1>2, <1>3, <1>4, <1>5, <1>6, <1>7, <1>8, <1>9 DEF FetchStep

(* The parts of what an update task holds. *)
LEMMA UpdateParts ==
    ASSUME TypeInv, NEW o \in Obligations
    PROVE  /\ update \in [Obligations -> UpdateTask]
           /\ update[o] \in UpdateTask
           /\ update[o].amount \in Nat
           /\ update[o].create \subseteq Accounts
           /\ update[o].tx \in TxSlots \cup {NoTask}
           /\ update[o].result \in Obl \cup {NoObl}
           /\ chainObl[o] \in Obl \cup {NoObl}
           /\ SlotOwned(o)
  BY DEF TypeInv, TypeOK, TaskType, ChainType, UpdateTask, SlotsOwned

(* A step that only moves the update task of one obligation, to a state in   *)
(* which it holds no transaction.                                            *)
LEMMA UpdateTaskType ==
    ASSUME TypeInv, NEW o \in Obligations, UpdateUnchanged, UNCHANGED pool,
           ChainType', faults' \in Nat,
           NEW u \in UpdateTask, u.pc # "send", u.tx = NoTask,
           update' = [update EXCEPT ![o] = u]
    PROVE  TypeInv'
<1>1. TaskType'
  BY DEF TypeInv, TypeOK, TaskType, UpdateUnchanged
<1>2. SlotsOwned'
  <2> SUFFICES ASSUME NEW p \in Obligations PROVE SlotOwned(p)'
    BY DEF SlotsOwned
  <2>1. CASE p = o
    BY <2>1, UpdateParts DEF SlotOwned
  <2>2. CASE p # o
    BY <2>2, UpdateParts DEF SlotOwned, TypeInv, SlotsOwned
  <2> QED
    BY <2>1, <2>2
<1> QED
  BY <1>1, <1>2 DEF TypeInv, TypeOK, MainType, LoopBounds, CapsuleReady, WritersInPhase,
     UpdateUnchanged, mainVars

(* Each way an update task proceeds before it signs gives an update task. *)
LEMMA GotoUpdate ==
    ASSUME NEW t \in UpdateTask, NEW q \in UpdateStates
    PROVE  /\ [t EXCEPT !.pc = q] \in UpdateTask
           /\ [t EXCEPT !.pc = q].pc = q
           /\ [t EXCEPT !.pc = q].tx = t.tx
  BY DEF UpdateTask

LEMMA AmountUpdate ==
    ASSUME NEW t \in UpdateTask, NEW q \in UpdateStates, NEW n \in Nat
    PROVE  /\ [t EXCEPT !.pc = q, !.amount = n] \in UpdateTask
           /\ [t EXCEPT !.pc = q, !.amount = n].pc = q
           /\ [t EXCEPT !.pc = q, !.amount = n].tx = t.tx
  BY DEF UpdateTask

LEMMA CreateUpdate ==
    ASSUME NEW t \in UpdateTask, NEW q \in UpdateStates, NEW c \in SUBSET Accounts
    PROVE  /\ [t EXCEPT !.pc = q, !.create = c] \in UpdateTask
           /\ [t EXCEPT !.pc = q, !.create = c].pc = q
           /\ [t EXCEPT !.pc = q, !.create = c].tx = t.tx
  BY DEF UpdateTask

LEMMA ResultUpdate ==
    ASSUME NEW t \in UpdateTask, NEW q \in UpdateStates, NEW x \in Obl \cup {NoObl}
    PROVE  /\ [t EXCEPT !.pc = q, !.result = x] \in UpdateTask
           /\ [t EXCEPT !.pc = q, !.result = x].pc = q
           /\ [t EXCEPT !.pc = q, !.result = x].tx = t.tx
  BY DEF UpdateTask

LEMMA TxUpdate ==
    ASSUME NEW t \in UpdateTask, NEW q \in UpdateStates, NEW s \in TxSlots \cup {NoTask}
    PROVE  /\ [t EXCEPT !.pc = q, !.tx = s] \in UpdateTask
           /\ [t EXCEPT !.pc = q, !.tx = s].pc = q
           /\ [t EXCEPT !.pc = q, !.tx = s].tx = s
  BY DEF UpdateTask

(* A task that goes to another state, and nothing else. *)
LEMMA GotoType ==
    ASSUME TypeInv, NEW o \in Obligations, UpdateUnchanged, UNCHANGED pool,
           ChainType', faults' \in Nat,
           NEW q \in UpdateStates \ {"send"}, Goto(o, q), update[o].pc # "send"
    PROVE  TypeInv'
<1> DEFINE u == [update[o] EXCEPT !.pc = q]
<1>1. u \in UpdateTask /\ u.pc = q /\ u.tx = NoTask
  BY UpdateParts, GotoUpdate DEF SlotOwned
<1>2. update' = [update EXCEPT ![o] = u]
  BY DEF Goto
<1> HIDE DEF u
<1> QED
  BY <1>1, <1>2, UpdateTaskType

(* A transaction received by the cluster keeps its type and its obligation. *)
LEMMA ReceiveType ==
    ASSUME NEW t \in Tx
    PROVE  Receive(t) \in Tx /\ Receive(t).obl = t.obl
  BY DEF Receive, Tx

LEMMA WriteObligationType ==
    ASSUME TypeInv, NEW o \in Obligations, WriteObligation(o) PROVE TypeInv'
<1> DEFINE m == MarketOf[o]
           r == capsule[m]
           w == [r EXCEPT !.inner.obligations[o] = writer[o]]
<1>1. m \in Markets /\ writer[o] \in Obl \cup {NoObl}
  BY MarketsAssumption DEF TypeInv, TypeOK, TaskType
<1>2. capsule' = [capsule EXCEPT ![m] = w]
  BY DEF WriteObligation
<1>3. r \in Retriever
  BY <1>1 DEF WriteObligation, Running, TypeInv, TypeOK, WritersInPhase, CapsuleReady
<1>4. w \in Retriever
  <2>1. r.inner \in MarketData /\ r.inner.obligations \in [Obligations -> Obl \cup {NoObl}]
    BY <1>3 DEF Retriever, MarketData
  <2> QED
    BY <1>1, <1>3, <2>1 DEF Retriever, MarketData
<1>5. w # NoMarket
  BY <1>4, NoneAssumption
<1> HIDE DEF w
<1>6. /\ capsule' \in [Markets -> Retriever \cup {NoMarket}]
      /\ \A n \in Markets : capsule[n] # NoMarket => capsule'[n] # NoMarket
  BY <1>1, <1>2, <1>4, <1>5 DEF TypeInv, TypeOK
<1>7. TaskType' /\ WritersInPhase'
  BY DEF WriteObligation, TypeInv, TypeOK, TaskType, WritersInPhase, mainVars
<1> QED
  BY <1>6, <1>7, SlotsFrame DEF WriteObligation, TypeInv, TypeOK, ChainType, MainType,
     chainVars, mainVars, LoopBounds, CapsuleReady

(* What the refresh and update tasks do keeps every variable in its type. *)
LEMMA UpdateStepType ==
    ASSUME TypeInv, NEW o \in Obligations, UpdateStep(o) \/ RetrySend(o) PROVE TypeInv'
<1>f. faults \in Nat /\ (Fault => faults' \in Nat)
  BY DEF TypeInv, TypeOK, Fault
<1>a. RepayAccount[o] \in Accounts /\ CollateralAccount[o] \in Accounts
      /\ LiquidityAccount[o] \in Accounts
  BY AccountsAssumption
<1>c. UNCHANGED chainVars => ChainType' /\ UNCHANGED pool
  BY DEF TypeInv, TypeOK, ChainType, chainVars
<1>1. CASE RefreshObligation(o)
  BY <1>1, SlotsFrame DEF RefreshObligation, TypeInv, TypeOK, ChainType, MainType,
     TaskType, chainVars, mainVars, LoopBounds, CapsuleReady, WritersInPhase
<1>2. CASE SpawnUpdate(o)
  <2> DEFINE u == [IdleUpdate EXCEPT !.pc = IF refresh[o] = "some" THEN "ata" ELSE "none"]
  <2>1. u \in UpdateTask /\ u.pc # "send" /\ u.tx = NoTask
    BY BlankTypes DEF UpdateTask, IdleUpdate, UpdateStates
  <2>2. update' = [update EXCEPT ![o] = u]
    BY <1>2 DEF SpawnUpdate
  <2> HIDE DEF u
  <2>3. TaskType'
    BY <1>2, <2>1, <2>2 DEF SpawnUpdate, TypeInv, TypeOK, TaskType
  <2>4. SlotsOwned'
    <3> SUFFICES ASSUME NEW p \in Obligations PROVE SlotOwned(p)'
      BY DEF SlotsOwned
    <3>1. CASE p = o
      BY <3>1, <2>1, <2>2, UpdateParts DEF SlotOwned
    <3>2. CASE p # o
      BY <1>2, <3>2, <2>2, UpdateParts DEF SpawnUpdate, SlotOwned, TypeInv, SlotsOwned, chainVars
    <3> QED
      BY <3>1, <3>2
  <2> QED
    BY <1>2, <2>3, <2>4 DEF SpawnUpdate, TypeInv, TypeOK, ChainType, MainType, chainVars,
       mainVars, LoopBounds, CapsuleReady, WritersInPhase
<1>3. CASE GetAccount(o)
  <2>1. \E q \in {"wallet", "create"} : Goto(o, q)
    BY <1>3 DEF GetAccount
  <2> QED
    BY <1>3, <1>c, <1>f, <2>1, GotoType DEF GetAccount, Updating, UpdateStates
<1>4. CASE CreateAccount(o)
  <2>1. \E q \in {"wallet", "panicked"} : Goto(o, q)
    BY <1>4 DEF CreateAccount
  <2>2. ChainType'
    BY <1>4, <1>a DEF CreateAccount, TypeInv, TypeOK, ChainType
  <2> QED
    BY <1>4, <1>f, <2>1, <2>2, GotoType DEF CreateAccount, Updating, UpdateStates
<1>5. CASE ReadWallet(o)
  <2>1. CASE Goto(o, "panicked")
    BY <1>5, <1>c, <1>f, <2>1, GotoType DEF ReadWallet, Updating, UpdateStates
  <2>2. CASE ~Goto(o, "panicked")
    <3> DEFINE balance == wallet[RepayAccount[o]]
               q == AfterWallet(balance)
               u == [update[o] EXCEPT !.pc = q, !.amount = balance]
    <3>1. balance \in Nat /\ q \in UpdateStates \ {"send"}
      BY <1>a DEF TypeInv, TypeOK, ChainType, UpdateStates, AfterWallet
    <3>2. update[o].tx = NoTask
      BY <1>5, UpdateParts DEF ReadWallet, Updating, SlotOwned
    <3>3. u \in UpdateTask /\ u.pc # "send" /\ u.tx = NoTask
      <4>1. update[o] \in UpdateTask
        BY UpdateParts
      <4> HIDE DEF q, balance
      <4>2. u \in UpdateTask /\ u.pc = q /\ u.tx = update[o].tx
        BY <3>1, <4>1 DEF UpdateTask
      <4> QED
        BY <3>1, <3>2, <4>2
    <3>4. update' = [update EXCEPT ![o] = u]
      BY <1>5, <2>2, UpdateParts DEF ReadWallet
    <3> HIDE DEF u
    <3> QED
      BY <1>5, <1>c, <1>f, <3>3, <3>4, UpdateTaskType DEF ReadWallet
  <2> QED
    BY <2>1, <2>2
<1>6. ASSUME NEW state \in {"collateral", "liquidity"}, NEW account \in Accounts,
             NEW next \in {"liquidity", "sign"}, Substitute(o, state, account, next)
      PROVE  TypeInv'
  <2>1. PICK c \in {{account}, {account} \ accounts} :
          update' = [update EXCEPT ![o].pc = next, ![o].create = @ \cup c]
    BY <1>6 DEF Substitute
  <2> DEFINE d == update[o].create \cup c
             u == [update[o] EXCEPT !.pc = next, !.create = d]
  <2>2. d \in SUBSET Accounts /\ update[o] \in UpdateTask /\ next \in UpdateStates \ {"send"}
    BY UpdateParts DEF UpdateStates
  <2>3. update[o].tx = NoTask
    BY <1>6, UpdateParts DEF Substitute, Updating, SlotOwned
  <2>4. u \in UpdateTask /\ u.pc # "send" /\ u.tx = NoTask
    <3> HIDE DEF d
    <3>1. u \in UpdateTask /\ u.pc = next /\ u.tx = update[o].tx
      BY <2>2 DEF UpdateTask
    <3> QED
      BY <2>2, <2>3, <3>1
  <2>5. update' = [update EXCEPT ![o] = u]
    BY <2>1, UpdateParts
  <2> HIDE DEF u
  <2> QED
    BY <1>6, <1>c, <1>f, <2>4, <2>5, UpdateTaskType DEF Substitute
<1>7. CASE SubstituteCollateral(o) \/ SubstituteLiquidity(o)
  BY <1>6, <1>7, <1>a DEF SubstituteCollateral, SubstituteLiquidity
<1>8. CASE SignTransaction(o)
  <2>1. CASE Goto(o, "panicked") /\ UNCHANGED pool
    <3>1. ChainType'
      BY <1>8, <2>1 DEF SignTransaction, TypeInv, TypeOK, ChainType
    <3> QED
      BY <1>8, <1>f, <2>1, <3>1, GotoType DEF SignTransaction, Updating, UpdateStates
  <2>2. ASSUME NEW s \in TxSlots, pool[s] = NoTx, UNCHANGED faults,
               pool' = [pool EXCEPT ![s] = [st |-> "signed", obl |-> o,
                                            amount |-> update[o].amount,
                                            create |-> update[o].create,
                                            current |-> TRUE]],
               update' = [update EXCEPT ![o].pc = "send", ![o].tx = s]
        PROVE  TypeInv'
    <3> DEFINE t == [st |-> "signed", obl |-> o, amount |-> update[o].amount,
                     create |-> update[o].create, current |-> TRUE]
               u == [update[o] EXCEPT !.pc = "send", !.tx = s]
    <3>1. t \in Tx /\ t # NoTx /\ t.obl = o
      <4>1. update[o].amount \in Nat /\ update[o].create \subseteq Accounts
        BY UpdateParts
      <4>2. t \in Tx
        BY <4>1 DEF Tx
      <4> QED
        BY <4>2, NoTxAssumption
    <3>2. u \in UpdateTask /\ u.pc = "send" /\ u.tx = s
      <4>1. update[o] \in UpdateTask /\ "send" \in UpdateStates
        BY UpdateParts DEF UpdateStates
      <4> QED
        BY <4>1 DEF UpdateTask
    <3>3. pool' = [pool EXCEPT ![s] = t] /\ update' = [update EXCEPT ![o] = u]
      BY <2>2, UpdateParts
    <3> HIDE DEF t, u
    <3>4. ChainType'
      BY <1>8, <3>1, <3>3 DEF SignTransaction, TypeInv, TypeOK, ChainType
    <3>5. TaskType'
      BY <1>8, <3>2, <3>3 DEF SignTransaction, UpdateUnchanged, TypeInv, TypeOK, TaskType
    <3>6. SlotsOwned'
      <4> SUFFICES ASSUME NEW p \in Obligations PROVE SlotOwned(p)'
        BY DEF SlotsOwned
      <4>1. CASE p = o
        <5>1. update'[p] = u /\ pool'[s] = t
          BY <4>1, <3>3, <2>2, UpdateParts DEF TypeInv, TypeOK, ChainType
        <5> QED
          BY <4>1, <5>1, <3>1, <3>2, NoneAssumption DEF SlotOwned
      <4>2. CASE p # o
        <5>1. update'[p] = update[p] /\ SlotOwned(p) /\ update[p].tx # s
          BY <4>2, <3>3, <2>2, UpdateParts, NoneAssumption DEF SlotOwned
        <5>2. update[p].tx # NoTask => pool'[update[p].tx] = pool[update[p].tx]
          BY <5>1, <3>3, UpdateParts DEF TypeInv, TypeOK, ChainType
        <5> QED
          BY <5>1, <5>2 DEF SlotOwned
      <4> QED
        BY <4>1, <4>2
    <3> QED
      BY <1>8, <2>2, <1>f, <3>4, <3>5, <3>6 DEF SignTransaction, UpdateUnchanged, TypeInv,
         TypeOK, MainType, mainVars, LoopBounds, CapsuleReady, WritersInPhase
  <2> QED
    BY <1>8, <2>1, <2>2 DEF SignTransaction
<1>9. ASSUME NEW s, s = update[o].tx, Updating(o, "send"), UpdateUnchanged,
             NEW x \in Tx \cup {NoTx}, pool' = [pool EXCEPT ![s] = x],
             UNCHANGED <<oracle, reserve, chainObl, accounts, creating, wallet, events>>,
             faults' \in Nat,
             \/ x # NoTx /\ x.obl = o /\ UNCHANGED update
             \/ update' = [update EXCEPT ![o].pc = "reread", ![o].tx = NoTask]
      PROVE  TypeInv'
  <2>1. s \in TxSlots /\ SlotOwned(o) /\ update[o] \in UpdateTask
    BY <1>9, UpdateParts DEF Updating, SlotOwned
  <2>2. pool' \in [TxSlots -> Tx \cup {NoTx}] /\ pool'[s] = x
        /\ \A t \in TxSlots \ {s} : pool'[t] = pool[t]
    BY <1>9, <2>1 DEF TypeInv, TypeOK, ChainType
  <2>3. ChainType'
    BY <1>9, <2>2 DEF TypeInv, TypeOK, ChainType
  <2> DEFINE u == [update[o] EXCEPT !.pc = "reread", !.tx = NoTask]
  <2>4. u \in UpdateTask /\ u.pc = "reread" /\ u.tx = NoTask
    BY <2>1 DEF UpdateTask, UpdateStates
  <2>5. \/ x # NoTx /\ x.obl = o /\ UNCHANGED update
        \/ update' = [update EXCEPT ![o] = u]
    BY <1>9, UpdateParts
  <2> HIDE DEF u
  <2>6. TaskType'
    BY <1>9, <2>4, <2>5 DEF UpdateUnchanged, TypeInv, TypeOK, TaskType
  <2>7. SlotsOwned'
    <3> SUFFICES ASSUME NEW p \in Obligations PROVE SlotOwned(p)'
      BY DEF SlotsOwned
    <3>1. CASE p = o
      BY <1>9, <2>1, <2>2, <2>4, <2>5, <3>1, UpdateParts DEF SlotOwned
    <3>2. CASE p # o
      <4>1. update'[p] = update[p] /\ SlotOwned(p)
        BY <2>5, <3>2, UpdateParts
      <4>2. update[p].tx # s
        BY <1>9, <2>1, <3>2, <4>1, NoneAssumption DEF SlotOwned, Updating
      <4>3. update[p].tx # NoTask => pool'[update[p].tx] = pool[update[p].tx]
        BY <2>2, <4>2, UpdateParts
      <4> QED
        BY <4>1, <4>3 DEF SlotOwned
    <3> QED
      BY <3>1, <3>2
  <2> QED
    BY <1>9, <2>3, <2>6, <2>7 DEF UpdateUnchanged, TypeInv,
       TypeOK, MainType, mainVars, LoopBounds, CapsuleReady, WritersInPhase
<1>10. ASSUME Updating(o, "send")
       PROVE  /\ update[o].tx \in TxSlots /\ pool[update[o].tx] \in Tx
              /\ pool[update[o].tx].obl = o
  BY <1>10, UpdateParts DEF Updating, SlotOwned, TypeInv, TypeOK, ChainType
<1>11. CASE SendTransaction(o)
  <2> DEFINE s == update[o].tx
             x == IF pool[s].st = "settled" THEN NoTx ELSE Receive(pool[s])
  <2>1. s \in TxSlots /\ pool[s] \in Tx
    BY <1>10, <1>11 DEF SendTransaction
  <2>2. x \in Tx \cup {NoTx}
    BY <2>1, ReceiveType
  <2>3. pool' = [pool EXCEPT ![s] = x]
    BY <1>11 DEF SendTransaction
  <2> HIDE DEF x
  <2> QED
    BY <1>9, <1>11, <1>f, <2>2, <2>3 DEF SendTransaction
<1>12. CASE RetrySend(o)
  <2> DEFINE s == update[o].tx
             x == Receive(pool[s])
  <2>1. s \in TxSlots /\ pool[s] \in Tx /\ pool[s].obl = o
    BY <1>10, <1>12 DEF RetrySend
  <2>2. x \in Tx /\ x # NoTx /\ x.obl = o
    BY <2>1, ReceiveType, NoTxAssumption
  <2>3. pool' = [pool EXCEPT ![s] = x]
    BY <1>12 DEF RetrySend
  <2> HIDE DEF x
  <2> QED
    BY <1>9, <1>12, <1>f, <2>2, <2>3 DEF RetrySend
<1>13. CASE GetObligation(o)
  <2>1. CASE Goto(o, "panicked")
    BY <1>13, <1>c, <1>f, <2>1, GotoType DEF GetObligation, Updating, UpdateStates
  <2>2. CASE ~Goto(o, "panicked")
    <3> DEFINE u == [update[o] EXCEPT !.pc = "some", !.result = chainObl[o]]
    <3>1. update[o] \in UpdateTask /\ chainObl[o] \in Obl \cup {NoObl} /\ update[o].tx = NoTask
      BY <1>13, UpdateParts DEF GetObligation, Updating, SlotOwned
    <3>2. u \in UpdateTask /\ u.pc = "some" /\ u.tx = NoTask
      BY <3>1 DEF UpdateTask, UpdateStates
    <3>3. update' = [update EXCEPT ![o] = u] /\ UNCHANGED faults
      BY <1>13, <2>2, UpdateParts DEF GetObligation
    <3> HIDE DEF u
    <3> QED
      BY <1>13, <1>c, <1>f, <3>2, <3>3, UpdateTaskType DEF GetObligation
  <2> QED
    BY <2>1, <2>2
<1> QED
  BY <1>1, <1>2, <1>3, <1>4, <1>5, <1>7, <1>8, <1>11, <1>12, <1>13, WriteObligationType
  DEF UpdateStep

(* A step of the chain that leaves the bot alone and keeps the slots owned. *)
LEMMA ChainFrame ==
    ASSUME TypeInv, BotUnchanged, ChainType', SlotsOwned' PROVE TypeInv'
  BY DEF TypeInv, TypeOK, BotUnchanged, MainType, TaskType, LoopBounds, CapsuleReady,
     WritersInPhase, mainVars, taskVars

(* Settling a transaction keeps the pool's type and every slot owned: the    *)
(* task that still resends it finds it in its slot.                          *)
LEMMA SettleType ==
    ASSUME TypeInv, NEW s \in TxSlots, pool[s] # NoTx, Settle(s), UNCHANGED update
    PROVE  pool' \in [TxSlots -> Tx \cup {NoTx}] /\ SlotsOwned'
<1> DEFINE t == [pool[s] EXCEPT !.st = "settled"]
           held == \E o \in Obligations : update[o].tx = s
           x == IF held THEN t ELSE NoTx
<1>1. pool \in [TxSlots -> Tx \cup {NoTx}] /\ pool[s] \in Tx
  BY DEF TypeInv, TypeOK, ChainType
<1>2. t \in Tx /\ t.obl = pool[s].obl
  BY <1>1 DEF Tx
<1>3. t # NoTx
  BY <1>2, NoTxAssumption
<1>4. pool' = [pool EXCEPT ![s] = x]
  BY DEF Settle
<1> HIDE DEF t
<1>5. /\ pool' \in [TxSlots -> Tx \cup {NoTx}]
      /\ held => pool'[s] = t
      /\ \A r \in TxSlots \ {s} : pool'[r] = pool[r]
  BY <1>1, <1>2, <1>4
<1>6. SlotsOwned'
  <2> SUFFICES ASSUME NEW p \in Obligations PROVE SlotOwned(p)'
    BY DEF SlotsOwned
  <2>1. update'[p] = update[p] /\ SlotOwned(p) /\ update[p].tx \in TxSlots \cup {NoTask}
    BY UpdateParts
  <2>2. CASE update[p].tx = s
    <3>1. pool'[s] = t
      BY <1>5, <2>2
    <3> QED
      BY <1>2, <1>3, <2>1, <2>2, <3>1 DEF SlotOwned
  <2>3. CASE update[p].tx # s
    BY <1>5, <2>1, <2>3 DEF SlotOwned
  <2> QED
    BY <2>2, <2>3
<1> QED
  BY <1>5, <1>6

(* What happens on the chain keeps every variable in its type. *)
LEMMA ChainStepType ==
    ASSUME TypeInv, ChainStep PROVE TypeInv'
<1>t. ChainType
  BY DEF TypeInv, TypeOK
<1>b. BotUnchanged => UNCHANGED update
  BY DEF BotUnchanged, taskVars
<1>s. BotUnchanged /\ UNCHANGED pool => SlotsOwned'
  BY <1>b, SlotsFrame DEF TypeInv
<1>r. ASSUME NEW m \in Markets PROVE [reserve EXCEPT ![m] = Refreshed(m)] \in [Markets -> Rsv]
  <2>1. Refreshed(m) \in Rsv
    BY <1>t DEF Refreshed, ChainType, Rsv
  <2> QED
    BY <1>t, <2>1 DEF ChainType
<1>1. ASSUME NEW m \in Markets, MovePrice(m) PROVE TypeInv'
  <2>1. ChainType'
    BY <1>1, <1>t, NumbersAssumption DEF MovePrice, ChainType, Event
  <2> QED
    BY <1>1, <1>s, <2>1, ChainFrame DEF MovePrice
<1>2. ASSUME NEW m \in Markets, RefreshReserve(m) PROVE TypeInv'
  <2>1. ChainType'
    BY <1>2, <1>t, <1>r DEF RefreshReserve, ChainType
  <2> QED
    BY <1>2, <1>s, <2>1, ChainFrame DEF RefreshReserve
<1>3. ASSUME NEW o \in Obligations, ChangeObligation(o) PROVE TypeInv'
  <2>1. PICK d \in Debts :
          chainObl' = [chainObl EXCEPT ![o] = [debt |-> d, version |-> VersionOf(chainObl[o]) + 1]]
    BY <1>3 DEF ChangeObligation
  <2>2. [debt |-> d, version |-> VersionOf(chainObl[o]) + 1] \in Obl
    BY <1>t, VersionOfType, NumbersAssumption DEF ChainType, Obl
  <2>3. chainObl' \in [Obligations -> Obl \cup {NoObl}]
    BY <1>t, <2>1, <2>2 DEF ChainType
  <2>4. ChainType'
    BY <1>3, <1>t, <2>3 DEF ChangeObligation, ChainType, Event
  <2> QED
    BY <1>3, <1>s, <2>4, ChainFrame DEF ChangeObligation
<1>4. ASSUME NEW a \in Accounts, AccountCreated(a) PROVE TypeInv'
  <2>1. ChainType'
    BY <1>4, <1>t DEF AccountCreated, ChainType
  <2> QED
    BY <1>4, <1>s, <2>1, ChainFrame DEF AccountCreated
<1>5. ASSUME NEW s \in TxSlots, Land(s) PROVE TypeInv'
  <2> DEFINE o == pool[s].obl
             pay == RepayAccount[o]
             got == LiquidityAccount[o]
  <2>1. pool[s] \in Tx /\ pool[s] # NoTx
    BY <1>5, <1>t DEF Land, ChainType
  <2>2. o \in Obligations /\ pool[s].create \subseteq Accounts
    BY <2>1 DEF Tx
  <2>3. pay \in Accounts /\ got \in Accounts /\ MarketOf[o] \in Markets
    BY <2>2, AccountsAssumption, MarketsAssumption
  <2>4. chainObl[o] \in Obl
    BY <1>5, <1>t, <2>2 DEF Land, Liquidatable, ChainType
  <2>5. PICK repaid \in 1..chainObl[o].debt, gain \in Gains :
          /\ repaid <= wallet[pay]
          /\ chainObl' = [chainObl EXCEPT ![o] = [debt |-> chainObl[o].debt - repaid,
                                                  version |-> chainObl[o].version + 1]]
          /\ wallet' = [[wallet EXCEPT ![pay] = @ - repaid] EXCEPT ![got] = @ + gain]
    BY <1>5 DEF Land, Repayable
  <2>6. chainObl' \in [Obligations -> Obl \cup {NoObl}]
    <3>1. [debt |-> chainObl[o].debt - repaid, version |-> chainObl[o].version + 1] \in Obl
      BY <2>4 DEF Obl
    <3> QED
      BY <1>t, <2>2, <2>5, <3>1 DEF ChainType
  <2>7. wallet' \in [Accounts -> Nat]
    <3> DEFINE w == [wallet EXCEPT ![pay] = @ - repaid]
    <3>0. chainObl[o].debt \in Nat
      BY <2>4 DEF Obl
    <3>1. wallet[pay] - repaid \in Nat
      BY <1>t, <2>3, <2>5, <3>0 DEF ChainType
    <3>2. w \in [Accounts -> Nat]
      BY <1>t, <2>3, <3>1 DEF ChainType
    <3>3. gain \in Nat
      BY NumbersAssumption
    <3>4. wallet' = [w EXCEPT ![got] = @ + gain]
      BY <2>5
    <3> HIDE DEF w
    <3> QED
      BY <2>3, <3>2, <3>3, <3>4
  <2>8. reserve' \in [Markets -> Rsv]
    BY <1>5, <1>r, <2>3 DEF Land
  <2>9. pool' \in [TxSlots -> Tx \cup {NoTx}] /\ SlotsOwned'
    BY <1>5, <1>b, <2>1, SettleType DEF Land
  <2>10. ChainType'
    BY <1>5, <1>t, <2>2, <2>6, <2>7, <2>8, <2>9 DEF Land, ChainType
  <2> QED
    BY <1>5, <2>9, <2>10, ChainFrame DEF Land
<1>6. ASSUME NEW s \in TxSlots, Drop(s) PROVE TypeInv'
  <2>1. pool' \in [TxSlots -> Tx \cup {NoTx}] /\ SlotsOwned'
    BY <1>6, <1>b, SettleType DEF Drop
  <2>2. ChainType'
    BY <1>6, <1>t, <2>1 DEF Drop, ChainType
  <2> QED
    BY <1>6, <2>1, <2>2, ChainFrame DEF Drop
<1> QED
  BY <1>1, <1>2, <1>3, <1>4, <1>5, <1>6 DEF ChainStep

LEMMA TypeInvStutter ==
    ASSUME TypeInv, UNCHANGED vars PROVE TypeInv'
  BY SlotsFrame DEF TypeInv, TypeOK, ChainType, MainType, TaskType, LoopBounds,
     CapsuleReady, WritersInPhase, vars, chainVars, mainVars, taskVars

LEMMA TypeInvInvariant == Spec => []TypeInv
<1>1. TypeInv /\ [Next]_vars => TypeInv'
  BY MainStepType, FetchStepType, UpdateStepType, ChainStepType, TypeInvStutter
  DEF Next, BotStep, Stopped
<1> QED
  BY <1>1, InitTypeInv, PTL DEF Spec

(* Every variable keeps its type whatever the markets, the obligations, the  *)
(* accounts, the prices and the number of faults and events: no wallet is    *)
(* overdrawn by the transactions that spend the same balance, and no step of *)
(* a task reads a slot, a retriever or an index that is not there.           *)
THEOREM TypeCorrect == Spec => []TypeOK
<1>1. TypeInv => TypeOK
  BY DEF TypeInv
<1> QED
  BY <1>1, TypeInvInvariant, PTL
-----------------------------------------------------------------------------
(* Layer 2: which tasks there are in each phase of an iteration. *)

(* The steps of an update task that is at work on a liquidation. *)
LiquidationStep(o) ==
    \/ GetAccount(o) \/ CreateAccount(o) \/ ReadWallet(o) \/ SubstituteCollateral(o)
    \/ SubstituteLiquidity(o) \/ SignTransaction(o) \/ SendTransaction(o)
    \/ RetrySend(o) \/ GetObligation(o)

(* Such a step moves the one task, which stays a task. *)
LEMMA LiquidationMoves ==
    ASSUME TypeInv, NEW o \in Obligations, LiquidationStep(o)
    PROVE  /\ UpdateUnchanged
           /\ update[o].pc # "idle" /\ update'[o].pc # "idle"
           /\ \A p \in Obligations \ {o} : update'[p] = update[p]
<1>1. update \in [Obligations -> UpdateTask] /\ update[o] \in UpdateTask
  BY UpdateParts
<1>2. UpdateUnchanged /\ update[o].pc # "idle"
  BY DEF LiquidationStep, GetAccount, CreateAccount, ReadWallet, SubstituteCollateral,
     SubstituteLiquidity, Substitute, SignTransaction, SendTransaction, RetrySend,
     GetObligation, Updating
<1> DEFINE moved == update'[o].pc # "idle" /\ \A p \in Obligations \ {o} : update'[p] = update[p]
<1>3. ASSUME NEW u \in UpdateTask, u.pc # "idle", update' = [update EXCEPT ![o] = u]
      PROVE  moved
  BY <1>1, <1>3
<1>h. UNCHANGED update => moved
  BY <1>2
<1> SUFFICES moved
  BY <1>2
<1> HIDE DEF moved
<1>g. ASSUME NEW q \in UpdateStates \ {"idle"}, Goto(o, q)
      PROVE  moved
  <2> DEFINE u == [update[o] EXCEPT !.pc = q]
  <2>1. u \in UpdateTask /\ u.pc # "idle"
    BY <1>1, GotoUpdate
  <2>2. update' = [update EXCEPT ![o] = u]
    BY <1>g DEF Goto
  <2> HIDE DEF u
  <2> QED
    BY <1>3, <2>1, <2>2
<1>p. Goto(o, "panicked") => moved
  BY <1>g DEF UpdateStates
<1>4. CASE GetAccount(o)
  <2>1. \E q \in {"wallet", "create"} : Goto(o, q)
    BY <1>4 DEF GetAccount
  <2> QED
    BY <1>g, <2>1 DEF UpdateStates
<1>5. CASE CreateAccount(o)
  <2>1. \E q \in {"wallet", "panicked"} : Goto(o, q)
    BY <1>5 DEF CreateAccount
  <2> QED
    BY <1>g, <2>1 DEF UpdateStates
<1>6. CASE ReadWallet(o)
  <2> DEFINE balance == wallet[RepayAccount[o]]
             q == AfterWallet(balance)
             u == [update[o] EXCEPT !.pc = q, !.amount = balance]
  <2>1. balance \in Nat /\ q \in UpdateStates \ {"idle"}
    BY AccountsAssumption DEF TypeInv, TypeOK, ChainType, UpdateStates, AfterWallet
  <2>2. u \in UpdateTask /\ u.pc # "idle"
    <3> HIDE DEF q, balance
    <3>1. u \in UpdateTask /\ u.pc = q
      BY <1>1, <2>1 DEF UpdateTask
    <3> QED
      BY <2>1, <3>1
  <2>3. update' = [update EXCEPT ![o] = u] \/ Goto(o, "panicked")
    BY <1>1, <1>6 DEF ReadWallet
  <2> HIDE DEF u
  <2> QED
    BY <1>3, <1>p, <2>2, <2>3
<1>7. ASSUME NEW state, NEW account \in Accounts, NEW next \in {"liquidity", "sign"},
             Substitute(o, state, account, next)
      PROVE  moved
  <2>1. PICK c \in {{account}, {account} \ accounts} :
          update' = [update EXCEPT ![o].pc = next, ![o].create = @ \cup c]
    BY <1>7 DEF Substitute
  <2> DEFINE d == update[o].create \cup c
             u == [update[o] EXCEPT !.pc = next, !.create = d]
  <2>2. d \in SUBSET Accounts /\ next \in UpdateStates \ {"idle"}
    BY UpdateParts DEF UpdateStates
  <2>3. u \in UpdateTask /\ u.pc # "idle"
    <3> HIDE DEF d
    <3>1. u \in UpdateTask /\ u.pc = next
      BY <1>1, <2>2 DEF UpdateTask
    <3> QED
      BY <2>2, <3>1
  <2>4. update' = [update EXCEPT ![o] = u]
    BY <1>1, <2>1
  <2> HIDE DEF u
  <2> QED
    BY <1>3, <2>3, <2>4
<1>8. CASE SubstituteCollateral(o) \/ SubstituteLiquidity(o)
  BY <1>7, <1>8, AccountsAssumption DEF SubstituteCollateral, SubstituteLiquidity
<1>9. ASSUME NEW q \in {"send", "reread"}, NEW s \in TxSlots \cup {NoTask},
             update' = [update EXCEPT ![o].pc = q, ![o].tx = s]
      PROVE  moved
  <2> DEFINE u == [update[o] EXCEPT !.pc = q, !.tx = s]
  <2>1. u \in UpdateTask /\ u.pc # "idle"
    BY <1>1 DEF UpdateTask, UpdateStates
  <2>2. update' = [update EXCEPT ![o] = u]
    BY <1>1, <1>9
  <2> HIDE DEF u
  <2> QED
    BY <1>3, <2>1, <2>2
<1>10. CASE SignTransaction(o)
  BY <1>9, <1>p, <1>10 DEF SignTransaction
<1>11. CASE SendTransaction(o)
  BY <1>9, <1>11 DEF SendTransaction
<1>12. CASE RetrySend(o)
  BY <1>h, <1>12 DEF RetrySend
<1>13. CASE GetObligation(o)
  <2> DEFINE u == [update[o] EXCEPT !.pc = "some", !.result = chainObl[o]]
  <2>1. chainObl[o] \in Obl \cup {NoObl}
    BY UpdateParts
  <2>2. u \in UpdateTask /\ u.pc # "idle"
    BY <1>1, <2>1 DEF UpdateTask, UpdateStates
  <2>3. update' = [update EXCEPT ![o] = u] \/ Goto(o, "panicked")
    BY <1>1, <1>13 DEF GetObligation
  <2> HIDE DEF u
  <2> QED
    BY <1>3, <1>p, <2>2, <2>3
<1> QED
  BY <1>4, <1>5, <1>6, <1>8, <1>10, <1>11, <1>12, <1>13 DEF LiquidationStep

(* Frames: what each part of PhaseInv is about. *)
LEMMA ObligationTasksFrame ==
    ASSUME ObligationTasks, UNCHANGED <<refresh, market, writer>>,
           \A o \in Obligations : update[o].pc # "idle" <=> update'[o].pc # "idle"
    PROVE  ObligationTasks'
  BY DEF ObligationTasks

LEMMA MarketTasksFrame ==
    ASSUME MarketTasks, UNCHANGED market, phase' = "dead" \/ UNCHANGED <<phase, at>>
    PROVE  MarketTasks'
  BY DEF MarketTasks, Listed

LEMMA FetchTasksFrame ==
    ASSUME FetchTasks, UNCHANGED persist, phase' = "dead" \/ UNCHANGED <<phase, at>>,
           \A m \in Markets : fetch'[m].pc = fetch[m].pc,
           at \in 1..(Len(MarketList) + 1)
    PROVE  FetchTasks'
<1>1. CASE phase' = "dead"
  BY <1>1 DEF FetchTasks
<1>2. CASE UNCHANGED <<phase, at>>
  <2>1. Listed(1, at - 1) \subseteq Markets
    BY ListedMarkets DEF Listed
  <2>2. Listed(1, at - 1)' = Listed(1, at - 1)
    BY <1>2 DEF Listed
  <2> QED
    BY <1>2, <2>1, <2>2 DEF FetchTasks
<1> QED
  BY <1>1, <1>2

LEMMA KeysLocalFrame ==
    ASSUME KeysLocal, UNCHANGED <<capsule, fetch>> PROVE KeysLocal'
  BY DEF KeysLocal, Keys, ObligationsOf

LEMMA InitPhaseInv == Init => PhaseInv
<1> SUFFICES ASSUME Init PROVE PhaseInv
  OBVIOUS
<1>1. ObligationTasks /\ MarketTasks /\ FetchTasks
  BY DEF Init, ObligationTasks, MarketTasks, FetchTasks, IdleUpdate, IdleFetch
<1>2. KeysLocal
  BY DEF Init, KeysLocal, Keys, IdleFetch, EmptyData
<1> QED
  BY <1>1, <1>2 DEF PhaseInv

(* How the main task's loops go through the list. *)
LEMMA ListedFacts ==
    /\ Listed(1, 0) = {}
    /\ Listed(1, Len(MarketList)) = Markets
    /\ \A i \in 1..Len(MarketList) :
         /\ Listed(1, i) = Listed(1, i - 1) \cup {MarketList[i]}
         /\ Listed(i, Len(MarketList)) = Listed(i + 1, Len(MarketList)) \cup {MarketList[i]}
         /\ MarketList[i] \notin Listed(1, i - 1)
         /\ MarketList[i] \notin Listed(i + 1, Len(MarketList))
    /\ Listed(Len(MarketList) + 1, Len(MarketList)) = {}
    /\ \A i \in 1..(Len(MarketList) + 1) : Listed(1, i - 1) \subseteq Markets
<1> DEFINE n == Len(MarketList)
<1>1. n \in Nat /\ DOMAIN MarketList = 1..n /\ Markets = {MarketList[i] : i \in 1..n}
  BY MarketsAssumption DEF Markets, Range
<1>2. \A i, j \in 1..n : MarketList[i] = MarketList[j] => i = j
  BY <1>1, MarketsAssumption
<1> HIDE DEF n
<1>3. ASSUME NEW i \in 1..n
      PROVE  /\ Listed(1, i) = Listed(1, i - 1) \cup {MarketList[i]}
             /\ MarketList[i] \notin Listed(1, i - 1)
  <2>1. 1..i = (1..(i - 1)) \cup {i} /\ 1..(i - 1) \subseteq 1..n /\ i \notin 1..(i - 1)
    BY <1>1
  <2> QED
    BY <1>2, <2>1 DEF Listed
<1>4. ASSUME NEW i \in 1..n
      PROVE  /\ Listed(i, n) = Listed(i + 1, n) \cup {MarketList[i]}
             /\ MarketList[i] \notin Listed(i + 1, n)
  <2>1. i..n = ((i + 1)..n) \cup {i} /\ (i + 1)..n \subseteq 1..n /\ i \notin (i + 1)..n
    BY <1>1
  <2> QED
    BY <1>2, <2>1 DEF Listed
<1>5. ASSUME NEW i \in 1..(n + 1) PROVE Listed(1, i - 1) \subseteq Markets
  <2>1. 1..(i - 1) \subseteq 1..n
    BY <1>1
  <2> QED
    BY <1>1, <2>1 DEF Listed
<1>6. Listed(1, 0) = {} /\ Listed(n + 1, n) = {} /\ Listed(1, n) = Markets
  <2>1. 1..0 = {} /\ (n + 1)..n = {}
    BY <1>1
  <2> QED
    BY <1>1, <2>1 DEF Listed
<1> QED
  BY <1>3, <1>4, <1>5, <1>6 DEF n

(* What the main task does. *)
LEMMA MainStepPhase ==
    ASSUME TypeInv, PhaseInv, MainStep \/ ConfigFails PROVE PhaseInv'
<1> DEFINE n == Len(MarketList)
           m == MarketList[at]
<1>t. /\ n \in Nat /\ at \in 1..(n + 1)
      /\ update \in [Obligations -> UpdateTask] /\ writer \in [Obligations -> Obl \cup {NoObl}]
      /\ market \in [Markets -> {"idle", "running", "done"}]
      /\ at \in 1..n => m \in Markets
  BY ListedMarkets DEF TypeInv, TypeOK, MainType, TaskType
<1>n. n >= 1
  BY MarketsAssumption, <1>t
<1>1. CASE LoadConfig \/ ConfigFails
  <2>1. UNCHANGED <<refresh, market, writer, update, fetch, persist, capsule>>
        /\ phase = "config" /\ phase' \in {"boot", "dead"} /\ UNCHANGED at
    BY <1>1 DEF LoadConfig, ConfigFails, taskVars
  <2>2. ObligationTasks'
    BY <2>1, ObligationTasksFrame DEF PhaseInv
  <2>3. KeysLocal'
    BY <2>1, KeysLocalFrame DEF PhaseInv
  <2>4. MarketTasks'
    BY <2>1 DEF PhaseInv, MarketTasks
  <2>5. FetchTasks'
    BY <2>1 DEF PhaseInv, FetchTasks
  <2> QED
    BY <2>2, <2>3, <2>4, <2>5 DEF PhaseInv
<1>2. ASSUME BeginIteration, phase \in {"boot", "drain"} PROVE PhaseInv'
  <2>1. ObligationTasks'
    BY <1>2, ObligationTasksFrame DEF BeginIteration, PhaseInv
  <2>2. MarketTasks'
    BY <1>2 DEF BeginIteration, PhaseInv, MarketTasks
  <2>3. FetchTasks'
    BY <1>2, ListedFacts DEF BeginIteration, PhaseInv, FetchTasks, IdleFetch
  <2>4. KeysLocal'
    BY <1>2 DEF BeginIteration, PhaseInv, KeysLocal, Keys, ObligationsOf, IdleFetch, EmptyData
  <2> QED
    BY <2>1, <2>2, <2>3, <2>4 DEF PhaseInv
<1>3. CASE AwaitFetch
  <2>1. ObligationTasks' /\ KeysLocal'
    BY <1>3, ObligationTasksFrame, KeysLocalFrame DEF AwaitFetch, PhaseInv
  <2>2. MarketTasks'
    BY <1>3 DEF AwaitFetch, PhaseInv, MarketTasks
  <2>3. FetchTasks'
    <3>1. at \in 1..n /\ UNCHANGED fetch /\ Listed(1, at) = Listed(1, at - 1) \cup {m}
      BY <1>3, <1>t, ListedFacts DEF AwaitFetch
    <3>2. CASE phase' = "dead"
      BY <1>3, <3>2, <3>1 DEF AwaitFetch, PhaseInv, FetchTasks
    <3>3. CASE phase' # "dead"
      <4>1. /\ fetch[m].pc = "done" /\ persist' = persist \cup {m}
            /\ at' = at + 1 /\ phase' = "fetch" /\ phase = "fetch"
        BY <1>3, <3>3 DEF AwaitFetch
      <4>2. at' - 1 = at
        BY <4>1, <1>t
      <4>3. Listed(1, at' - 1) = Listed(1, at - 1) \cup {m}
        BY <3>1, <4>2
      <4> QED
        BY <3>1, <4>1, <4>3 DEF PhaseInv, FetchTasks, Listed
    <3> QED
      BY <3>2, <3>3
  <2> QED
    BY <2>1, <2>2, <2>3 DEF PhaseInv
<1>4. CASE JoinPersist
  <2>1. ObligationTasks' /\ KeysLocal'
    BY <1>4, ObligationTasksFrame, KeysLocalFrame DEF JoinPersist, taskVars, PhaseInv
  <2>2. MarketTasks'
    BY <1>4 DEF JoinPersist, taskVars, PhaseInv, MarketTasks
  <2>3. FetchTasks'
    <3>1. at = n + 1 /\ Listed(1, at - 1) = Markets
      BY <1>4, <1>t, ListedFacts DEF JoinPersist
    <3> QED
      BY <1>4, <3>1 DEF JoinPersist, PersistJoined, taskVars, PhaseInv, FetchTasks
  <2> QED
    BY <2>1, <2>2, <2>3 DEF PhaseInv
<1>5. CASE SpawnMarket
  <2>1. at \in 1..n /\ m \in Markets /\ phase = "spawn"
    BY <1>5, <1>t DEF SpawnMarket, TypeInv, LoopBounds
  <2>2. /\ Listed(1, at) = Listed(1, at - 1) \cup {m}
        /\ m \notin Listed(1, at - 1) /\ Listed(1, n) = Markets
    BY <2>1, ListedFacts
  <2>3. market[m] = "idle" /\ market' = [market EXCEPT ![m] = "running"]
    BY <1>5, <2>1, <2>2 DEF SpawnMarket, PhaseInv, MarketTasks
  <2>4. ObligationTasks'
    <3> SUFFICES ASSUME NEW o \in Obligations
                 PROVE  /\ refresh'[o] # "idle" => /\ market'[MarketOf[o]] = "running"
                                                   /\ update'[o].pc = "idle"
                        /\ update'[o].pc # "idle" => market'[MarketOf[o]] # "idle"
                        /\ writer'[o] # NoObl => update'[o].pc = "idle" /\ refresh'[o] = "idle"
      BY DEF ObligationTasks
    <3>1. UNCHANGED <<update, writer>> /\ MarketOf[o] \in Markets /\ writer[o] = NoObl
      BY <1>5, <2>1, MarketsAssumption DEF SpawnMarket, TypeInv, WritersInPhase
    <3>2. /\ refresh[o] # "idle" => market[MarketOf[o]] = "running" /\ update[o].pc = "idle"
          /\ update[o].pc # "idle" => market[MarketOf[o]] # "idle"
      BY DEF PhaseInv, ObligationTasks
    <3>3. capsule[m] # NoMarket
      BY <1>5, <2>1 DEF SpawnMarket, TypeInv, CapsuleReady
    <3>4. CASE o \in Keys(capsule[m].inner)
      <4>1. MarketOf[o] = m
        BY <3>3, <3>4, <2>1 DEF PhaseInv, KeysLocal, ObligationsOf
      <4>2. update[o].pc = "idle" /\ market'[m] = "running"
        BY <2>1, <2>3, <3>2, <4>1, <1>t
      <4> QED
        BY <3>1, <4>1, <4>2
    <3>5. CASE o \notin Keys(capsule[m].inner)
      <4>1. refresh'[o] = refresh[o]
        BY <1>5, <3>5 DEF SpawnMarket
      <4>2. market[MarketOf[o]] # "idle" => market'[MarketOf[o]] = market[MarketOf[o]]
        BY <2>3, <3>1, <1>t
      <4> QED
        BY <3>1, <3>2, <4>1, <4>2
    <3> QED
      BY <3>4, <3>5
  <2>5. MarketTasks'
    <3> SUFFICES ASSUME NEW k \in Markets, market'[k] # "idle"
                 PROVE  \/ phase' = "spawn" /\ k \in Listed(1, at' - 1)
                        \/ phase' = "collect" /\ k \in Listed(at', n)
      BY DEF MarketTasks, Listed
    <3>1. k \in Listed(1, at)
      BY <2>1, <2>2, <2>3, <1>t DEF PhaseInv, MarketTasks
    <3>2. CASE at = n
      <4>1. phase' = "collect" /\ at' = 1
        BY <1>5, <3>2 DEF SpawnMarket
      <4> QED
        BY <2>2, <3>1, <3>2, <4>1
    <3>3. CASE at # n
      <4>1. phase' = "spawn" /\ at' = at + 1 /\ at' - 1 = at
        BY <1>5, <1>t, <2>1, <3>3 DEF SpawnMarket
      <4> QED
        BY <3>1, <4>1
    <3> QED
      BY <3>2, <3>3
  <2>6. FetchTasks'
    <3>1. UNCHANGED <<fetch, persist>> /\ phase' \in {"spawn", "collect"}
      BY <1>5, <2>1 DEF SpawnMarket
    <3> QED
      BY <2>1, <3>1 DEF PhaseInv, FetchTasks
  <2>7. KeysLocal'
    BY <1>5, KeysLocalFrame DEF SpawnMarket, PhaseInv
  <2> QED
    BY <2>4, <2>5, <2>6, <2>7 DEF PhaseInv
<1>6. CASE AwaitNext
  <2>1. UNCHANGED <<phase, at, refresh, market, writer, update, fetch, persist, capsule>>
    BY <1>6 DEF AwaitNext, taskVars
  <2> QED
    BY <2>1, <1>t, ObligationTasksFrame, MarketTasksFrame, FetchTasksFrame, KeysLocalFrame
    DEF PhaseInv
<1>7. CASE AwaitUpdate
  <2>1. /\ UNCHANGED <<at, refresh, market, fetch, persist, capsule>>
        /\ phase' = "dead" \/ UNCHANGED <<phase, at>>
    BY <1>7 DEF AwaitUpdate
  <2>2. MarketTasks' /\ FetchTasks' /\ KeysLocal'
    BY <2>1, <1>t, MarketTasksFrame, FetchTasksFrame, KeysLocalFrame DEF PhaseInv
  <2>3. ObligationTasks'
    <3>1. CASE UNCHANGED <<update, writer>>
      BY <2>1, <3>1, ObligationTasksFrame DEF PhaseInv
    <3>2. CASE ~UNCHANGED <<update, writer>>
      <4> DEFINE a == awaits
      <4>1. /\ a \in Obligations /\ update[a].pc \in {"none", "some"}
            /\ update' = [update EXCEPT ![a] = IdleUpdate]
            /\ \A o \in Obligations \ {a} : writer'[o] = writer[o]
        BY <1>7, <3>2, <1>t DEF AwaitUpdate, TypeInv, TypeOK, MainType
      <4>2. update'[a].pc = "idle" /\ \A o \in Obligations \ {a} : update'[o] = update[o]
        BY <4>1, <1>t DEF IdleUpdate
      <4>3. refresh[a] = "idle"
        BY <4>1 DEF PhaseInv, ObligationTasks
      <4> HIDE DEF a
      <4> QED
        BY <2>1, <4>1, <4>2, <4>3 DEF PhaseInv, ObligationTasks
    <3> QED
      BY <3>1, <3>2
  <2> QED
    BY <2>2, <2>3 DEF PhaseInv
<1>8. CASE NextMarket
  <2>1. /\ at \in 1..n /\ m \in Markets /\ phase = "collect"
        /\ UNCHANGED <<refresh, update, writer, fetch, persist, capsule>>
        /\ market' = [market EXCEPT ![m] = "idle"]
    BY <1>8, <1>t DEF NextMarket, TypeInv, LoopBounds
  <2>2. /\ Listed(at, n) = Listed(at + 1, n) \cup {m}
        /\ Listed(n + 1, n) = {}
    BY <2>1, ListedFacts
  <2>3. ObligationTasks'
    <3> SUFFICES ASSUME NEW o \in Obligations, MarketOf[o] = m
                 PROVE  refresh[o] = "idle" /\ update[o].pc = "idle"
      BY <2>1, <1>t DEF PhaseInv, ObligationTasks
    <3>1. market[m] = "done" /\ update[o].pc = "idle"
      BY <1>8 DEF NextMarket, Handles, ObligationsOf
    <3> QED
      BY <3>1 DEF PhaseInv, ObligationTasks
  <2>4. MarketTasks'
    <3> SUFFICES ASSUME NEW k \in Markets, market'[k] # "idle"
                 PROVE  phase' = "collect" /\ k \in Listed(at', n)
      BY DEF MarketTasks, Listed
    <3>1. k \in Listed(at + 1, n)
      BY <2>1, <2>2, <1>t DEF PhaseInv, MarketTasks
    <3> QED
      BY <1>8, <2>1, <2>2, <3>1 DEF NextMarket
  <2>5. FetchTasks'
    <3>1. phase' \in {"collect", "drain"}
      BY <1>8, <2>1 DEF NextMarket
    <3> QED
      BY <2>1, <3>1 DEF PhaseInv, FetchTasks
  <2>6. KeysLocal'
    BY <2>1, KeysLocalFrame DEF PhaseInv
  <2> QED
    BY <2>3, <2>4, <2>5, <2>6 DEF PhaseInv
<1>9. CASE JoinBoot \/ Loop
  BY <1>2, <1>9 DEF JoinBoot, Loop
<1>10. CASE Return
  <2>1. UNCHANGED <<at, refresh, market, writer, update, fetch, persist, capsule>>
        /\ phase = "drain" /\ phase' = "done"
    BY <1>10 DEF Return, taskVars
  <2>2. ObligationTasks' /\ KeysLocal'
    BY <2>1, ObligationTasksFrame, KeysLocalFrame DEF PhaseInv
  <2>3. MarketTasks' /\ FetchTasks'
    BY <2>1 DEF PhaseInv, MarketTasks, FetchTasks
  <2> QED
    BY <2>2, <2>3 DEF PhaseInv
<1> QED
  BY <1>1, <1>3, <1>4, <1>5, <1>6, <1>7, <1>8, <1>9, <1>10 DEF MainStep

(* A step that replaces the fetch task of one market by another that reads   *)
(* only about that market.                                                   *)
LEMMA FetchTaskPhase ==
    ASSUME TypeInv, PhaseInv, NEW m \in Markets, FetchUnchanged, NEW task \in FetchTask,
           fetch[m].pc \in {"start", "running"},
           fetch' = [fetch EXCEPT ![m] = task],
           Keys(task.data) \subseteq ObligationsOf(m), task.unread \subseteq ObligationsOf(m)
    PROVE  PhaseInv'
<1>1. UNCHANGED <<phase, at, capsule, persist, market, refresh, update, writer>>
  BY DEF FetchUnchanged, mainVars
<1>2. ObligationTasks' /\ MarketTasks'
  BY <1>1, ObligationTasksFrame, MarketTasksFrame DEF PhaseInv
<1>3. fetch \in [Markets -> FetchTask] /\ at \in 1..(Len(MarketList) + 1)
  BY DEF TypeInv, TypeOK, TaskType, MainType
<1>4. FetchTasks'
  <2>1. phase \in {"fetch", "dead"}
    BY DEF PhaseInv, FetchTasks
  <2>2. Listed(1, at - 1) \subseteq Markets /\ Listed(1, at - 1)' = Listed(1, at - 1)
    BY <1>1, <1>3, ListedFacts DEF Listed
  <2>3. phase = "fetch" => m \notin Listed(1, at - 1)
    BY DEF PhaseInv, FetchTasks
  <2> QED
    BY <1>1, <1>3, <2>1, <2>2, <2>3 DEF PhaseInv, FetchTasks
<1>5. KeysLocal'
  BY <1>1, <1>3 DEF PhaseInv, KeysLocal, Keys, ObligationsOf
<1> QED
  BY <1>2, <1>4, <1>5 DEF PhaseInv

(* What the fetch, persist and market tasks do. *)
LEMMA FetchStepPhase ==
    ASSUME TypeInv, PhaseInv, NEW m \in Markets, FetchStep(m) PROVE PhaseInv'
<1>t. /\ fetch \in [Markets -> FetchTask] /\ fetch[m] \in FetchTask
      /\ fetch[m].data \in MarketData
      /\ capsule \in [Markets -> Retriever \cup {NoMarket}]
      /\ Keys(fetch[m].data) \subseteq ObligationsOf(m)
      /\ fetch[m].unread \subseteq ObligationsOf(m)
      /\ at \in 1..(Len(MarketList) + 1)
  BY FetchParts DEF TypeInv, TypeOK, TaskType, MainType, PhaseInv, KeysLocal
<1>1. CASE UpdateInitially(m)
  <2>1. UNCHANGED <<phase, at, fetch, persist, market, refresh, update, writer>>
    BY <1>1 DEF UpdateInitially, mainVars, taskVars
  <2>2. ObligationTasks' /\ MarketTasks' /\ FetchTasks'
    BY <1>t, <2>1, ObligationTasksFrame, MarketTasksFrame, FetchTasksFrame DEF PhaseInv
  <2>3. capsule'[m].inner = EmptyData /\ \A k \in Markets \ {m} : capsule'[k] = capsule[k]
    BY <1>1, <1>t DEF UpdateInitially
  <2>4. KeysLocal'
    BY <2>1, <2>3 DEF PhaseInv, KeysLocal, Keys, EmptyData, ObligationsOf
  <2> QED
    BY <2>2, <2>4 DEF PhaseInv
<1>2. CASE FetchStart(m)
  <2> DEFINE u == [pc |-> "running",
                   todo |-> {"reserves", "oracle"} \cup
                              (IF capsule[m].initialized THEN {} ELSE {"scan"}),
                   unread |-> IF capsule[m].initialized THEN Keys(capsule[m].inner) ELSE {},
                   data |-> EmptyData]
  <2>1. Keys(capsule[m].inner) \subseteq ObligationsOf(m)
    BY <1>2 DEF FetchStart, PhaseInv, KeysLocal
  <2>2. ObligationsOf(m) \subseteq Obligations /\ Keys(EmptyData) = {}
    BY DEF ObligationsOf, Keys, EmptyData
  <2>3. u \in FetchTask
    BY <2>1, <2>2, BlankTypes DEF FetchTask
  <2>4. u.data = EmptyData /\ u.unread \subseteq ObligationsOf(m)
    BY <2>1
  <2>5. fetch' = [fetch EXCEPT ![m] = u] /\ fetch[m].pc = "start"
    BY <1>2 DEF FetchStart
  <2> HIDE DEF u
  <2> QED
    BY <1>2, <2>2, <2>3, <2>4, <2>5, FetchTaskPhase DEF FetchStart
<1>3. CASE FetchReserves(m)
  <2> DEFINE u == [fetch[m] EXCEPT !.todo = @ \ {"reserves"}, !.data.reserves = reserve[m]]
             v == [fetch[m] EXCEPT !.todo = @ \ {"reserves"}]
  <2>1. u \in FetchTask /\ v \in FetchTask
    BY FetchParts, ReservesUpdate, TodoUpdate
  <2>2. /\ u.data.obligations = fetch[m].data.obligations /\ u.unread = fetch[m].unread
        /\ v.data = fetch[m].data /\ v.unread = fetch[m].unread
    BY <1>t DEF FetchTask, MarketData
  <2>3. fetch' = [fetch EXCEPT ![m] = u] \/ fetch' = [fetch EXCEPT ![m] = v]
    BY <1>3, <1>t DEF FetchReserves
  <2> HIDE DEF u, v
  <2>4. Keys(u.data) = Keys(fetch[m].data) /\ Keys(v.data) = Keys(fetch[m].data)
    BY <2>2 DEF Keys
  <2> QED
    BY <1>3, <1>t, <2>1, <2>2, <2>3, <2>4, FetchTaskPhase DEF FetchReserves, Fetching
<1>4. CASE FetchOracle(m)
  <2> DEFINE u == [fetch[m] EXCEPT !.todo = @ \ {"oracle"}, !.data.oracle = TRUE]
             v == [fetch[m] EXCEPT !.todo = @ \ {"oracle"}]
             w == [fetch[m] EXCEPT !.pc = "panicked"]
  <2>1. u \in FetchTask /\ v \in FetchTask /\ w \in FetchTask
    BY FetchParts, TodoUpdate
  <2>2. /\ u.data.obligations = fetch[m].data.obligations /\ u.unread = fetch[m].unread
        /\ v.data = fetch[m].data /\ v.unread = fetch[m].unread
        /\ w.data = fetch[m].data /\ w.unread = fetch[m].unread
    BY <1>t DEF FetchTask, MarketData
  <2>3. \/ fetch' = [fetch EXCEPT ![m] = u]
        \/ fetch' = [fetch EXCEPT ![m] = v]
        \/ fetch' = [fetch EXCEPT ![m] = w]
    BY <1>4, <1>t DEF FetchOracle
  <2> HIDE DEF u, v, w
  <2>4. Keys(u.data) = Keys(fetch[m].data)
    BY <2>2 DEF Keys
  <2> QED
    BY <1>4, <1>t, <2>1, <2>2, <2>3, <2>4, FetchTaskPhase DEF FetchOracle, Fetching
<1>5. CASE GetObligations(m)
  <2> DEFINE scan == [o \in Obligations |-> IF MarketOf[o] = m THEN chainObl[o] ELSE NoObl]
             u == [fetch[m] EXCEPT !.todo = @ \ {"scan"}, !.data.obligations = scan]
             v == [fetch[m] EXCEPT !.todo = @ \ {"scan"}]
  <2>1. scan \in [Obligations -> Obl \cup {NoObl}]
    BY FetchParts
  <2>2. u \in FetchTask /\ v \in FetchTask
    BY <2>1, FetchParts, ScanUpdate, TodoUpdate
  <2>3. /\ u.data.obligations = scan /\ u.unread = fetch[m].unread
        /\ v.data = fetch[m].data /\ v.unread = fetch[m].unread
    BY <1>t, <2>1 DEF FetchTask, MarketData
  <2>4. fetch' = [fetch EXCEPT ![m] = u] \/ fetch' = [fetch EXCEPT ![m] = v]
    BY <1>5, <1>t DEF GetObligations
  <2> HIDE DEF u, v
  <2>5. Keys(u.data) \subseteq ObligationsOf(m)
    BY <2>3 DEF Keys, ObligationsOf
  <2> QED
    BY <1>5, <1>t, <2>2, <2>3, <2>4, <2>5, FetchTaskPhase DEF GetObligations, Fetching
<1>6. ASSUME NEW o \in Obligations, UpdateObligation(m, o) PROVE PhaseInv'
  <2> DEFINE u == [fetch[m] EXCEPT !.unread = @ \ {o}, !.data.obligations[o] = chainObl[o]]
             v == [fetch[m] EXCEPT !.pc = "panicked"]
  <2>1. u \in FetchTask /\ v \in FetchTask
    BY FetchParts, ReadUpdate, TodoUpdate
  <2>2. /\ u.unread = fetch[m].unread \ {o}
        /\ u.data.obligations = [fetch[m].data.obligations EXCEPT ![o] = chainObl[o]]
        /\ v.data = fetch[m].data /\ v.unread = fetch[m].unread
    BY <1>t DEF FetchTask, MarketData
  <2>3. fetch' = [fetch EXCEPT ![m] = u] \/ fetch' = [fetch EXCEPT ![m] = v]
    BY <1>6, <1>t DEF UpdateObligation
  <2> HIDE DEF u, v
  <2>4. Keys(u.data) \subseteq Keys(fetch[m].data) \cup {o}
    <3>1. fetch[m].data.obligations \in [Obligations -> Obl \cup {NoObl}]
      BY <1>t DEF MarketData
    <3> QED
      BY <2>2, <3>1 DEF Keys
  <2>5. o \in ObligationsOf(m)
    BY <1>6, <1>t DEF UpdateObligation
  <2> QED
    BY <1>6, <1>t, <2>1, <2>2, <2>3, <2>4, <2>5, FetchTaskPhase DEF UpdateObligation, Fetching
<1>7. CASE FetchReturn(m)
  <2> DEFINE u == [fetch[m] EXCEPT !.pc = "done"]
  <2>1. u \in FetchTask /\ u.data = fetch[m].data /\ u.unread = fetch[m].unread
    BY <1>t DEF FetchTask
  <2>2. fetch' = [fetch EXCEPT ![m] = u]
    BY <1>7, <1>t DEF FetchReturn
  <2> HIDE DEF u
  <2> QED
    BY <1>7, <1>t, <2>1, <2>2, FetchTaskPhase DEF FetchReturn, Fetching
<1>8. CASE PersistMarket(m)
  <2>1. UNCHANGED <<phase, at, fetch, market, refresh, update, writer>>
        /\ persist' = persist \ {m}
    BY <1>8 DEF PersistMarket, mainVars
  <2>2. ObligationTasks' /\ MarketTasks'
    BY <2>1, ObligationTasksFrame, MarketTasksFrame DEF PhaseInv
  <2>3. FetchTasks'
    <3>1. Listed(1, at - 1)' = Listed(1, at - 1)
      BY <2>1 DEF Listed
    <3> QED
      BY <2>1, <3>1 DEF PhaseInv, FetchTasks
  <2>4. capsule'[m].inner = fetch[m].data /\ \A k \in Markets \ {m} : capsule'[k] = capsule[k]
    BY <1>8, <1>t DEF PersistMarket
  <2>5. KeysLocal'
    BY <2>1, <2>4, <1>t DEF PhaseInv, KeysLocal, Keys, ObligationsOf
  <2> QED
    BY <2>2, <2>3, <2>5 DEF PhaseInv
<1>9. CASE MarketReturn(m)
  <2>1. UNCHANGED <<phase, at, capsule, persist, fetch, refresh, update, writer>>
        /\ market[m] = "running" /\ market' = [market EXCEPT ![m] = "done"]
    BY <1>9 DEF MarketReturn, mainVars
  <2>2. FetchTasks' /\ KeysLocal'
    BY <1>t, <2>1, FetchTasksFrame, KeysLocalFrame DEF PhaseInv
  <2>3. market \in [Markets -> {"idle", "running", "done"}]
    BY DEF TypeInv, TypeOK, TaskType
  <2>4. MarketTasks'
    BY <2>1, <2>3 DEF PhaseInv, MarketTasks, Listed
  <2>5. ObligationTasks'
    <3>1. \A o \in Obligations : MarketOf[o] = m => refresh[o] = "idle"
      BY <1>9 DEF MarketReturn, ObligationsOf
    <3> QED
      BY <2>1, <2>3, <3>1 DEF PhaseInv, ObligationTasks
  <2> QED
    BY <2>2, <2>4, <2>5 DEF PhaseInv
<1> QED
  BY <1>1, <1>2, <1>3, <1>4, <1>5, <1>6, <1>7, <1>8, <1>9 DEF FetchStep

(* What the refresh, update and writer tasks do. *)
LEMMA UpdateStepPhase ==
    ASSUME TypeInv, PhaseInv, NEW o \in Obligations, UpdateStep(o) \/ RetrySend(o)
    PROVE  PhaseInv'
<1>t. /\ at \in 1..(Len(MarketList) + 1)
      /\ update \in [Obligations -> UpdateTask]
      /\ refresh \in [Obligations -> {"idle", "running", "none", "some"}]
      /\ writer \in [Obligations -> Obl \cup {NoObl}]
      /\ capsule \in [Markets -> Retriever \cup {NoMarket}]
      /\ MarketOf[o] \in Markets
  BY MarketsAssumption DEF TypeInv, TypeOK, TaskType, MainType
<1>1. CASE RefreshObligation(o)
  <2>1. /\ UNCHANGED <<phase, at, capsule, fetch, persist, market, update, writer>>
        /\ refresh[o] = "running" /\ refresh'[o] # "idle"
        /\ \A p \in Obligations \ {o} : refresh'[p] = refresh[p]
    BY <1>1, <1>t DEF RefreshObligation, mainVars
  <2>2. ObligationTasks'
    BY <2>1 DEF PhaseInv, ObligationTasks
  <2> QED
    BY <1>t, <2>1, <2>2, MarketTasksFrame, FetchTasksFrame, KeysLocalFrame DEF PhaseInv
<1>2. CASE SpawnUpdate(o)
  <2>1. /\ UNCHANGED <<phase, at, capsule, fetch, persist, market, writer>>
        /\ refresh[o] # "idle" /\ refresh'[o] = "idle" /\ market[MarketOf[o]] = "running"
        /\ \A p \in Obligations \ {o} : refresh'[p] = refresh[p] /\ update'[p] = update[p]
    BY <1>2, <1>t DEF SpawnUpdate, mainVars
  <2>2. ObligationTasks'
    BY <2>1 DEF PhaseInv, ObligationTasks
  <2> QED
    BY <1>t, <2>1, <2>2, MarketTasksFrame, FetchTasksFrame, KeysLocalFrame DEF PhaseInv
<1>3. CASE LiquidationStep(o)
  <2>1. /\ UNCHANGED <<phase, at, capsule, fetch, persist, market, refresh, writer>>
        /\ \A p \in Obligations : update[p].pc # "idle" <=> update'[p].pc # "idle"
    BY <1>3, LiquidationMoves DEF UpdateUnchanged, mainVars
  <2> QED
    BY <1>t, <2>1, ObligationTasksFrame, MarketTasksFrame, FetchTasksFrame, KeysLocalFrame
    DEF PhaseInv
<1>4. CASE WriteObligation(o)
  <2> DEFINE k == MarketOf[o]
             r == capsule[k]
             w == [r EXCEPT !.inner.obligations[o] = writer[o]]
  <2>1. /\ UNCHANGED <<phase, at, fetch, persist, market, refresh, update>>
        /\ writer[o] # NoObl /\ writer' = [writer EXCEPT ![o] = NoObl]
        /\ capsule' = [capsule EXCEPT ![k] = w]
    BY <1>4 DEF WriteObligation, mainVars
  <2>2. ObligationTasks'
    BY <1>t, <2>1 DEF PhaseInv, ObligationTasks
  <2>3. KeysLocal'
    <3>1. r \in Retriever
      BY <1>4, <1>t DEF WriteObligation, Running, TypeInv, WritersInPhase, CapsuleReady
    <3>2. r.inner \in MarketData /\ r.inner.obligations \in [Obligations -> Obl \cup {NoObl}]
      BY <3>1 DEF Retriever, MarketData
    <3>3. w.inner.obligations = [r.inner.obligations EXCEPT ![o] = writer[o]]
      BY <3>1, <3>2 DEF Retriever, MarketData
    <3> HIDE DEF w
    <3>4. Keys(w.inner) \subseteq Keys(r.inner) \cup {o}
      BY <3>2, <3>3 DEF Keys
    <3>5. Keys(r.inner) \subseteq ObligationsOf(k) /\ o \in ObligationsOf(k)
      BY <3>1, <1>t, NoneAssumption DEF PhaseInv, KeysLocal, ObligationsOf
    <3>6. capsule'[k] = w /\ \A j \in Markets \ {k} : capsule'[j] = capsule[j]
      BY <1>t, <2>1
    <3>7. Keys(capsule'[k].inner) \subseteq ObligationsOf(k)
      BY <3>4, <3>5, <3>6
    <3> QED
      BY <2>1, <3>6, <3>7 DEF PhaseInv, KeysLocal, Keys, ObligationsOf
  <2> QED
    BY <1>t, <2>1, <2>2, <2>3, MarketTasksFrame, FetchTasksFrame DEF PhaseInv
<1> QED
  BY <1>1, <1>2, <1>3, <1>4 DEF UpdateStep, LiquidationStep

(* The chain, and a process that has ended, leave the tasks alone. *)
LEMMA FrameStepPhase ==
    ASSUME TypeInv, PhaseInv, ChainStep \/ UNCHANGED vars PROVE PhaseInv'
<1>1. UNCHANGED <<phase, at, capsule, fetch, persist, market, refresh, update, writer>>
  BY DEF ChainStep, MovePrice, RefreshReserve, ChangeObligation, AccountCreated, Land,
     Drop, BotUnchanged, vars, mainVars, taskVars
<1>2. at \in 1..(Len(MarketList) + 1)
  BY DEF TypeInv, TypeOK, MainType
<1> QED
  BY <1>1, <1>2, ObligationTasksFrame, MarketTasksFrame, FetchTasksFrame, KeysLocalFrame
  DEF PhaseInv

LEMMA PhaseInvInvariant == Spec => []PhaseInv
<1>1. TypeInv /\ PhaseInv /\ [Next]_vars => PhaseInv'
  BY MainStepPhase, FetchStepPhase, UpdateStepPhase, FrameStepPhase
  DEF Next, BotStep, Stopped
<1> QED
  BY <1>1, InitPhaseInv, TypeInvInvariant, PTL DEF Spec

LEMMA PhaseJoined ==
    ASSUME TypeInv, PhaseInv PROVE TasksJoined
<1>1. phase \in {"fetch", "drain"} => \A m \in Markets : market[m] = "idle"
  BY DEF PhaseInv, MarketTasks
<1>2. \A o \in Obligations : MarketOf[o] \in Markets
  BY MarketsAssumption
<1> QED
  BY <1>1, <1>2 DEF TypeInv, PhaseInv, ObligationTasks, FetchTasks, WritersInPhase, TasksJoined

(* No task of an earlier call of process_markets is left when it starts      *)
(* over, and no market task starts before every fetched market is persisted, *)
(* for any number of markets and obligations and whatever calls fail.        *)
THEOREM TasksAreJoined == Spec => []TasksJoined
  BY PhaseJoined, TypeInvInvariant, PhaseInvInvariant, PTL
-----------------------------------------------------------------------------
(* Layers 3 to 5: how old the data is that the bot works with.  The copies   *)
(* of an obligation are ordered between the capsule and the chain, a         *)
(* liquidation is decided on data of its own iteration, and only a fault     *)
(* brings the process down.                                                  *)

(* The accounts of the chain only get newer, and none disappears. *)
ChainGrows ==
    /\ \A o \in Obligations : chainObl[o] # NoObl =>
         chainObl'[o] # NoObl /\ chainObl'[o].version >= chainObl[o].version
    /\ \A m \in Markets : reserve'[m].version >= reserve[m].version

LEMMA VersionsAre ==
    /\ \A x \in Obl : x # NoObl /\ VersionOf(x) = x.version /\ x.version \in Nat
    /\ \A x \in Rsv : x # NoRsv /\ VersionOf(x) = x.version /\ x.version \in Nat
    /\ VersionOf(NoObl) = 0
<1>1. \A x \in Obl : x \notin {NoObl, NoRsv}
  BY NoneAssumption
<1>2. \A x \in Rsv : x \notin {NoObl, NoRsv}
  BY NoneAssumption
<1>3. \A x \in Obl : x.version \in Nat
  BY DEF Obl
<1>4. \A x \in Rsv : x.version \in Nat
  BY DEF Rsv
<1> QED
  BY <1>1, <1>2, <1>3, <1>4 DEF VersionOf

LEMMA ChainParts ==
    ASSUME TypeInv
    PROVE  /\ chainObl \in [Obligations -> Obl \cup {NoObl}]
           /\ reserve \in [Markets -> Rsv]
           /\ \A o \in Obligations : chainObl[o] # NoObl =>
                chainObl[o] \in Obl /\ chainObl[o].version \in Nat
           /\ \A m \in Markets : reserve[m].version \in Nat
<1>1. chainObl \in [Obligations -> Obl \cup {NoObl}] /\ reserve \in [Markets -> Rsv]
  BY DEF TypeInv, TypeOK, ChainType
<1> QED
  BY <1>1, VersionsAre

LEMMA ChainUnchangedGrows ==
    ASSUME TypeInv, UNCHANGED <<chainObl, reserve>> PROVE ChainGrows
  BY ChainParts DEF ChainGrows

LEMMA ReserveGrows ==
    ASSUME TypeInv, NEW m \in Markets, reserve' = [reserve EXCEPT ![m] = Refreshed(m)]
    PROVE  \A k \in Markets : reserve'[k].version >= reserve[k].version
  BY ChainParts DEF Refreshed

(* No step takes the chain back. *)
LEMMA StepGrows ==
    ASSUME TypeInv, [Next]_vars PROVE ChainGrows
<1>0. UNCHANGED <<chainObl, reserve>> => ChainGrows
  BY ChainUnchangedGrows
<1>v. reserve' = reserve => \A k \in Markets : reserve'[k].version >= reserve[k].version
  BY ChainParts
<1>o. ASSUME NEW o \in Obligations, NEW x, x.version \in Nat,
             chainObl' = [chainObl EXCEPT ![o] = x], x # NoObl,
             chainObl[o] # NoObl => x.version >= chainObl[o].version
      PROVE  \A p \in Obligations : chainObl[p] # NoObl =>
                chainObl'[p] # NoObl /\ chainObl'[p].version >= chainObl[p].version
  BY <1>o, ChainParts
<1>1. CASE BotStep \/ UNCHANGED vars
  <2>1. UNCHANGED <<chainObl, reserve>>
    BY <1>1 DEF BotStep, vars, chainVars, MainStep, LoadConfig, ConfigFails, JoinBoot,
       BeginIteration, AwaitFetch, JoinPersist, SpawnMarket, AwaitNext, AwaitUpdate,
       NextMarket, Loop, Return, FetchStep, UpdateInitially, FetchStart, FetchReserves,
       FetchOracle, GetObligations, UpdateObligation, FetchReturn, PersistMarket,
       MarketReturn, FetchUnchanged, UpdateStep, RefreshObligation, SpawnUpdate,
       GetAccount, CreateAccount, ReadWallet, SubstituteCollateral, SubstituteLiquidity,
       Substitute, SignTransaction, SendTransaction, RetrySend, GetObligation,
       WriteObligation
  <2> QED
    BY <1>0, <2>1
<1>2. ASSUME NEW m \in Markets, MovePrice(m) \/ RefreshReserve(m) PROVE ChainGrows
  <2>1. CASE MovePrice(m)
    BY <1>0, <2>1 DEF MovePrice
  <2>2. CASE RefreshReserve(m)
    <3>1. /\ chainObl' = chainObl
          /\ \A k \in Markets : reserve'[k].version >= reserve[k].version
      BY <2>2, ReserveGrows DEF RefreshReserve
    <3>2. \A o \in Obligations : chainObl[o] # NoObl => chainObl'[o].version >= chainObl[o].version
      BY <3>1, ChainParts
    <3> QED
      BY <3>1, <3>2 DEF ChainGrows
  <2> QED
    BY <1>2, <2>1, <2>2
<1>3. ASSUME NEW o \in Obligations, ChangeObligation(o) PROVE ChainGrows
  <2>1. PICK d \in Debts :
          chainObl' = [chainObl EXCEPT ![o] = [debt |-> d, version |-> VersionOf(chainObl[o]) + 1]]
    BY <1>3 DEF ChangeObligation
  <2> DEFINE v == VersionOf(chainObl[o]) + 1
             x == [debt |-> d, version |-> v]
  <2>2. v \in Nat /\ (chainObl[o] # NoObl => v >= chainObl[o].version)
    BY ChainParts, VersionsAre
  <2>3. x \in Obl /\ x.version = v
    BY <2>2, NumbersAssumption DEF Obl
  <2>4. x # NoObl
    BY <2>3, VersionsAre
  <2>5. chainObl' = [chainObl EXCEPT ![o] = x]
    BY <2>1
  <2>6. reserve' = reserve
    BY <1>3 DEF ChangeObligation
  <2> HIDE DEF v, x
  <2> QED
    BY <1>o, <1>v, <2>2, <2>3, <2>4, <2>5, <2>6 DEF ChainGrows
<1>4. ASSUME NEW a \in Accounts, AccountCreated(a) PROVE ChainGrows
  BY <1>0, <1>4 DEF AccountCreated
<1>5. ASSUME NEW s \in TxSlots, Land(s) \/ Drop(s) PROVE ChainGrows
  <2>1. CASE Drop(s)
    BY <1>0, <2>1 DEF Drop
  <2>2. CASE Land(s)
    <3> DEFINE o == pool[s].obl
    <3>1. o \in Obligations /\ MarketOf[o] \in Markets
      <4>1. pool[s] \in Tx
        BY <2>2 DEF Land, TypeInv, TypeOK, ChainType
      <4> QED
        BY <4>1, MarketsAssumption DEF Tx
    <3>2. PICK repaid \in Repayable(pool[s]) :
            chainObl' = [chainObl EXCEPT ![o] = [debt |-> chainObl[o].debt - repaid,
                                                 version |-> chainObl[o].version + 1]]
      BY <2>2 DEF Land
    <3>3. chainObl[o] \in Obl /\ chainObl[o].version \in Nat /\ chainObl[o].debt \in Nat
          /\ repaid \in 1..chainObl[o].debt
      <4>1. chainObl[o] # NoObl
        BY <2>2 DEF Land, Liquidatable
      <4> QED
        BY <3>1, <3>2, <4>1, ChainParts DEF Obl, Repayable
    <3> DEFINE v == chainObl[o].version + 1
               x == [debt |-> chainObl[o].debt - repaid, version |-> v]
    <3>4. x \in Obl /\ x.version = v /\ v \in Nat /\ v >= chainObl[o].version
      <4>1. chainObl[o].debt - repaid \in Nat
        BY <3>3
      <4> QED
        BY <3>3, <4>1 DEF Obl
    <3>5. x # NoObl /\ chainObl' = [chainObl EXCEPT ![o] = x]
      BY <3>2, <3>4, VersionsAre
    <3>6. \A k \in Markets : reserve'[k].version >= reserve[k].version
      BY <2>2, <3>1, ReserveGrows DEF Land
    <3> HIDE DEF x, v, o
    <3> QED
      BY <1>o, <3>1, <3>4, <3>5, <3>6 DEF ChainGrows
  <2> QED
    BY <1>5, <2>1, <2>2
<1> QED
  BY <1>1, <1>2, <1>3, <1>4, <1>5 DEF Next, ChainStep, Stopped
-----------------------------------------------------------------------------
(* The third layer: the order of the copies. *)

LEMMA DataParts ==
    ASSUME NEW d \in MarketData
    PROVE  /\ d.obligations \in [Obligations -> Obl \cup {NoObl}]
           /\ d.reserves \in Rsv \cup {NoRsv}
           /\ \A o \in Keys(d) : /\ o \in Obligations
                                 /\ d.obligations[o] \in Obl
                                 /\ d.obligations[o].version \in Nat
<1>1. d.obligations \in [Obligations -> Obl \cup {NoObl}] /\ d.reserves \in Rsv \cup {NoRsv}
  BY DEF MarketData
<1> QED
  BY <1>1, VersionsAre DEF Keys

LEMMA CapsuleParts ==
    ASSUME TypeInv, NEW m \in Markets, capsule[m] # NoMarket
    PROVE  /\ capsule[m] \in Retriever
           /\ capsule[m].inner \in MarketData
           /\ capsule[m].initialized \in BOOLEAN
<1>1. capsule[m] \in Retriever
  BY DEF TypeInv, TypeOK
<1> QED
  BY <1>1 DEF Retriever

LEMMA BlankKeys == Keys(EmptyData) = {}
  BY DEF Keys, EmptyData

(* What is behind the chain stays so. *)
LEMMA StaysBehind ==
    ASSUME TypeInv, TypeInv', ChainGrows, NEW d \in MarketData, BehindChain(d)
    PROVE  \A o \in Keys(d) : /\ chainObl'[o] # NoObl
                              /\ d.obligations[o].version <= chainObl'[o].version
<1> TAKE o \in Keys(d)
<1>1. o \in Obligations /\ d.obligations[o].version \in Nat
  BY DataParts
<1>2. /\ chainObl[o] # NoObl /\ chainObl[o].version \in Nat
      /\ d.obligations[o].version <= chainObl[o].version
  BY <1>1, ChainParts DEF BehindChain
<1>3. chainObl'[o] # NoObl /\ chainObl'[o].version >= chainObl[o].version
  BY <1>1, <1>2 DEF ChainGrows
<1>4. chainObl'[o].version \in Nat
  <2>1. chainObl'[o] \in Obl
    BY <1>1, <1>3 DEF TypeInv, TypeOK, ChainType
  <2> QED
    BY <2>1, VersionsAre
<1> QED
  BY <1>1, <1>2, <1>3, <1>4

(* Frames: what each part of CopyInv is about, besides the chain. *)
LEMMA CapsuleBehindFrame ==
    ASSUME TypeInv, TypeInv', ChainGrows, CapsuleBehind, UNCHANGED capsule
    PROVE  CapsuleBehind'
  BY StaysBehind, CapsuleParts DEF CapsuleBehind, BehindChain, Keys

LEMMA FetchAheadFrame ==
    ASSUME TypeInv, TypeInv', ChainGrows, FetchAhead, UNCHANGED <<capsule, fetch>>,
           \A m \in Markets : Unpersisted(m)' => Unpersisted(m)
    PROVE  FetchAhead'
<1> SUFFICES ASSUME NEW m \in Markets
             PROVE  /\ fetch'[m].pc \in {"running", "done"} => BehindChain(fetch[m].data)'
                    /\ fetch'[m].pc = "done" => fetch'[m].todo = {} /\ fetch'[m].unread = {}
                    /\ Unpersisted(m)' => Supersedes(fetch[m], capsule[m])'
  BY DEF FetchAhead
<1>1. fetch'[m].pc \in {"running", "done"} => BehindChain(fetch[m].data)'
  BY StaysBehind, FetchParts DEF FetchAhead, BehindChain, Keys
<1>2. Supersedes(fetch[m], capsule[m])' <=> Supersedes(fetch[m], capsule[m])
  BY DEF Supersedes, Keys
<1> QED
  BY <1>1, <1>2 DEF FetchAhead

LEMMA UpdateAheadFrame ==
    ASSUME TypeInv, TypeInv', ChainGrows, NEW o \in Obligations, UpdateAhead(o),
           capsule'[MarketOf[o]] = capsule[MarketOf[o]], Active(o)' => Active(o),
           update'[o].pc = "some" =>
             update[o].pc = "some" /\ update'[o].result = update[o].result,
           writer'[o] # NoObl => writer'[o] = writer[o]
    PROVE  UpdateAhead(o)'
<1>1. ASSUME NEW x \in Obl \cup {NoObl}, Writable(o, x)
      PROVE  /\ x # NoObl
             /\ x.version >= capsule'[MarketOf[o]].inner.obligations[o].version
             /\ chainObl'[o] # NoObl /\ x.version <= chainObl'[o].version
  <2>1. /\ x # NoObl /\ x.version \in Nat /\ chainObl[o] # NoObl
        /\ x.version >= capsule'[MarketOf[o]].inner.obligations[o].version
        /\ x.version <= chainObl[o].version /\ chainObl[o].version \in Nat
    BY <1>1, VersionsAre, ChainParts DEF Writable
  <2>2. chainObl'[o] # NoObl /\ chainObl'[o].version >= chainObl[o].version
    BY <2>1 DEF ChainGrows
  <2>3. chainObl'[o] \in Obl
    BY <2>2 DEF TypeInv, TypeOK, ChainType
  <2> QED
    BY <2>1, <2>2, <2>3, VersionsAre
<1>2. update'[o].pc = "some" => Writable(o, update[o].result)'
  <2>1. update[o].result \in Obl \cup {NoObl}
    BY UpdateParts
  <2> QED
    BY <1>1, <2>1 DEF UpdateAhead, Writable
<1>3. writer'[o] # NoObl => Writable(o, writer[o])'
  <2>1. writer[o] \in Obl \cup {NoObl}
    BY DEF TypeInv, TypeOK, TaskType
  <2> QED
    BY <1>1, <2>1 DEF UpdateAhead, Writable
<1>4. Active(o)' => /\ capsule'[MarketOf[o]] # NoMarket
                    /\ o \in Keys(capsule[MarketOf[o]].inner)'
                    /\ capsule'[MarketOf[o]].initialized
  BY DEF UpdateAhead, Keys
<1> QED
  BY <1>2, <1>3, <1>4 DEF UpdateAhead

LEMMA UpdatesAheadFrame ==
    ASSUME TypeInv, TypeInv', ChainGrows, UpdatesAhead,
           UNCHANGED <<capsule, refresh, update, writer>>
    PROVE  UpdatesAhead'
  BY UpdateAheadFrame DEF UpdatesAhead, Active

LEMMA InitCopyInv == Init => CopyInv
<1> SUFFICES ASSUME Init PROVE CopyInv
  OBVIOUS
<1>1. CapsuleBehind
  BY DEF Init, CapsuleBehind
<1>2. FetchAhead
  BY DEF Init, FetchAhead, Unpersisted, IdleFetch
<1>3. UpdatesAhead
  BY DEF Init, UpdatesAhead, UpdateAhead, Active, IdleUpdate
<1> QED
  BY <1>1, <1>2, <1>3 DEF CopyInv

(* What the main task does. *)
LEMMA MainStepCopy ==
    ASSUME TypeInv, TypeInv', PhaseInv, CopyInv, ChainGrows, MainStep \/ ConfigFails
    PROVE  CopyInv'
<1>t. /\ update \in [Obligations -> UpdateTask] /\ writer \in [Obligations -> Obl \cup {NoObl}]
      /\ at \in 1..(Len(MarketList) + 1) /\ Len(MarketList) \in Nat
  BY ListedMarkets DEF TypeInv, TypeOK, TaskType, MainType
<1>c. CapsuleBehind /\ FetchAhead /\ UpdatesAhead
  BY DEF CopyInv
<1>1. ASSUME UNCHANGED <<capsule, fetch, refresh, update, writer>>,
             phase' # "fetch" \/ UNCHANGED <<phase, at, persist>>
      PROVE  CopyInv'
  <2>1. \A m \in Markets : Unpersisted(m)' => Unpersisted(m)
    BY <1>1 DEF Unpersisted, Listed
  <2> QED
    BY <1>1, <1>c, <2>1, CapsuleBehindFrame, FetchAheadFrame, UpdatesAheadFrame DEF CopyInv
<1>2. CASE LoadConfig \/ ConfigFails \/ JoinPersist \/ Return
  <2>1. UNCHANGED <<capsule, fetch, refresh, update, writer>> /\ phase' # "fetch"
    BY <1>2 DEF LoadConfig, ConfigFails, JoinPersist, Return, taskVars
  <2> QED
    BY <1>1, <2>1
<1>3. ASSUME BeginIteration PROVE CopyInv'
  <2>1. UNCHANGED <<capsule, refresh, update, writer>>
        /\ fetch' = [m \in Markets |-> [IdleFetch EXCEPT !.pc = "start"]]
    BY <1>3 DEF BeginIteration
  <2>2. \A m \in Markets : fetch'[m].pc = "start"
    BY <2>1 DEF IdleFetch
  <2>3. FetchAhead'
    BY <2>2 DEF FetchAhead, Unpersisted
  <2> QED
    BY <1>c, <2>1, <2>3, CapsuleBehindFrame, UpdatesAheadFrame DEF CopyInv
<1>4. CASE JoinBoot \/ Loop
  BY <1>3, <1>4 DEF JoinBoot, Loop
<1>5. CASE AwaitFetch
  <2>1. UNCHANGED <<capsule, fetch, refresh, update, writer>>
    BY <1>5 DEF AwaitFetch
  <2>2. ASSUME NEW k \in Markets, Unpersisted(k)' PROVE Unpersisted(k)
    <3> DEFINE m == MarketList[at]
    <3>1. at \in 1..Len(MarketList) /\ phase = "fetch"
      BY <1>5, <1>t DEF AwaitFetch
    <3>2. /\ Listed(1, at) = Listed(1, at - 1) \cup {m}
          /\ m \notin Listed(1, at - 1)
      BY <3>1, ListedFacts
    <3>3. phase' = "fetch" /\ fetch[k].pc \in {"running", "done"}
      BY <2>1, <2>2 DEF Unpersisted
    <3>4. persist' = persist \cup {m} /\ at' = at + 1
      BY <1>5, <3>3 DEF AwaitFetch
    <3>5. at' - 1 = at
      BY <3>1, <3>4
    <3>6. k \in persist' \/ k \notin Listed(1, at)
      BY <2>2, <3>5 DEF Unpersisted, Listed
    <3> QED
      BY <3>1, <3>2, <3>3, <3>4, <3>6 DEF Unpersisted
  <2> QED
    BY <1>c, <2>1, <2>2, CapsuleBehindFrame, FetchAheadFrame, UpdatesAheadFrame DEF CopyInv
<1>6. CASE SpawnMarket
  <2> DEFINE m == MarketList[at]
  <2>1. m \in Markets /\ capsule[m] # NoMarket
    BY <1>6, <1>t, ListedMarkets DEF SpawnMarket, TypeInv, LoopBounds, CapsuleReady
  <2>2. UNCHANGED <<capsule, fetch, update, writer>> /\ phase' # "fetch"
    BY <1>6 DEF SpawnMarket
  <2>3. FetchAhead'
    <3>1. \A k \in Markets : Unpersisted(k)' => Unpersisted(k)
      BY <2>2 DEF Unpersisted
    <3> QED
      BY <1>c, <2>2, <3>1, FetchAheadFrame
  <2>4. ASSUME NEW o \in Obligations PROVE UpdateAhead(o)'
    <3>1. CASE o \in Keys(capsule[m].inner)
      <4>1. MarketOf[o] = m /\ capsule[m].initialized
        BY <1>c, <2>1, <3>1, CapsuleParts DEF PhaseInv, KeysLocal, ObligationsOf, CapsuleBehind
      <4>2. update'[o] = update[o] /\ writer'[o] = writer[o] /\ UpdateAhead(o)
        BY <2>2, <1>c DEF UpdatesAhead
      <4>3. writer[o] = NoObl /\ update[o].pc = "idle"
        <5>1. m \notin Listed(1, at - 1) /\ phase = "spawn"
          BY <1>6, <1>t, ListedFacts DEF SpawnMarket, TypeInv, LoopBounds
        <5>2. market[m] = "idle"
          BY <2>1, <5>1 DEF PhaseInv, MarketTasks
        <5> QED
          BY <4>1, <5>1, <5>2 DEF PhaseInv, ObligationTasks, TypeInv, WritersInPhase
      <4> QED
        BY <2>1, <2>2, <3>1, <4>1, <4>2, <4>3 DEF UpdateAhead, Keys
    <3>2. CASE o \notin Keys(capsule[m].inner)
      <4>1. refresh'[o] = refresh[o]
        BY <1>6, <3>2 DEF SpawnMarket
      <4> QED
        BY <1>c, <2>2, <4>1, UpdateAheadFrame DEF UpdatesAhead, Active
    <3> QED
      BY <3>1, <3>2
  <2> QED
    BY <1>c, <2>2, <2>3, <2>4, CapsuleBehindFrame DEF CopyInv, UpdatesAhead
<1>7. CASE AwaitNext \/ NextMarket
  <2>1. UNCHANGED <<capsule, fetch, refresh, update, writer>> /\ phase' # "fetch"
    BY <1>7 DEF AwaitNext, NextMarket, taskVars
  <2> QED
    BY <1>1, <2>1
<1>8. CASE AwaitUpdate
  <2>1. UNCHANGED <<capsule, fetch, refresh>> /\ phase' # "fetch"
    BY <1>8 DEF AwaitUpdate
  <2>2. CASE UNCHANGED <<update, writer>>
    BY <1>1, <2>1, <2>2
  <2>3. CASE ~UNCHANGED <<update, writer>>
    <3> DEFINE a == awaits
               x == IF update[a].pc = "some" THEN update[a].result ELSE writer[a]
    <3>1. /\ a \in Obligations /\ update[a].pc \in {"none", "some"}
          /\ writer' = [writer EXCEPT ![a] = x]
          /\ update' = [update EXCEPT ![a] = IdleUpdate]
      <4>1. awaits \in Obligations \cup {NoTask}
        BY DEF TypeInv, TypeOK, MainType
      <4> QED
        BY <1>8, <2>3, <4>1 DEF AwaitUpdate
    <3>2. ASSUME NEW o \in Obligations PROVE UpdateAhead(o)'
      <4>1. CASE o = a
        <5>1. update'[o] = IdleUpdate /\ writer'[o] = x
          BY <1>t, <3>1, <4>1
        <5>2. update'[o].pc = "idle" /\ Active(o)
          BY <3>1, <4>1, <5>1 DEF IdleUpdate, Active
        <5>3. UpdateAhead(o)
          BY <1>c DEF UpdatesAhead
        <5>4. x # NoObl => Writable(o, x)
          BY <4>1, <5>3 DEF UpdateAhead
        <5>5. writer'[o] # NoObl => Writable(o, writer[o])'
          <6>1. chainObl' = chainObl
            BY <1>8 DEF AwaitUpdate, chainVars
          <6> HIDE DEF x
          <6> QED
            BY <2>1, <5>1, <5>4, <6>1 DEF Writable
        <5> QED
          BY <2>1, <5>2, <5>3, <5>5 DEF UpdateAhead, Keys
      <4>2. CASE o # a
        <5>1. update'[o] = update[o] /\ writer'[o] = writer[o]
          BY <1>t, <3>1, <4>2
        <5> QED
          BY <1>c, <2>1, <5>1, UpdateAheadFrame DEF UpdatesAhead, Active
      <4> QED
        BY <4>1, <4>2
    <3>3. \A m \in Markets : Unpersisted(m)' => Unpersisted(m)
      BY <2>1 DEF Unpersisted
    <3> QED
      BY <1>c, <2>1, <3>2, <3>3, CapsuleBehindFrame, FetchAheadFrame DEF CopyInv, UpdatesAhead
  <2> QED
    BY <2>2, <2>3
<1> QED
  BY <1>2, <1>4, <1>5, <1>6, <1>7, <1>8 DEF MainStep

(* A step that replaces the fetch task of one market by another that is      *)
(* still ahead of the capsule.                                               *)
LEMMA FetchTaskCopy ==
    ASSUME TypeInv, TypeInv', CopyInv, ChainGrows, NEW m \in Markets, FetchUnchanged,
           NEW task \in FetchTask, fetch' = [fetch EXCEPT ![m] = task],
           task.pc \in {"running", "done"} => BehindChain(task.data),
           task.pc = "done" => task.todo = {} /\ task.unread = {},
           task.pc \in {"running", "done"} /\ phase = "fetch" /\ capsule[m] # NoMarket
             /\ (m \in persist \/ m \notin Listed(1, at - 1)) => Supersedes(task, capsule[m])
    PROVE  CopyInv'
<1>1. UNCHANGED <<phase, at, capsule, persist, refresh, update, writer, chainObl>>
  BY DEF FetchUnchanged, mainVars, chainVars
<1>2. /\ fetch \in [Markets -> FetchTask] /\ fetch'[m] = task
      /\ \A k \in Markets \ {m} : fetch'[k] = fetch[k]
  BY DEF TypeInv, TypeOK, TaskType
<1>3. CapsuleBehind' /\ UpdatesAhead'
  BY <1>1, CapsuleBehindFrame, UpdatesAheadFrame DEF CopyInv
<1>4. ASSUME NEW k \in Markets
      PROVE  /\ fetch'[k].pc \in {"running", "done"} => BehindChain(fetch[k].data)'
             /\ fetch'[k].pc = "done" => fetch'[k].todo = {} /\ fetch'[k].unread = {}
             /\ Unpersisted(k)' => Supersedes(fetch[k], capsule[k])'
  <2>1. CASE k = m
    <3>1. /\ fetch'[k].pc \in {"running", "done"} => BehindChain(fetch[k].data)'
          /\ fetch'[k].pc = "done" => fetch'[k].todo = {} /\ fetch'[k].unread = {}
      BY <1>1, <1>2, <2>1 DEF BehindChain, Keys
    <3>2. ASSUME Unpersisted(k)' PROVE Supersedes(fetch[k], capsule[k])'
      <4>1. /\ task.pc \in {"running", "done"} /\ phase = "fetch"
            /\ m \in persist \/ m \notin Listed(1, at - 1)
        BY <1>1, <1>2, <2>1, <3>2 DEF Unpersisted, Listed
      <4>2. Supersedes(task, capsule[m])
        BY <4>1 DEF TypeInv, CapsuleReady
      <4> QED
        BY <1>1, <1>2, <2>1, <4>2 DEF Supersedes, Keys
    <3> QED
      BY <3>1, <3>2
  <2>2. CASE k # m
    <3>1. fetch'[k] = fetch[k]
      BY <1>2, <2>2
    <3> QED
      BY <1>1, <3>1 DEF CopyInv, FetchAhead, BehindChain, Keys, Unpersisted, Listed, Supersedes
  <2> QED
    BY <2>1, <2>2
<1> QED
  BY <1>3, <1>4 DEF CopyInv, FetchAhead

(* In particular by one that read no obligation. *)
LEMMA FetchRestCopy ==
    ASSUME TypeInv, TypeInv', CopyInv, ChainGrows, NEW m \in Markets, FetchUnchanged, Fetching(m),
           NEW task \in FetchTask, fetch' = [fetch EXCEPT ![m] = task],
           task.data.obligations = fetch[m].data.obligations,
           task.unread = fetch[m].unread, task.todo \subseteq fetch[m].todo,
           task.pc = "done" => task.todo = {} /\ task.unread = {}
    PROVE  CopyInv'
<1>1. fetch[m].pc = "running" /\ Keys(task.data) = Keys(fetch[m].data)
  BY DEF Fetching, Keys
<1>2. BehindChain(fetch[m].data) /\ (Unpersisted(m) => Supersedes(fetch[m], capsule[m]))
  BY <1>1 DEF CopyInv, FetchAhead
<1>3. BehindChain(task.data)
  BY <1>1, <1>2 DEF BehindChain
<1>4. Unpersisted(m) => Supersedes(task, capsule[m])
  BY <1>1, <1>2 DEF Supersedes
<1> QED
  BY <1>1, <1>3, <1>4, FetchTaskCopy DEF Unpersisted

(* What the fetch, persist and market tasks do. *)
LEMMA FetchStepCopy ==
    ASSUME TypeInv, TypeInv', PhaseInv, CopyInv, ChainGrows, NEW m \in Markets, FetchStep(m)
    PROVE  CopyInv'
<1>t. /\ fetch \in [Markets -> FetchTask] /\ fetch[m] \in FetchTask
      /\ fetch[m].data \in MarketData
      /\ capsule \in [Markets -> Retriever \cup {NoMarket}]
      /\ fetch[m].data.obligations \in [Obligations -> Obl \cup {NoObl}]
      /\ fetch[m].unread \subseteq Obligations
  BY FetchParts, DataParts DEF TypeInv, TypeOK, TaskType
<1>c. CapsuleBehind /\ FetchAhead /\ UpdatesAhead
  BY DEF CopyInv
<1>1. CASE UpdateInitially(m)
  <2>1. UNCHANGED <<fetch, refresh, update, writer>> /\ phase' # "fetch" /\ capsule[m] = NoMarket
    BY <1>1 DEF UpdateInitially, taskVars, mainVars
  <2>2. /\ capsule'[m].inner = EmptyData
        /\ \A k \in Markets \ {m} : capsule'[k] = capsule[k]
    BY <1>1, <1>t DEF UpdateInitially
  <2>3. CapsuleBehind'
    <3> SUFFICES ASSUME NEW k \in Markets, capsule'[k] # NoMarket
                 PROVE  /\ BehindChain(capsule[k].inner)'
                        /\ ~capsule'[k].initialized => Keys(capsule[k].inner)' = {}
      BY DEF CapsuleBehind
    <3>1. CASE k = m
      <4>1. Keys(capsule[k].inner)' = {}
        BY <2>2, <3>1 DEF Keys, EmptyData
      <4> QED
        BY <4>1 DEF BehindChain
    <3>2. CASE k # m
      <4>1. capsule'[k] = capsule[k] /\ chainObl' = chainObl
        BY <1>1, <2>2, <3>2 DEF UpdateInitially, chainVars
      <4> QED
        BY <1>c, <4>1 DEF CapsuleBehind, BehindChain, Keys
    <3> QED
      BY <3>1, <3>2
  <2>4. FetchAhead'
    <3>1. chainObl' = chainObl
      BY <1>1 DEF UpdateInitially, chainVars
    <3> QED
      BY <1>c, <2>1, <3>1 DEF FetchAhead, Unpersisted, BehindChain, Keys
  <2>5. ASSUME NEW o \in Obligations PROVE UpdateAhead(o)'
    <3>1. MarketOf[o] \in Markets /\ UpdateAhead(o)
      BY <1>c, MarketsAssumption DEF UpdatesAhead
    <3>2. CASE MarketOf[o] = m
      BY <2>1, <3>1, <3>2 DEF UpdateAhead, Active
    <3>3. CASE MarketOf[o] # m
      BY <2>1, <2>2, <3>1, <3>3, UpdateAheadFrame DEF Active
    <3> QED
      BY <3>2, <3>3
  <2> QED
    BY <2>3, <2>4, <2>5 DEF CopyInv, UpdatesAhead
<1>2. CASE FetchStart(m)
  <2> DEFINE u == [pc |-> "running",
                   todo |-> {"reserves", "oracle"} \cup
                              (IF capsule[m].initialized THEN {} ELSE {"scan"}),
                   unread |-> IF capsule[m].initialized THEN Keys(capsule[m].inner) ELSE {},
                   data |-> EmptyData]
  <2>1. u \in FetchTask
    BY BlankTypes DEF FetchTask, Keys
  <2>2. u.pc = "running" /\ u.data = EmptyData
    OBVIOUS
  <2>3. BehindChain(u.data)
    BY <2>2, BlankKeys DEF BehindChain
  <2>4. Supersedes(u, capsule[m])
    BY <2>2, BlankKeys DEF Supersedes
  <2>5. fetch' = [fetch EXCEPT ![m] = u] /\ FetchUnchanged
    BY <1>2 DEF FetchStart
  <2> HIDE DEF u
  <2> QED
    BY <2>1, <2>2, <2>3, <2>4, <2>5, FetchTaskCopy
<1>3. CASE FetchReserves(m)
  <2> DEFINE u == [fetch[m] EXCEPT !.todo = @ \ {"reserves"}, !.data.reserves = reserve[m]]
             v == [fetch[m] EXCEPT !.todo = @ \ {"reserves"}]
  <2>1. u \in FetchTask /\ v \in FetchTask
    BY FetchParts, ReservesUpdate, TodoUpdate
  <2>2. /\ u.data.obligations = fetch[m].data.obligations /\ u.unread = fetch[m].unread
        /\ u.todo \subseteq fetch[m].todo /\ u.pc = fetch[m].pc
        /\ v.data = fetch[m].data /\ v.unread = fetch[m].unread
        /\ v.todo \subseteq fetch[m].todo /\ v.pc = fetch[m].pc
    BY <1>t DEF FetchTask, MarketData
  <2>3. /\ fetch' = [fetch EXCEPT ![m] = u] \/ fetch' = [fetch EXCEPT ![m] = v]
        /\ Fetching(m) /\ FetchUnchanged
    BY <1>3, <1>t DEF FetchReserves
  <2> HIDE DEF u, v
  <2> QED
    BY <2>1, <2>2, <2>3, FetchRestCopy DEF Fetching
<1>4. CASE FetchOracle(m)
  <2> DEFINE u == [fetch[m] EXCEPT !.todo = @ \ {"oracle"}, !.data.oracle = TRUE]
             v == [fetch[m] EXCEPT !.todo = @ \ {"oracle"}]
             w == [fetch[m] EXCEPT !.pc = "panicked"]
  <2>1. u \in FetchTask /\ v \in FetchTask /\ w \in FetchTask
    BY FetchParts, TodoUpdate
  <2>2. /\ u.data.obligations = fetch[m].data.obligations /\ u.unread = fetch[m].unread
        /\ u.todo \subseteq fetch[m].todo /\ u.pc = fetch[m].pc
        /\ v.data = fetch[m].data /\ v.unread = fetch[m].unread
        /\ v.todo \subseteq fetch[m].todo /\ v.pc = fetch[m].pc
        /\ w.data = fetch[m].data /\ w.unread = fetch[m].unread
        /\ w.todo = fetch[m].todo /\ w.pc = "panicked"
    BY <1>t DEF FetchTask, MarketData
  <2>3. /\ \/ fetch' = [fetch EXCEPT ![m] = u]
           \/ fetch' = [fetch EXCEPT ![m] = v]
           \/ fetch' = [fetch EXCEPT ![m] = w]
        /\ Fetching(m) /\ FetchUnchanged
    BY <1>4, <1>t DEF FetchOracle
  <2> HIDE DEF u, v, w
  <2> QED
    BY <2>1, <2>2, <2>3, FetchRestCopy DEF Fetching
<1>5. CASE GetObligations(m)
  <2> DEFINE scan == [o \in Obligations |-> IF MarketOf[o] = m THEN chainObl[o] ELSE NoObl]
             u == [fetch[m] EXCEPT !.todo = @ \ {"scan"}, !.data.obligations = scan]
             v == [fetch[m] EXCEPT !.todo = @ \ {"scan"}]
  <2>1. scan \in [Obligations -> Obl \cup {NoObl}]
    BY FetchParts
  <2>2. u \in FetchTask /\ v \in FetchTask
    BY <2>1, FetchParts, ScanUpdate, TodoUpdate
  <2>3. /\ u.data.obligations = scan /\ u.unread = fetch[m].unread /\ u.pc = fetch[m].pc
        /\ v.data = fetch[m].data /\ v.unread = fetch[m].unread
        /\ v.todo \subseteq fetch[m].todo /\ v.pc = fetch[m].pc
    BY <1>t, <2>1 DEF FetchTask, MarketData
  <2>4. /\ fetch' = [fetch EXCEPT ![m] = u] \/ fetch' = [fetch EXCEPT ![m] = v]
        /\ Fetching(m) /\ FetchUnchanged /\ "scan" \in fetch[m].todo
    BY <1>5, <1>t DEF GetObligations
  <2>5. BehindChain(u.data)
    <3> HIDE DEF u
    <3> SUFFICES ASSUME NEW o \in Keys(u.data)
                 PROVE  /\ chainObl[o] # NoObl
                        /\ u.data.obligations[o].version <= chainObl[o].version
      BY DEF BehindChain
    <3>1. o \in Obligations /\ scan[o] # NoObl
      BY <2>3 DEF Keys
    <3>2. u.data.obligations[o] = chainObl[o] /\ chainObl[o] # NoObl
      BY <2>3, <3>1
    <3> QED
      BY <3>1, <3>2, ChainParts
  <2> HIDE DEF u, v
  <2>6. Unpersisted(m) /\ capsule[m] # NoMarket => Supersedes(u, capsule[m])
    <3> SUFFICES ASSUME Unpersisted(m), capsule[m] # NoMarket PROVE Supersedes(u, capsule[m])
      OBVIOUS
    <3>1. ~capsule[m].initialized
      BY <1>c, <2>4 DEF FetchAhead, Supersedes
    <3>2. Keys(capsule[m].inner) = {}
      BY <1>c, <3>1 DEF CapsuleBehind
    <3> QED
      BY <3>1, <3>2 DEF Supersedes
  <2>7. fetch' = [fetch EXCEPT ![m] = u] => CopyInv'
    BY <2>2, <2>3, <2>4, <2>5, <2>6, FetchTaskCopy DEF Unpersisted, Fetching
  <2>8. fetch' = [fetch EXCEPT ![m] = v] => CopyInv'
    BY <2>2, <2>3, <2>4, FetchRestCopy DEF Fetching
  <2> QED
    BY <2>4, <2>7, <2>8
<1>6. ASSUME NEW o \in Obligations, UpdateObligation(m, o) PROVE CopyInv'
  <2> DEFINE u == [fetch[m] EXCEPT !.unread = @ \ {o}, !.data.obligations[o] = chainObl[o]]
             v == [fetch[m] EXCEPT !.pc = "panicked"]
  <2>1. u \in FetchTask /\ v \in FetchTask
    BY FetchParts, ReadUpdate, TodoUpdate
  <2>2. /\ u.unread = fetch[m].unread \ {o} /\ u.pc = fetch[m].pc /\ u.todo = fetch[m].todo
        /\ u.data.obligations = [fetch[m].data.obligations EXCEPT ![o] = chainObl[o]]
        /\ v.data = fetch[m].data /\ v.unread = fetch[m].unread
        /\ v.todo = fetch[m].todo /\ v.pc = "panicked"
    BY <1>t DEF FetchTask, MarketData
  <2>3. /\ fetch' = [fetch EXCEPT ![m] = u] \/ fetch' = [fetch EXCEPT ![m] = v]
        /\ Fetching(m) /\ FetchUnchanged /\ o \in fetch[m].unread
    BY <1>6, <1>t DEF UpdateObligation
  <2> HIDE DEF u, v
  <2>4. BehindChain(fetch[m].data)
    BY <1>c, <2>3 DEF FetchAhead, Fetching
  <2>5. BehindChain(u.data)
    <3> SUFFICES ASSUME NEW p \in Keys(u.data)
                 PROVE  /\ chainObl[p] # NoObl
                        /\ u.data.obligations[p].version <= chainObl[p].version
      BY DEF BehindChain
    <3>1. p \in Obligations /\ u.data.obligations[p] # NoObl
      BY DEF Keys
    <3>2. CASE p = o
      BY <1>t, <2>2, <3>1, <3>2, ChainParts
    <3>3. CASE p # o
      <4>1. u.data.obligations[p] = fetch[m].data.obligations[p]
        BY <1>t, <2>2, <3>1, <3>3
      <4> QED
        BY <2>4, <3>1, <4>1 DEF BehindChain, Keys
    <3> QED
      BY <3>2, <3>3
  <2>6. Unpersisted(m) /\ capsule[m] # NoMarket => Supersedes(u, capsule[m])
    <3> SUFFICES ASSUME Unpersisted(m), capsule[m] # NoMarket PROVE Supersedes(u, capsule[m])
      OBVIOUS
    <3> DEFINE x == capsule[m]
    <3>1. Supersedes(fetch[m], x) /\ BehindChain(x.inner)
      BY <1>c DEF FetchAhead, CapsuleBehind
    <3>2. ~x.initialized => Keys(x.inner) = {}
      BY <1>c DEF CapsuleBehind
    <3>3. CASE ~x.initialized
      BY <3>2, <3>3 DEF Supersedes
    <3>4. CASE x.initialized
      <4>1. /\ "scan" \notin fetch[m].todo
            /\ Keys(x.inner) = Keys(fetch[m].data) \cup fetch[m].unread
            /\ Keys(fetch[m].data) \cap fetch[m].unread = {}
        BY <3>1, <3>4 DEF Supersedes
      <4>2. chainObl[o] # NoObl /\ x.inner.obligations[o].version <= chainObl[o].version
        BY <2>3, <3>1, <4>1 DEF BehindChain
      <4>3. Keys(u.data) = Keys(fetch[m].data) \cup {o}
        BY <1>t, <2>2, <4>2 DEF Keys
      <4>4. ASSUME NEW p \in Keys(x.inner) \cap Keys(u.data)
            PROVE  x.inner.obligations[p].version <= u.data.obligations[p].version
        <5>1. CASE p = o
          BY <1>t, <2>2, <4>2, <5>1
        <5>2. CASE p # o
          <6>1. /\ p \in Keys(x.inner) \cap Keys(fetch[m].data)
                /\ u.data.obligations[p] = fetch[m].data.obligations[p]
            BY <1>t, <2>2, <4>3, <5>2 DEF Keys
          <6> QED
            BY <3>1, <6>1 DEF Supersedes
        <5> QED
          BY <5>1, <5>2
      <4>5. /\ "scan" \notin u.todo
            /\ Keys(x.inner) = Keys(u.data) \cup u.unread
            /\ Keys(u.data) \cap u.unread = {}
        BY <2>2, <2>3, <4>1, <4>3
      <4> QED
        BY <4>4, <4>5 DEF Supersedes
    <3> QED
      BY <3>3, <3>4
  <2>7. fetch' = [fetch EXCEPT ![m] = u] => CopyInv'
    BY <2>1, <2>2, <2>3, <2>5, <2>6, FetchTaskCopy DEF Unpersisted, Fetching
  <2>8. fetch' = [fetch EXCEPT ![m] = v] => CopyInv'
    BY <2>1, <2>2, <2>3, FetchRestCopy
  <2> QED
    BY <2>3, <2>7, <2>8
<1>7. CASE FetchReturn(m)
  <2> DEFINE u == [fetch[m] EXCEPT !.pc = "done"]
  <2>1. /\ u \in FetchTask /\ u.data = fetch[m].data /\ u.unread = fetch[m].unread
        /\ u.todo = fetch[m].todo
    BY <1>t DEF FetchTask
  <2>2. /\ fetch' = [fetch EXCEPT ![m] = u] /\ Fetching(m) /\ FetchUnchanged
        /\ fetch[m].todo = {} /\ fetch[m].unread = {}
    BY <1>7, <1>t DEF FetchReturn
  <2> HIDE DEF u
  <2> QED
    BY <2>1, <2>2, FetchRestCopy
<1>8. CASE PersistMarket(m)
  <2>1. /\ UNCHANGED <<phase, at, fetch, refresh, update, writer, chainObl>>
        /\ persist' = persist \ {m} /\ m \in persist /\ phase # "dead"
        /\ capsule' = [capsule EXCEPT ![m] = [inner |-> fetch[m].data, initialized |-> TRUE]]
    BY <1>8 DEF PersistMarket, mainVars, chainVars, Running
  <2>2. phase = "fetch" /\ m \in Listed(1, at - 1) /\ fetch[m].pc = "done"
    BY <2>1 DEF PhaseInv, FetchTasks
  <2>3. /\ capsule'[m].inner = fetch[m].data /\ capsule'[m].initialized
        /\ \A k \in Markets \ {m} : capsule'[k] = capsule[k]
    BY <1>t, <2>1
  <2>4. CapsuleBehind'
    BY <1>c, <2>1, <2>2, <2>3 DEF CapsuleBehind, FetchAhead, BehindChain, Keys
  <2>5. FetchAhead'
    <3>1. ~Unpersisted(m)'
      BY <2>1, <2>2 DEF Unpersisted, Listed
    <3>2. \A k \in Markets \ {m} : Unpersisted(k)' => Unpersisted(k)
      BY <2>1 DEF Unpersisted, Listed
    <3> QED
      BY <1>c, <2>1, <2>3, <3>1, <3>2 DEF FetchAhead, BehindChain, Keys, Supersedes
  <2>6. ASSUME NEW o \in Obligations PROVE UpdateAhead(o)'
    <3>1. refresh[o] = "idle" /\ update[o].pc = "idle" /\ writer[o] = NoObl
      BY <2>2, PhaseJoined DEF TasksJoined
    <3> QED
      BY <2>1, <3>1 DEF UpdateAhead, Active
  <2> QED
    BY <2>4, <2>5, <2>6 DEF CopyInv, UpdatesAhead
<1>9. CASE MarketReturn(m)
  <2>1. UNCHANGED <<phase, at, capsule, persist, fetch, refresh, update, writer>>
    BY <1>9 DEF MarketReturn, mainVars
  <2>2. \A k \in Markets : Unpersisted(k)' => Unpersisted(k)
    BY <2>1 DEF Unpersisted, Listed
  <2> QED
    BY <1>c, <2>1, <2>2, CapsuleBehindFrame, FetchAheadFrame, UpdatesAheadFrame DEF CopyInv
<1> QED
  BY <1>1, <1>2, <1>3, <1>4, <1>5, <1>6, <1>7, <1>8, <1>9 DEF FetchStep

(* Where the task is before its transaction is signed. *)
PreSign == {"ata", "create", "wallet", "collateral", "liquidity", "sign"}

(* Where a step of a task at work leads, and what a panic in it needs. *)
LEMMA LiquidationGoes ==
    ASSUME TypeInv, NEW o \in Obligations, LiquidationStep(o)
    PROVE  /\ \/ /\ update[o].pc \in PreSign \ {"sign"}
                 /\ update'[o].pc \in PreSign \cup {"none", "panicked"}
                 /\ UNCHANGED pool
              \/ /\ update[o].pc = "sign" /\ update'[o].pc \in {"send", "panicked"}
                 /\ SignTransaction(o)
              \/ /\ update[o].pc = "send" /\ update'[o].pc \in {"send", "reread"}
                 /\ SendTransaction(o) \/ RetrySend(o)
              \/ /\ update[o].pc = "reread" /\ UNCHANGED pool
                 /\ \/ update'[o].pc = "some" /\ update'[o].result = chainObl[o]
                    \/ update'[o].pc = "panicked"
           /\ update'[o].pc = "panicked" => Fault \/ RepayAccount[o] \notin accounts
           /\ Fault \/ UNCHANGED faults
<1>t. update \in [Obligations -> UpdateTask] /\ update[o] \in UpdateTask
  BY UpdateParts
<1>g. ASSUME NEW q, Goto(o, q) PROVE update'[o].pc = q
  BY <1>t, <1>g DEF Goto, UpdateTask
<1>1. CASE GetAccount(o)
  <2>1. /\ update[o].pc = "ata" /\ UNCHANGED pool /\ (Fault \/ UNCHANGED faults)
        /\ Goto(o, "wallet") \/ Goto(o, "create")
    BY <1>1 DEF GetAccount, Updating, chainVars
  <2> QED
    BY <1>g, <2>1 DEF PreSign
<1>2. CASE CreateAccount(o)
  <2>1. /\ update[o].pc = "create" /\ UNCHANGED pool /\ (Fault \/ UNCHANGED faults)
        /\ Goto(o, "wallet") \/ (Goto(o, "panicked") /\ Fault)
    BY <1>2 DEF CreateAccount, Updating
  <2> QED
    BY <1>g, <2>1 DEF PreSign
<1>3. CASE ReadWallet(o)
  <2> DEFINE balance == wallet[RepayAccount[o]]
             q == AfterWallet(balance)
             u == [update[o] EXCEPT !.pc = q, !.amount = balance]
  <2>1. /\ update[o].pc = "wallet" /\ UNCHANGED pool /\ (Fault \/ UNCHANGED faults)
        /\ \/ update' = [update EXCEPT ![o] = u]
           \/ Goto(o, "panicked") /\ (Fault \/ RepayAccount[o] \notin accounts)
    BY <1>3, <1>t DEF ReadWallet, Updating, chainVars
  <2>2. q \in {"none", "collateral"}
    BY DEF AfterWallet
  <2>3. u.pc = q
    BY <1>t DEF UpdateTask
  <2> HIDE DEF u, q
  <2>4. update' = [update EXCEPT ![o] = u] => update'[o].pc = q
    BY <1>t, <2>3
  <2> QED
    BY <1>g, <2>1, <2>2, <2>4 DEF PreSign
<1>4. ASSUME NEW state, NEW account \in Accounts, NEW next, Substitute(o, state, account, next)
      PROVE  /\ update[o].pc = state /\ UNCHANGED pool /\ (Fault \/ UNCHANGED faults)
             /\ update'[o].pc = next
  <2>1. PICK c \in {{account}, {account} \ accounts} :
          update' = [update EXCEPT ![o].pc = next, ![o].create = @ \cup c]
    BY <1>4 DEF Substitute
  <2> DEFINE d == update[o].create \cup c
             u == [update[o] EXCEPT !.pc = next, !.create = d]
  <2>2. update' = [update EXCEPT ![o] = u]
    BY <1>t, <2>1
  <2>3. u.pc = next
    BY <1>t DEF UpdateTask
  <2> HIDE DEF u
  <2> QED
    BY <1>4, <1>t, <2>2, <2>3 DEF Substitute, Updating, chainVars
<1>5. CASE SubstituteCollateral(o) \/ SubstituteLiquidity(o)
  <2>1. /\ update[o].pc \in PreSign \ {"sign"} /\ update'[o].pc \in PreSign
        /\ UNCHANGED pool /\ (Fault \/ UNCHANGED faults)
    BY <1>4, <1>5, AccountsAssumption DEF SubstituteCollateral, SubstituteLiquidity, PreSign
  <2> QED
    BY <2>1 DEF PreSign
<1>6. ASSUME NEW q, NEW s, update' = [update EXCEPT ![o].pc = q, ![o].tx = s]
      PROVE  update'[o].pc = q
  <2> DEFINE u == [update[o] EXCEPT !.pc = q, !.tx = s]
  <2>1. update' = [update EXCEPT ![o] = u] /\ u.pc = q
    BY <1>t, <1>6 DEF UpdateTask
  <2> HIDE DEF u
  <2> QED
    BY <1>t, <2>1
<1>7. CASE SignTransaction(o)
  <2>1. /\ update[o].pc = "sign" /\ (Fault \/ UNCHANGED faults)
        /\ \/ \E s \in TxSlots : update' = [update EXCEPT ![o].pc = "send", ![o].tx = s]
           \/ Goto(o, "panicked") /\ Fault
    BY <1>7 DEF SignTransaction, Updating
  <2> QED
    BY <1>6, <1>7, <1>g, <2>1 DEF PreSign
<1>8. CASE SendTransaction(o)
  <2>1. /\ update[o].pc = "send" /\ UNCHANGED faults
        /\ update' = [update EXCEPT ![o].pc = "reread", ![o].tx = NoTask]
    BY <1>8 DEF SendTransaction, Updating
  <2> QED
    BY <1>6, <1>8, <2>1
<1>9. CASE RetrySend(o)
  <2>1. update[o].pc = "send" /\ update' = update /\ Fault
    BY <1>9 DEF RetrySend, Updating
  <2> QED
    BY <1>9, <2>1
<1>10. CASE GetObligation(o)
  <2> DEFINE u == [update[o] EXCEPT !.pc = "some", !.result = chainObl[o]]
  <2>1. /\ update[o].pc = "reread" /\ UNCHANGED pool /\ (Fault \/ UNCHANGED faults)
        /\ update' = [update EXCEPT ![o] = u] \/ (Goto(o, "panicked") /\ Fault)
    BY <1>10, <1>t DEF GetObligation, Updating, chainVars
  <2>2. u.pc = "some" /\ u.result = chainObl[o]
    BY <1>t DEF UpdateTask
  <2> HIDE DEF u
  <2>3. update' = [update EXCEPT ![o] = u] =>
          update'[o].pc = "some" /\ update'[o].result = chainObl[o]
    BY <1>t, <2>2
  <2> QED
    BY <1>g, <2>1, <2>3
<1> QED
  BY <1>1, <1>2, <1>3, <1>5, <1>7, <1>8, <1>9, <1>10 DEF LiquidationStep

(* What the refresh, update and writer tasks do. *)
LEMMA UpdateStepCopy ==
    ASSUME TypeInv, TypeInv', PhaseInv, CopyInv, ChainGrows,
           NEW o \in Obligations, UpdateStep(o) \/ RetrySend(o)
    PROVE  CopyInv'
<1>t. /\ update \in [Obligations -> UpdateTask]
      /\ refresh \in [Obligations -> {"idle", "running", "none", "some"}]
      /\ writer \in [Obligations -> Obl \cup {NoObl}]
      /\ capsule \in [Markets -> Retriever \cup {NoMarket}]
      /\ MarketOf[o] \in Markets
  BY MarketsAssumption DEF TypeInv, TypeOK, TaskType
<1>c. CapsuleBehind /\ FetchAhead /\ UpdatesAhead /\ UpdateAhead(o)
  BY DEF CopyInv, UpdatesAhead
<1>1. ASSUME UNCHANGED <<phase, at, capsule, persist, fetch, writer>>,
             \A p \in Obligations \ {o} : refresh'[p] = refresh[p] /\ update'[p] = update[p],
             UpdateAhead(o)'
      PROVE  CopyInv'
  <2>1. \A m \in Markets : Unpersisted(m)' => Unpersisted(m)
    BY <1>1 DEF Unpersisted, Listed
  <2>2. ASSUME NEW p \in Obligations PROVE UpdateAhead(p)'
    <3>1. CASE p = o
      BY <1>1, <3>1
    <3>2. CASE p # o
      BY <1>1, <1>c, <3>2, UpdateAheadFrame DEF UpdatesAhead, Active
    <3> QED
      BY <3>1, <3>2
  <2> QED
    BY <1>1, <1>c, <2>1, <2>2, CapsuleBehindFrame, FetchAheadFrame DEF CopyInv, UpdatesAhead
<1>2. CASE RefreshObligation(o)
  <2>1. /\ UNCHANGED <<phase, at, capsule, persist, fetch, update, writer>>
        /\ refresh[o] # "idle"
        /\ \A p \in Obligations \ {o} : refresh'[p] = refresh[p]
    BY <1>2, <1>t DEF RefreshObligation, mainVars
  <2>2. UpdateAhead(o)'
    BY <1>c, <2>1, UpdateAheadFrame DEF Active
  <2> QED
    BY <1>1, <2>1, <2>2
<1>3. CASE SpawnUpdate(o)
  <2> DEFINE u == [IdleUpdate EXCEPT !.pc = IF refresh[o] = "some" THEN "ata" ELSE "none"]
  <2>1. /\ UNCHANGED <<phase, at, capsule, persist, fetch, writer>>
        /\ refresh[o] # "idle" /\ update' = [update EXCEPT ![o] = u]
        /\ \A p \in Obligations \ {o} : refresh'[p] = refresh[p]
    BY <1>3, <1>t DEF SpawnUpdate, mainVars
  <2>2. u.pc # "some"
    BY DEF IdleUpdate
  <2> HIDE DEF u
  <2>3. update'[o].pc # "some" /\ \A p \in Obligations \ {o} : update'[p] = update[p]
    BY <1>t, <2>1, <2>2
  <2>4. UpdateAhead(o)'
    BY <1>c, <2>1, <2>3, UpdateAheadFrame DEF Active
  <2> QED
    BY <1>1, <2>1, <2>3, <2>4
<1>4. CASE LiquidationStep(o)
  <2>1. /\ UNCHANGED <<phase, at, capsule, persist, fetch, refresh, writer>>
        /\ update[o].pc # "idle"
        /\ \A p \in Obligations \ {o} : update'[p] = update[p]
    BY <1>4, LiquidationMoves DEF UpdateUnchanged, mainVars
  <2>2. Active(o)
    BY <2>1 DEF Active
  <2>3. CASE update'[o].pc # "some"
    BY <1>1, <1>c, <2>1, <2>2, <2>3, UpdateAheadFrame
  <2>4. CASE update'[o].pc = "some"
    <3>1. update'[o].result = chainObl[o]
      BY <1>4, <2>4, LiquidationGoes DEF PreSign
    <3>2. chainObl' = chainObl
      BY <1>4 DEF LiquidationStep, GetAccount, CreateAccount, ReadWallet,
         SubstituteCollateral, SubstituteLiquidity, Substitute, SignTransaction,
         SendTransaction, RetrySend, GetObligation, chainVars
    <3> DEFINE x == capsule[MarketOf[o]]
    <3>3. /\ x # NoMarket /\ o \in Keys(x.inner) /\ x.initialized
          /\ writer[o] # NoObl => Writable(o, writer[o])
      BY <1>c, <2>2 DEF UpdateAhead
    <3>4. chainObl[o] # NoObl /\ x.inner.obligations[o].version <= chainObl[o].version
      BY <1>c, <1>t, <3>3 DEF CapsuleBehind, BehindChain
    <3>5. x.inner.obligations[o].version \in Nat /\ chainObl[o].version \in Nat
      BY <1>t, <3>3, <3>4, CapsuleParts, DataParts, ChainParts
    <3>6. Writable(o, update[o].result)'
      BY <2>1, <3>1, <3>2, <3>4, <3>5 DEF Writable
    <3>7. UpdateAhead(o)'
      BY <2>1, <3>2, <3>3, <3>6 DEF UpdateAhead, Writable, Keys
    <3> QED
      BY <1>1, <2>1, <3>7
  <2> QED
    BY <2>3, <2>4
<1>5. CASE WriteObligation(o)
  <2> DEFINE k == MarketOf[o]
             r == capsule[k]
             w == [r EXCEPT !.inner.obligations[o] = writer[o]]
  <2>1. /\ UNCHANGED <<phase, at, fetch, persist, refresh, update, chainObl>>
        /\ writer[o] # NoObl /\ writer' = [writer EXCEPT ![o] = NoObl]
        /\ capsule' = [capsule EXCEPT ![k] = w]
    BY <1>5 DEF WriteObligation, mainVars, chainVars
  <2>2. /\ r # NoMarket /\ o \in Keys(r.inner) /\ r.initialized /\ Writable(o, writer[o])
        /\ update[o].pc = "idle" /\ refresh[o] = "idle"
    BY <1>c, <2>1 DEF UpdateAhead, Active, PhaseInv, ObligationTasks
  <2>3. r \in Retriever /\ r.inner \in MarketData
        /\ r.inner.obligations \in [Obligations -> Obl \cup {NoObl}]
    BY <1>t, <2>2, CapsuleParts, DataParts
  <2>4. /\ w.initialized = r.initialized /\ w \in Retriever
        /\ w.inner.obligations = [r.inner.obligations EXCEPT ![o] = writer[o]]
    BY <1>t, <2>3 DEF Retriever, MarketData
  <2> HIDE DEF w
  <2>5. capsule'[k] = w /\ \A j \in Markets \ {k} : capsule'[j] = capsule[j]
    BY <1>t, <2>1
  <2>6. /\ w.inner.obligations[o] = writer[o]
        /\ \A p \in Obligations \ {o} : w.inner.obligations[p] = r.inner.obligations[p]
        /\ Keys(w.inner) = Keys(r.inner)
    BY <2>1, <2>2, <2>3, <2>4 DEF Keys
  <2>7. CapsuleBehind'
    <3> SUFFICES ASSUME NEW j \in Markets, capsule'[j] # NoMarket
                 PROVE  /\ BehindChain(capsule[j].inner)'
                        /\ ~capsule'[j].initialized => Keys(capsule[j].inner)' = {}
      BY DEF CapsuleBehind
    <3>1. CASE j # k
      BY <1>c, <2>1, <2>5, <3>1 DEF CapsuleBehind, BehindChain, Keys
    <3>2. CASE j = k
      <4>1. BehindChain(r.inner)
        BY <1>c, <1>t, <2>2 DEF CapsuleBehind
      <4>2. BehindChain(w.inner)
        BY <2>2, <2>6, <4>1 DEF BehindChain, Writable, Keys
      <4> QED
        BY <2>1, <2>2, <2>4, <2>5, <3>2, <4>2 DEF BehindChain, Keys
    <3> QED
      BY <3>1, <3>2
  <2>8. FetchAhead'
    <3>1. phase # "fetch"
      BY <2>1 DEF TypeInv, WritersInPhase
    <3> QED
      BY <1>c, <2>1, <3>1 DEF FetchAhead, Unpersisted, BehindChain, Keys
  <2>9. ASSUME NEW p \in Obligations PROVE UpdateAhead(p)'
    <3>0. MarketOf[p] \in Markets /\ UpdateAhead(p)
      BY <1>c, MarketsAssumption DEF UpdatesAhead
    <3>1. CASE p = o
      BY <1>t, <2>1, <2>2, <3>1 DEF UpdateAhead, Active
    <3>2. CASE p # o /\ MarketOf[p] # k
      BY <1>t, <2>1, <2>5, <3>0, <3>2, UpdateAheadFrame DEF Active
    <3>3. CASE p # o /\ MarketOf[p] = k
      <4>1. writer'[p] = writer[p] /\ capsule'[MarketOf[p]] = w
        BY <1>t, <2>1, <2>5, <3>3
      <4>2. Active(p) => p \in Keys(w.inner) /\ w.initialized /\ w # NoMarket
        BY <2>4, <2>6, <3>0, <3>3, NoneAssumption DEF UpdateAhead
      <4>3. \A x : Writable(p, x) => Writable(p, x)'
        BY <2>1, <2>6, <3>3, <4>1 DEF Writable
      <4> QED
        BY <2>1, <3>0, <4>1, <4>2, <4>3 DEF UpdateAhead, Active, Keys, Writable
    <3> QED
      BY <3>1, <3>2, <3>3
  <2> QED
    BY <2>7, <2>8, <2>9 DEF CopyInv, UpdatesAhead
<1> QED
  BY <1>2, <1>3, <1>4, <1>5 DEF UpdateStep, LiquidationStep

(* The chain, and a process that has ended, leave the copies alone. *)
LEMMA FrameStepCopy ==
    ASSUME TypeInv, TypeInv', CopyInv, ChainGrows, ChainStep \/ UNCHANGED vars PROVE CopyInv'
<1>1. UNCHANGED <<phase, at, capsule, fetch, persist, refresh, update, writer>>
  BY DEF ChainStep, MovePrice, RefreshReserve, ChangeObligation, AccountCreated, Land,
     Drop, BotUnchanged, vars, mainVars, taskVars
<1>2. \A m \in Markets : Unpersisted(m)' => Unpersisted(m)
  BY <1>1 DEF Unpersisted, Listed
<1> QED
  BY <1>1, <1>2, CapsuleBehindFrame, FetchAheadFrame, UpdatesAheadFrame DEF CopyInv

LEMMA CopyInvInvariant == Spec => []CopyInv
<1>1. TypeInv /\ TypeInv' /\ PhaseInv /\ CopyInv /\ [Next]_vars => CopyInv'
  BY StepGrows, MainStepCopy, FetchStepCopy, UpdateStepCopy, FrameStepCopy
  DEF Next, BotStep, Stopped
<1> QED
  BY <1>1, InitCopyInv, TypeInvInvariant, PhaseInvInvariant, PTL DEF Spec

(* No step puts an older state of an obligation into the capsule. *)
LEMMA CapsuleAdvances ==
    ASSUME TypeInv, TypeInv', PhaseInv, CopyInv, Next,
           NEW o \in Obligations, capsule[MarketOf[o]] # NoMarket
    PROVE  VersionOf(capsule'[MarketOf[o]].inner.obligations[o])
             >= VersionOf(capsule[MarketOf[o]].inner.obligations[o])
<1> DEFINE k == MarketOf[o]
           x == capsule[k].inner.obligations[o]
<1>t. /\ capsule \in [Markets -> Retriever \cup {NoMarket}] /\ k \in Markets
      /\ fetch \in [Markets -> FetchTask]
      /\ writer \in [Obligations -> Obl \cup {NoObl}]
  BY MarketsAssumption DEF TypeInv, TypeOK, TaskType
<1>x. x \in Obl \cup {NoObl} /\ capsule[k].inner \in MarketData /\ capsule[k] \in Retriever
  BY <1>t, CapsuleParts, DataParts
<1>n. \A y \in Obl \cup {NoObl} : VersionOf(y) \in Nat
  BY VersionsAre
<1>0. capsule'[k] = capsule[k] => VersionOf(capsule'[k].inner.obligations[o]) >= VersionOf(x)
  BY <1>x, <1>n
<1>1. ASSUME NEW m \in Markets, UpdateInitially(m)
      PROVE  capsule'[k] = capsule[k]
  BY <1>1, <1>t DEF UpdateInitially
<1>2. ASSUME NEW m \in Markets, PersistMarket(m)
      PROVE  VersionOf(capsule'[k].inner.obligations[o]) >= VersionOf(x)
  <2>1. /\ m \in persist /\ phase # "dead"
        /\ capsule' = [capsule EXCEPT ![m] = [inner |-> fetch[m].data, initialized |-> TRUE]]
    BY <1>2 DEF PersistMarket, Running
  <2>2. CASE k # m
    BY <1>0, <1>t, <2>1, <2>2
  <2>3. CASE k = m
    <3> DEFINE y == fetch[m].data.obligations[o]
    <3>1. capsule'[k].inner.obligations[o] = y
      BY <1>t, <2>1, <2>3
    <3>2. fetch[m].data \in MarketData /\ y \in Obl \cup {NoObl}
      BY FetchParts, DataParts
    <3>3. CASE x = NoObl
      BY <1>n, <3>1, <3>2, <3>3, VersionsAre
    <3>4. CASE x # NoObl
      <4>1. o \in Keys(capsule[k].inner) /\ capsule[k].initialized
        BY <1>t, <3>4 DEF Keys, CopyInv, CapsuleBehind
      <4>2. phase = "fetch" /\ fetch[m].pc = "done"
        BY <2>1 DEF PhaseInv, FetchTasks
      <4>3. Unpersisted(m) /\ fetch[m].unread = {}
        BY <2>1, <4>2 DEF Unpersisted, CopyInv, FetchAhead
      <4>4. Supersedes(fetch[m], capsule[k])
        BY <2>3, <4>3 DEF CopyInv, FetchAhead
      <4>5. o \in Keys(fetch[m].data) /\ x.version <= y.version
        BY <4>1, <4>3, <4>4 DEF Supersedes
      <4>6. y \in Obl /\ x \in Obl
        BY <1>x, <3>2, <3>4, <4>5 DEF Keys
      <4> QED
        BY <3>1, <4>5, <4>6, VersionsAre
    <3> QED
      BY <3>3, <3>4
  <2> QED
    BY <2>2, <2>3
<1>3. ASSUME NEW p \in Obligations, WriteObligation(p)
      PROVE  VersionOf(capsule'[k].inner.obligations[o]) >= VersionOf(x)
  <2> DEFINE w == [capsule[MarketOf[p]] EXCEPT !.inner.obligations[p] = writer[p]]
  <2>1. writer[p] # NoObl /\ capsule' = [capsule EXCEPT ![MarketOf[p]] = w]
    BY <1>3 DEF WriteObligation
  <2>2. CASE MarketOf[p] # k
    BY <1>0, <1>t, <2>1, <2>2
  <2>3. CASE MarketOf[p] = k
    <3>1. w.inner.obligations = [capsule[k].inner.obligations EXCEPT ![p] = writer[p]]
      BY <1>x, <2>3 DEF Retriever, MarketData
    <3>2. capsule'[k] = w
      BY <1>t, <2>1, <2>3
    <3> HIDE DEF w
    <3>3. CASE p # o
      <4>1. capsule'[k].inner.obligations[o] = x
        BY <1>x, <3>1, <3>2, <3>3, DataParts
      <4> QED
        BY <1>n, <1>x, <4>1
    <3>4. CASE p = o
      <4>1. capsule'[k].inner.obligations[o] = writer[o]
        BY <1>x, <3>1, <3>2, <3>4, DataParts
      <4>2. Writable(o, writer[o]) /\ o \in Keys(capsule[k].inner)
        BY <2>1, <3>4 DEF CopyInv, UpdatesAhead, UpdateAhead, Active
      <4>3. writer[o] \in Obl /\ x \in Obl /\ writer[o].version >= x.version
        BY <1>t, <1>x, <4>2 DEF Writable, Keys
      <4> QED
        BY <4>1, <4>3, VersionsAre
    <3> QED
      BY <3>3, <3>4
  <2> QED
    BY <2>2, <2>3
<1>4. CASE \/ \E m \in Markets : UpdateInitially(m) \/ PersistMarket(m)
           \/ \E p \in Obligations : WriteObligation(p)
  BY <1>0, <1>1, <1>2, <1>3, <1>4
<1>5. CASE ~ \/ \E m \in Markets : UpdateInitially(m) \/ PersistMarket(m)
             \/ \E p \in Obligations : WriteObligation(p)
  <2>1. UNCHANGED capsule
    BY <1>5 DEF Next, BotStep, ChainStep, Stopped, vars, MainStep, LoadConfig, ConfigFails,
       JoinBoot, BeginIteration, AwaitFetch, JoinPersist, SpawnMarket, AwaitNext,
       AwaitUpdate, NextMarket, Loop, Return, FetchStep, FetchStart, FetchReserves,
       FetchOracle, GetObligations, UpdateObligation, FetchReturn, MarketReturn,
       FetchUnchanged, UpdateStep, RefreshObligation, SpawnUpdate, GetAccount,
       CreateAccount, ReadWallet, SubstituteCollateral, SubstituteLiquidity, Substitute,
       SignTransaction, SendTransaction, RetrySend, GetObligation, UpdateUnchanged,
       MovePrice, RefreshReserve, ChangeObligation, AccountCreated, Land, Drop,
       BotUnchanged
  <2> QED
    BY <1>0, <2>1
<1> QED
  BY <1>4, <1>5

(* Whatever the interleaving of the tasks and of the chain with them, for    *)
(* any markets and obligations and however many calls fail, neither          *)
(* update_market_data_for nor update_distinct_obligation_for replaces an     *)
(* obligation in the capsule by an older state of its account: the fetch     *)
(* that is persisted read every key the capsule had, later than it was       *)
(* written, and what a writer task holds was read later than the fetch.      *)
THEOREM CapsuleMovesForward == Spec => CapsuleNeverRegresses
<1>1. TypeInv /\ TypeInv' /\ PhaseInv /\ CopyInv /\ [Next]_vars =>
        [\A o \in Obligations :
           capsule[MarketOf[o]] # NoMarket =>
             VersionOf(capsule'[MarketOf[o]].inner.obligations[o])
               >= VersionOf(capsule[MarketOf[o]].inner.obligations[o])]_vars
  BY CapsuleAdvances
<1> QED
  BY <1>1, CopyInvInvariant, TypeInvInvariant, PhaseInvInvariant, PTL
  DEF Spec, CapsuleNeverRegresses

-----------------------------------------------------------------------------
(* The fourth layer: decisions rest on data of their own iteration. *)

NoNewTx == \A s \in TxSlots, o \in Obligations : CurrentTx(s, o)' => CurrentTx(s, o)

LEMMA VersionsGrow ==
    ASSUME TypeInv, TypeInv', ChainGrows
    PROVE  /\ \A o \in Obligations : /\ VersionOf(chainObl[o]) \in Nat
                                     /\ VersionOf(chainObl'[o]) \in Nat
                                     /\ VersionOf(chainObl'[o]) >= VersionOf(chainObl[o])
           /\ \A m \in Markets : /\ reserve[m].version \in Nat
                                 /\ reserve'[m].version \in Nat
                                 /\ reserve'[m].version >= reserve[m].version
<1>1. chainObl' \in [Obligations -> Obl \cup {NoObl}] /\ reserve' \in [Markets -> Rsv]
  BY DEF TypeInv, TypeOK, ChainType
<1>2. ASSUME NEW o \in Obligations
      PROVE  /\ VersionOf(chainObl[o]) \in Nat /\ VersionOf(chainObl'[o]) \in Nat
             /\ VersionOf(chainObl'[o]) >= VersionOf(chainObl[o])
  <2>1. CASE chainObl[o] = NoObl
    BY <1>1, <2>1, VersionsAre
  <2>2. CASE chainObl[o] # NoObl
    BY <1>1, <2>2, ChainParts, VersionsAre DEF ChainGrows
  <2> QED
    BY <2>1, <2>2
<1> QED
  BY <1>1, <1>2, ChainParts, VersionsAre DEF ChainGrows

LEMMA AsOfParts ==
    ASSUME TypeInv
    PROVE  /\ \A o \in Obligations : asOf.obl[o] \in Nat
           /\ \A m \in Markets : asOf.rsv[m] \in Nat
  BY DEF TypeInv, TypeOK

LEMMA AsOfFrame ==
    ASSUME TypeInv, TypeInv', ChainGrows, AsOfBehind, UNCHANGED asOf PROVE AsOfBehind'
  BY VersionsGrow, AsOfParts DEF AsOfBehind

LEMMA FreshDataFrame ==
    ASSUME FreshData, UNCHANGED asOf,
           phase' \notin {"fetch", "spawn"} \/ UNCHANGED <<phase, at, persist, capsule, fetch>>
    PROVE  FreshData'
  BY DEF FreshData, Fresh, Keys, Listed

(* A step that takes no decision and signs nothing. *)
LEMMA DecisionFrame ==
    ASSUME RefreshOnFresh, SignedOnce, DecisionsAreFresh, OneTransactionPerDecision,
           UNCHANGED <<asOf, view>>, NoNewTx,
           \A o \in Obligations :
             /\ refresh'[o] \in {"idle", refresh[o]}
             /\ update'[o].pc \in PreSign => update[o].pc \in PreSign
             /\ Working(o)' => Working(o),
           \/ UNCHANGED <<phase, at>>
           \/ phase' \notin {"config", "boot", "fetch", "spawn"}
           \/ phase \in {"config", "boot", "fetch"}
    PROVE  RefreshOnFresh' /\ SignedOnce' /\ DecisionsAreFresh' /\ OneTransactionPerDecision'
<1>1. RefreshOnFresh'
  BY DEF RefreshOnFresh, Fresh, Keys, Underwater
<1>2. SignedOnce'
  BY DEF SignedOnce, NoNewTx, PreSign, Listed
<1>3. DecisionsAreFresh'
  BY DEF DecisionsAreFresh, NoNewTx, Keys, Underwater
<1>4. OneTransactionPerDecision'
  BY DEF OneTransactionPerDecision, NoNewTx
<1> QED
  BY <1>1, <1>2, <1>3, <1>4

LEMMA FreshFrame ==
    ASSUME TypeInv, TypeInv', ChainGrows, FreshInv, UNCHANGED <<asOf, view>>, NoNewTx,
           \A o \in Obligations :
             /\ refresh'[o] \in {"idle", refresh[o]}
             /\ update'[o].pc \in PreSign => update[o].pc \in PreSign
             /\ Working(o)' => Working(o),
           \/ UNCHANGED <<phase, at, persist, capsule, fetch>>
           \/ UNCHANGED phase /\ phase \notin {"fetch", "spawn"}
           \/ phase' \notin {"config", "boot", "fetch", "spawn"}
           \/ phase = "config" /\ phase' = "boot"
    PROVE  FreshInv'
<1>1. AsOfBehind'
  BY AsOfFrame DEF FreshInv
<1>2. FreshData'
  BY FreshDataFrame DEF FreshInv
<1>3. SignedOnce' /\ RefreshOnFresh' /\ DecisionsAreFresh' /\ OneTransactionPerDecision'
  <2>1. CASE UNCHANGED phase /\ phase \notin {"fetch", "spawn"}
    <3>1. SignedOnce'
      BY <2>1 DEF FreshInv, SignedOnce, NoNewTx, PreSign
    <3>2. RefreshOnFresh' /\ DecisionsAreFresh' /\ OneTransactionPerDecision'
      BY DEF FreshInv, RefreshOnFresh, DecisionsAreFresh, OneTransactionPerDecision,
         NoNewTx, Fresh, Keys, Underwater
    <3> QED
      BY <3>1, <3>2
  <2>2. CASE ~(UNCHANGED phase /\ phase \notin {"fetch", "spawn"})
    BY <2>2, DecisionFrame DEF FreshInv
  <2> QED
    BY <2>1, <2>2
<1> QED
  BY <1>1, <1>2, <1>3 DEF FreshInv

LEMMA PoolKept == ASSUME UNCHANGED pool PROVE NoNewTx
  BY DEF NoNewTx, CurrentTx

LEMMA InitFreshInv == Init => FreshInv
<1> SUFFICES ASSUME Init PROVE FreshInv
  OBVIOUS
<1>1. AsOfBehind
  <2>1. ASSUME NEW o \in Obligations PROVE VersionOf(chainObl[o]) \in Nat
    <3>1. chainObl[o] \in Obl \cup {NoObl}
      BY InitTypeInv DEF TypeInv, TypeOK, ChainType
    <3> QED
      BY <3>1, VersionsAre
  <2> QED
    BY <2>1 DEF Init, AsOfBehind
<1>2. FreshData /\ RefreshOnFresh
  BY DEF Init, FreshData, RefreshOnFresh
<1>3. SignedOnce /\ OneTransactionPerDecision
  BY DEF Init, SignedOnce, OneTransactionPerDecision, CurrentTx
<1>4. DecisionsAreFresh
  BY DEF Init, DecisionsAreFresh, CurrentTx, Working, IdleUpdate
<1> QED
  BY <1>1, <1>2, <1>3, <1>4 DEF FreshInv

(* An iteration starts from nothing. *)
LEMMA BeginFresh ==
    ASSUME TypeInv, TypeInv', PhaseInv, ChainGrows, FreshInv, BeginIteration,
           phase \in {"boot", "drain"}
    PROVE  FreshInv'
<1>1. \A o \in Obligations : refresh'[o] = "idle" /\ update'[o].pc = "idle"
  <2>1. ASSUME NEW o \in Obligations PROVE market[MarketOf[o]] = "idle"
    BY MarketsAssumption DEF PhaseInv, MarketTasks
  <2> QED
    BY <2>1 DEF PhaseInv, ObligationTasks, BeginIteration
<1>2. \A s \in TxSlots, o \in Obligations : ~CurrentTx(s, o)'
  <2> SUFFICES ASSUME NEW s \in TxSlots, NEW o \in Obligations, CurrentTx(s, o)' PROVE FALSE
    OBVIOUS
  <2>1. pool'[s] = IF pool[s] = NoTx THEN NoTx ELSE [pool[s] EXCEPT !.current = FALSE]
    BY DEF BeginIteration
  <2>2. pool[s] # NoTx => pool[s] \in Tx
    BY DEF TypeInv, TypeOK, ChainType
  <2>3. pool'[s] # NoTx /\ pool'[s].current
    BY DEF CurrentTx
  <2> QED
    BY <2>1, <2>2, <2>3 DEF Tx
<1>3. /\ phase' = "fetch" /\ at' = 1
      /\ \A m \in Markets : fetch'[m].pc = "start"
  BY DEF BeginIteration, IdleFetch
<1>4. AsOfBehind'
  <2>1. /\ \A o \in Obligations : asOf'.obl[o] = VersionOf(chainObl[o])
        /\ \A m \in Markets : asOf'.rsv[m] = VersionOf(reserve[m])
    BY DEF BeginIteration
  <2>2. \A m \in Markets : VersionOf(reserve[m]) = reserve[m].version
    BY ChainParts, VersionsAre
  <2> QED
    BY <2>1, <2>2, VersionsGrow DEF AsOfBehind
<1>5. FreshData'
  <2>1. Listed(1, 0) = {}
    BY DEF Listed
  <2>2. Listed(1, at - 1)' = {}
    BY <1>3, <2>1 DEF Listed
  <2> QED
    BY <1>3, <2>2 DEF FreshData
<1>6. RefreshOnFresh' /\ SignedOnce' /\ OneTransactionPerDecision'
  BY <1>1, <1>2 DEF RefreshOnFresh, SignedOnce, OneTransactionPerDecision
<1>7. DecisionsAreFresh'
  BY <1>1, <1>2 DEF DecisionsAreFresh, Working
<1> QED
  BY <1>4, <1>5, <1>6, <1>7 DEF FreshInv

(* What the main task does. *)
LEMMA MainStepFresh ==
    ASSUME TypeInv, TypeInv', PhaseInv, CopyInv, ChainGrows, FreshInv,
           MainStep \/ ConfigFails
    PROVE  FreshInv'
<1>t. /\ update \in [Obligations -> UpdateTask]
      /\ at \in 1..(Len(MarketList) + 1) /\ Len(MarketList) \in Nat
  BY ListedMarkets DEF TypeInv, TypeOK, TaskType, MainType
<1>1. CASE \/ LoadConfig \/ ConfigFails \/ Return \/ AwaitNext \/ NextMarket
  <2>1. /\ UNCHANGED <<asOf, view, pool, refresh, update>>
        /\ \/ phase = "config" /\ phase' = "boot"
           \/ phase' \notin {"config", "boot", "fetch", "spawn"}
    BY <1>1 DEF LoadConfig, ConfigFails, Return, AwaitNext, NextMarket, taskVars, chainVars
  <2> QED
    BY <2>1, FreshFrame, PoolKept DEF Working
<1>2. CASE JoinBoot \/ Loop
  BY <1>2, BeginFresh DEF JoinBoot, Loop
<1>3. CASE AwaitFetch
  <2>1. UNCHANGED <<asOf, view, pool, refresh, update, capsule, fetch>>
    BY <1>3 DEF AwaitFetch, chainVars
  <2>2. CASE phase' = "dead"
    BY <2>1, <2>2, FreshFrame, PoolKept DEF Working
  <2>3. CASE phase' # "dead"
    <3> DEFINE m == MarketList[at]
    <3>1. /\ phase = "fetch" /\ phase' = "fetch" /\ at \in 1..Len(MarketList)
          /\ persist' = persist \cup {m} /\ at' - 1 = at
      BY <1>3, <1>t, <2>3 DEF AwaitFetch
    <3>2. Listed(1, at) = Listed(1, at - 1) \cup {m}
      BY <3>1, ListedFacts
    <3>3. Listed(1, at - 1)' \ persist' \subseteq Listed(1, at - 1) \ persist
      BY <3>1, <3>2 DEF Listed
    <3>4. FreshData'
      BY <2>1, <3>1, <3>3 DEF FreshInv, FreshData, Fresh, Keys
    <3>5. AsOfBehind'
      BY <2>1, AsOfFrame DEF FreshInv
    <3> QED
      BY <2>1, <3>1, <3>4, <3>5, DecisionFrame, PoolKept DEF FreshInv, Working
  <2> QED
    BY <2>2, <2>3
<1>4. CASE JoinPersist
  <2>1. /\ UNCHANGED <<asOf, view, pool, refresh, update, capsule, fetch>>
        /\ phase = "fetch" /\ phase' = "spawn" /\ persist = {} /\ at > Len(MarketList)
    BY <1>4 DEF JoinPersist, chainVars, taskVars, PersistJoined
  <2>2. at - 1 = Len(MarketList) /\ Listed(1, at - 1) = Markets
    <3>1. at - 1 = Len(MarketList)
      BY <1>t, <2>1
    <3> QED
      BY <3>1, ListedFacts
  <2>3. FreshData'
    BY <2>1, <2>2 DEF FreshInv, FreshData, Fresh, Keys
  <2>4. AsOfBehind'
    BY <2>1, AsOfFrame DEF FreshInv
  <2> QED
    BY <2>1, <2>3, <2>4, DecisionFrame, PoolKept DEF FreshInv, Working
<1>5. CASE AwaitUpdate
  <2>1. UNCHANGED <<asOf, view, pool, refresh>> /\ phase' \notin {"config", "boot", "fetch", "spawn"}
    BY <1>5 DEF AwaitUpdate, chainVars
  <2>2. \A o \in Obligations : update'[o] = update[o] \/ update'[o].pc = "idle"
    BY <1>5, <1>t DEF AwaitUpdate, IdleUpdate
  <2>3. \A o \in Obligations : /\ update'[o].pc \in PreSign => update[o].pc \in PreSign
                               /\ Working(o)' => Working(o)
    BY <2>2 DEF PreSign, Working
  <2> QED
    BY <2>1, <2>3, FreshFrame, PoolKept
<1>6. CASE SpawnMarket
  <2> DEFINE m == MarketList[at]
             data == capsule[m].inner
  <2>1. /\ at \in 1..Len(MarketList) /\ m \in Markets /\ phase = "spawn"
        /\ m \notin Listed(1, at - 1) /\ Listed(1, at) = Listed(1, at - 1) \cup {m}
        /\ capsule[m] # NoMarket
    BY <1>6, <1>t, ListedMarkets, ListedFacts
    DEF SpawnMarket, TypeInv, LoopBounds, CapsuleReady
  <2>2. /\ UNCHANGED <<asOf, pool, update, capsule, fetch, persist>>
        /\ view' = [view EXCEPT ![m] = data]
        /\ \A o \in Obligations :
             refresh'[o] = IF o \in Keys(data) THEN "running" ELSE refresh[o]
        /\ \/ phase' = "collect"
           \/ phase' = "spawn" /\ at' - 1 = at
    BY <1>6, <2>1 DEF SpawnMarket, chainVars
  <2>3. /\ view'[m] = data
        /\ \A k \in Markets \ {m} : view'[k] = view[k]
    BY <2>1, <2>2 DEF TypeInv, TypeOK, TaskType
  <2>4. Fresh(data, m) /\ market[m] = "idle"
    BY <2>1 DEF FreshInv, FreshData, PhaseInv, MarketTasks
  <2>5. \A o \in Obligations : MarketOf[o] = m => refresh[o] = "idle" /\ update[o].pc = "idle"
    BY <2>4 DEF PhaseInv, ObligationTasks
  <2>6. \A o \in Keys(data) : o \in Obligations /\ MarketOf[o] = m
    BY <2>1 DEF PhaseInv, KeysLocal, ObligationsOf
  <2>7. \A s \in TxSlots, o \in Obligations : CurrentTx(s, o) => MarketOf[o] \in Listed(1, at - 1)
    BY <2>1 DEF FreshInv, SignedOnce
  <2>8. AsOfBehind'
    BY <2>2, AsOfFrame DEF FreshInv
  <2>9. FreshData'
    BY <2>1, <2>2 DEF FreshInv, FreshData, Fresh, Keys
  <2>10. RefreshOnFresh'
    <3> SUFFICES ASSUME NEW o \in Obligations, refresh'[o] # "idle"
                 PROVE  /\ o \in Keys(view[MarketOf[o]])'
                        /\ Fresh(view[MarketOf[o]], MarketOf[o])'
                        /\ refresh'[o] = "some" => Underwater(view[MarketOf[o]], o)'
      BY DEF RefreshOnFresh
    <3>0. MarketOf[o] \in Markets
      BY MarketsAssumption
    <3>1. CASE o \in Keys(data)
      <4>1. view'[MarketOf[o]] = data /\ MarketOf[o] = m /\ refresh'[o] = "running"
        BY <2>2, <2>3, <2>6, <3>1
      <4> HIDE DEF data, m
      <4> QED
        BY <2>2, <2>4, <3>1, <4>1 DEF Keys, Fresh
    <3>2. CASE o \notin Keys(data)
      <4>1. refresh[o] # "idle" /\ refresh'[o] = refresh[o] /\ MarketOf[o] # m
        BY <2>2, <2>5, <3>2
      <4>2. view'[MarketOf[o]] = view[MarketOf[o]]
        BY <2>3, <3>0, <4>1
      <4> QED
        BY <2>2, <4>1, <4>2 DEF FreshInv, RefreshOnFresh, Keys, Fresh, Underwater
    <3> QED
      BY <3>1, <3>2
  <2>11. SignedOnce'
    <3> SUFFICES ASSUME NEW o \in Obligations, NEW s \in TxSlots, CurrentTx(s, o)'
                 PROVE  /\ refresh'[o] = "idle"
                        /\ update'[o].pc \notin PreSign
                        /\ phase' = "spawn" => MarketOf[o] \in Listed(1, at - 1)'
      BY <2>2 DEF SignedOnce, PreSign
    <3>1. CurrentTx(s, o) /\ MarketOf[o] \in Listed(1, at - 1)
      BY <2>2, <2>7 DEF CurrentTx
    <3>2. o \notin Keys(data)
      BY <2>1, <2>6, <3>1
    <3>3. phase' = "spawn" => Listed(1, at - 1)' = Listed(1, at)
      BY <2>2 DEF Listed
    <3> QED
      BY <2>1, <2>2, <3>1, <3>2, <3>3 DEF FreshInv, SignedOnce, PreSign
  <2>12. DecisionsAreFresh'
    <3> SUFFICES ASSUME NEW o \in Obligations, (Working(o) \/ \E s \in TxSlots : CurrentTx(s, o))'
                 PROVE  /\ o \in Keys(view[MarketOf[o]])'
                        /\ Underwater(view[MarketOf[o]], o)'
                        /\ view'[MarketOf[o]].obligations[o].version >= asOf'.obl[o]
                        /\ view'[MarketOf[o]].reserves.version >= asOf'.rsv[MarketOf[o]]
      BY DEF DecisionsAreFresh
    <3>1. Working(o) \/ \E s \in TxSlots : CurrentTx(s, o)
      BY <2>2 DEF Working, CurrentTx
    <3>2. MarketOf[o] \in Markets /\ MarketOf[o] # m
      BY <2>1, <2>5, <2>7, <3>1, MarketsAssumption DEF Working
    <3>3. view'[MarketOf[o]] = view[MarketOf[o]]
      BY <2>3, <3>2
    <3> QED
      BY <2>2, <3>1, <3>3 DEF FreshInv, DecisionsAreFresh, Keys, Underwater
  <2>13. OneTransactionPerDecision'
    BY <2>2 DEF FreshInv, OneTransactionPerDecision, CurrentTx
  <2> QED
    BY <2>8, <2>9, <2>10, <2>11, <2>12, <2>13 DEF FreshInv
<1> QED
  BY <1>1, <1>2, <1>3, <1>4, <1>5, <1>6 DEF MainStep

(* What a fetch task has read is what it had, or what the chain has now. *)
LEMMA FetchTaskFresh ==
    ASSUME TypeInv, TypeInv', PhaseInv, ChainGrows, FreshInv, NEW m \in Markets,
           FetchUnchanged, Running, NEW task \in FetchTask,
           fetch' = [fetch EXCEPT ![m] = task],
           task.data = EmptyData \/ fetch[m].pc = "running",
           task.data = EmptyData \/
             /\ \A o \in Keys(task.data) :
                  task.data.obligations[o] \in {fetch[m].data.obligations[o], chainObl[o]}
             /\ task.data.reserves \in {fetch[m].data.reserves, reserve[m]}
    PROVE  FreshInv'
<1>1. UNCHANGED <<phase, at, capsule, persist, view, refresh, update, writer, pool, asOf,
                  chainObl, reserve>>
  BY DEF FetchUnchanged, mainVars, chainVars
<1>2. /\ fetch'[m] = task
      /\ \A k \in Markets \ {m} : fetch'[k] = fetch[k]
  BY DEF TypeInv, TypeOK, TaskType
<1>3. phase = "fetch" => Fresh(task.data, m)
  <2> SUFFICES ASSUME phase = "fetch" PROVE Fresh(task.data, m)
    OBVIOUS
  <2>1. CASE task.data = EmptyData
    <3>1. EmptyData.reserves = NoRsv
      BY DEF EmptyData
    <3> QED
      BY <2>1, <3>1, BlankKeys DEF Fresh
  <2>2. CASE task.data # EmptyData
    <3>1. Fresh(fetch[m].data, m)
      BY <2>2 DEF FreshInv, FreshData
    <3>2. task.data \in MarketData /\ fetch[m].data \in MarketData
      BY FetchParts DEF FetchTask
    <3>3. ASSUME NEW o \in Keys(task.data) PROVE task.data.obligations[o].version >= asOf.obl[o]
      <4>1. o \in Obligations /\ task.data.obligations[o] # NoObl
        BY DEF Keys
      <4>2. CASE task.data.obligations[o] = fetch[m].data.obligations[o]
        BY <3>1, <4>1, <4>2 DEF Fresh, Keys
      <4>3. CASE task.data.obligations[o] = chainObl[o]
        <5>1. VersionOf(chainObl[o]) = chainObl[o].version
          BY <4>1, <4>3, ChainParts, VersionsAre
        <5>2. asOf.obl[o] <= VersionOf(chainObl[o]) /\ asOf.obl[o] \in Nat
          BY <4>1, AsOfParts DEF FreshInv, AsOfBehind
        <5>3. chainObl[o].version \in Nat
          BY <4>1, <4>3, ChainParts
        <5> QED
          BY <4>3, <5>1, <5>2, <5>3
      <4> QED
        BY <2>2, <4>2, <4>3
    <3>4. ASSUME task.data.reserves # NoRsv PROVE task.data.reserves.version >= asOf.rsv[m]
      <4>1. CASE task.data.reserves = fetch[m].data.reserves
        BY <3>1, <3>4, <4>1 DEF Fresh
      <4>2. CASE task.data.reserves = reserve[m]
        BY <4>2, ChainParts, AsOfParts DEF FreshInv, AsOfBehind
      <4> QED
        BY <2>2, <4>1, <4>2
    <3> QED
      BY <3>3, <3>4 DEF Fresh
  <2> QED
    BY <2>1, <2>2
<1>4. FreshData'
  <2>1. ASSUME NEW k \in Markets, phase = "fetch", fetch'[k].pc \in {"running", "done"}
        PROVE  Fresh(fetch[k].data, k)'
    <3>1. CASE k = m
      BY <1>1, <1>2, <1>3, <2>1, <3>1 DEF Fresh, Keys
    <3>2. CASE k # m
      <4>1. fetch'[k] = fetch[k]
        BY <1>2, <3>2
      <4> QED
        BY <1>1, <2>1, <4>1 DEF FreshInv, FreshData, Fresh, Keys
    <3> QED
      BY <3>1, <3>2
  <2> QED
    BY <1>1, <2>1 DEF FreshInv, FreshData, Fresh, Keys, Listed
<1>5. AsOfBehind'
  BY <1>1, AsOfFrame DEF FreshInv
<1> QED
  BY <1>1, <1>4, <1>5, DecisionFrame, PoolKept DEF FreshInv, Working

(* What the fetch, persist and market tasks do. *)
LEMMA FetchStepFresh ==
    ASSUME TypeInv, TypeInv', PhaseInv, CopyInv, ChainGrows, FreshInv,
           NEW m \in Markets, FetchStep(m)
    PROVE  FreshInv'
<1>t. /\ fetch \in [Markets -> FetchTask] /\ fetch[m] \in FetchTask
      /\ fetch[m].data \in MarketData
      /\ capsule \in [Markets -> Retriever \cup {NoMarket}]
      /\ fetch[m].data.obligations \in [Obligations -> Obl \cup {NoObl}]
      /\ fetch[m].unread \subseteq Obligations
  BY FetchParts, DataParts DEF TypeInv, TypeOK, TaskType
<1>0. ASSUME Fetching(m), FetchUnchanged, NEW task \in FetchTask,
             fetch' = [fetch EXCEPT ![m] = task],
             \A o \in Keys(task.data) :
               task.data.obligations[o] \in {fetch[m].data.obligations[o], chainObl[o]},
             task.data.reserves \in {fetch[m].data.reserves, reserve[m]}
      PROVE  FreshInv'
  BY <1>0, FetchTaskFresh DEF Fetching
<1>1. CASE UpdateInitially(m) \/ MarketReturn(m)
  <2>1. /\ UNCHANGED <<asOf, view, pool, refresh, update, phase, at, persist, fetch>>
        /\ UNCHANGED capsule \/ phase \notin {"fetch", "spawn"}
    BY <1>1 DEF UpdateInitially, MarketReturn, mainVars, taskVars, chainVars
  <2> QED
    BY <2>1, FreshFrame, PoolKept DEF Working
<1>2. CASE FetchStart(m)
  <2> DEFINE u == [pc |-> "running",
                   todo |-> {"reserves", "oracle"} \cup
                              (IF capsule[m].initialized THEN {} ELSE {"scan"}),
                   unread |-> IF capsule[m].initialized THEN Keys(capsule[m].inner) ELSE {},
                   data |-> EmptyData]
  <2>1. u \in FetchTask /\ u.data = EmptyData
    BY BlankTypes DEF FetchTask, Keys
  <2>2. fetch' = [fetch EXCEPT ![m] = u] /\ FetchUnchanged /\ Running
    BY <1>2 DEF FetchStart
  <2> HIDE DEF u
  <2> QED
    BY <2>1, <2>2, FetchTaskFresh
<1>3. CASE FetchReserves(m)
  <2> DEFINE u == [fetch[m] EXCEPT !.todo = @ \ {"reserves"}, !.data.reserves = reserve[m]]
             v == [fetch[m] EXCEPT !.todo = @ \ {"reserves"}]
  <2>1. u \in FetchTask /\ v \in FetchTask
    BY FetchParts, ReservesUpdate, TodoUpdate
  <2>2. /\ u.data.obligations = fetch[m].data.obligations /\ u.data.reserves = reserve[m]
        /\ v.data = fetch[m].data
    BY <1>t DEF FetchTask, MarketData
  <2>3. /\ fetch' = [fetch EXCEPT ![m] = u] \/ fetch' = [fetch EXCEPT ![m] = v]
        /\ Fetching(m) /\ FetchUnchanged
    BY <1>3, <1>t DEF FetchReserves
  <2> HIDE DEF u, v
  <2> QED
    BY <1>0, <2>1, <2>2, <2>3
<1>4. CASE FetchOracle(m)
  <2> DEFINE u == [fetch[m] EXCEPT !.todo = @ \ {"oracle"}, !.data.oracle = TRUE]
             v == [fetch[m] EXCEPT !.todo = @ \ {"oracle"}]
             w == [fetch[m] EXCEPT !.pc = "panicked"]
  <2>1. u \in FetchTask /\ v \in FetchTask /\ w \in FetchTask
    BY FetchParts, TodoUpdate
  <2>2. /\ u.data.obligations = fetch[m].data.obligations
        /\ u.data.reserves = fetch[m].data.reserves
        /\ v.data = fetch[m].data /\ w.data = fetch[m].data
    BY <1>t DEF FetchTask, MarketData
  <2>3. /\ \/ fetch' = [fetch EXCEPT ![m] = u] \/ fetch' = [fetch EXCEPT ![m] = v]
           \/ fetch' = [fetch EXCEPT ![m] = w]
        /\ Fetching(m) /\ FetchUnchanged
    BY <1>4, <1>t DEF FetchOracle
  <2> HIDE DEF u, v, w
  <2> QED
    BY <1>0, <2>1, <2>2, <2>3
<1>5. CASE GetObligations(m)
  <2> DEFINE f == [o \in Obligations |-> IF MarketOf[o] = m THEN chainObl[o] ELSE NoObl]
             u == [fetch[m] EXCEPT !.todo = @ \ {"scan"}, !.data.obligations = f]
             v == [fetch[m] EXCEPT !.todo = @ \ {"scan"}]
  <2>1. f \in [Obligations -> Obl \cup {NoObl}]
    BY FetchParts
  <2>2. \A o \in Obligations : f[o] \in {chainObl[o], NoObl}
    OBVIOUS
  <2>3. /\ fetch' = [fetch EXCEPT ![m] = u] \/ fetch' = [fetch EXCEPT ![m] = v]
        /\ Fetching(m) /\ FetchUnchanged
    BY <1>5, <1>t DEF GetObligations
  <2> HIDE DEF f
  <2>4. u \in FetchTask /\ v \in FetchTask
    BY <2>1, FetchParts, ScanUpdate, TodoUpdate
  <2>5. /\ u.data.obligations = f /\ u.data.reserves = fetch[m].data.reserves
        /\ v.data = fetch[m].data
    BY <1>t DEF FetchTask, MarketData
  <2> HIDE DEF u, v
  <2>6. \A o \in Keys(u.data) : u.data.obligations[o] = chainObl[o]
    BY <2>2, <2>5 DEF Keys
  <2> QED
    BY <1>0, <2>3, <2>4, <2>5, <2>6
<1>6. ASSUME NEW o \in Obligations, UpdateObligation(m, o) PROVE FreshInv'
  <2> DEFINE u == [fetch[m] EXCEPT !.unread = @ \ {o}, !.data.obligations[o] = chainObl[o]]
             v == [fetch[m] EXCEPT !.pc = "panicked"]
  <2>1. u \in FetchTask /\ v \in FetchTask
    BY FetchParts, ReadUpdate, TodoUpdate
  <2>2. /\ u.data.obligations = [fetch[m].data.obligations EXCEPT ![o] = chainObl[o]]
        /\ u.data.reserves = fetch[m].data.reserves /\ v.data = fetch[m].data
    BY <1>t DEF FetchTask, MarketData
  <2>3. /\ fetch' = [fetch EXCEPT ![m] = u] \/ fetch' = [fetch EXCEPT ![m] = v]
        /\ Fetching(m) /\ FetchUnchanged
    BY <1>6, <1>t DEF UpdateObligation
  <2> HIDE DEF u, v
  <2>4. \A p \in Keys(u.data) :
          u.data.obligations[p] \in {fetch[m].data.obligations[p], chainObl[p]}
    BY <1>t, <2>2 DEF Keys
  <2> QED
    BY <1>0, <2>1, <2>2, <2>3, <2>4
<1>7. CASE FetchReturn(m)
  <2> DEFINE u == [fetch[m] EXCEPT !.pc = "done"]
  <2>1. u \in FetchTask /\ u.data = fetch[m].data
    BY <1>t DEF FetchTask
  <2>2. fetch' = [fetch EXCEPT ![m] = u] /\ Fetching(m) /\ FetchUnchanged
    BY <1>7, <1>t DEF FetchReturn
  <2> HIDE DEF u
  <2> QED
    BY <1>0, <2>1, <2>2
<1>8. CASE PersistMarket(m)
  <2>1. /\ UNCHANGED <<phase, at, fetch, view, pool, refresh, update, asOf>>
        /\ persist' = persist \ {m} /\ m \in persist /\ phase # "dead"
        /\ capsule' = [capsule EXCEPT ![m] = [inner |-> fetch[m].data, initialized |-> TRUE]]
    BY <1>8 DEF PersistMarket, mainVars, chainVars, Running
  <2>2. phase = "fetch" /\ fetch[m].pc = "done"
    BY <2>1 DEF PhaseInv, FetchTasks
  <2>3. /\ capsule'[m].inner = fetch[m].data
        /\ \A k \in Markets \ {m} : capsule'[k] = capsule[k]
    BY <1>t, <2>1
  <2>4. Fresh(fetch[m].data, m)
    BY <2>2 DEF FreshInv, FreshData
  <2>5. ASSUME NEW k \in Markets, k \in Listed(1, at - 1)' \ persist'
        PROVE  Fresh(capsule[k].inner, k)'
    <3>1. CASE k = m
      BY <2>1, <2>3, <2>4, <3>1 DEF Fresh, Keys
    <3>2. CASE k # m
      <4>1. capsule'[k] = capsule[k] /\ k \in Listed(1, at - 1) \ persist
        BY <2>1, <2>3, <2>5, <3>2 DEF Listed
      <4> QED
        BY <2>1, <2>2, <4>1 DEF FreshInv, FreshData, Fresh, Keys
    <3> QED
      BY <3>1, <3>2
  <2>6. FreshData'
    BY <2>1, <2>2, <2>5 DEF FreshInv, FreshData, Fresh, Keys
  <2>7. AsOfBehind'
    BY <2>1, AsOfFrame DEF FreshInv
  <2> QED
    BY <2>1, <2>6, <2>7, DecisionFrame, PoolKept DEF FreshInv, Working
<1> QED
  BY <1>1, <1>2, <1>3, <1>4, <1>5, <1>6, <1>7, <1>8 DEF FetchStep

(* Only SignTransaction puts a transaction into the pool. *)
LEMMA SendKeeps ==
    ASSUME TypeInv, NEW o \in Obligations, SendTransaction(o) \/ RetrySend(o) PROVE NoNewTx
<1> DEFINE s == update[o].tx
<1>1. s \in TxSlots /\ pool[s] # NoTx
  <2>1. update[o].pc = "send"
    BY DEF SendTransaction, RetrySend, Updating
  <2> QED
    BY <2>1, UpdateParts DEF SlotOwned
<1>2. pool \in [TxSlots -> Tx \cup {NoTx}] /\ pool[s] \in Tx
  BY <1>1 DEF TypeInv, TypeOK, ChainType
<1>3. Receive(pool[s]).obl = pool[s].obl /\ Receive(pool[s]).current = pool[s].current
  BY <1>2 DEF Receive, Tx
<1>4. \E x \in {NoTx, Receive(pool[s])} : pool' = [pool EXCEPT ![s] = x]
  BY DEF SendTransaction, RetrySend
<1> HIDE DEF s
<1> QED
  BY <1>1, <1>2, <1>3, <1>4 DEF NoNewTx, CurrentTx

LEMMA SettleKeeps ==
    ASSUME TypeInv, NEW s \in TxSlots, pool[s] # NoTx, Settle(s) PROVE NoNewTx
<1> DEFINE t == [pool[s] EXCEPT !.st = "settled"]
<1>1. pool \in [TxSlots -> Tx \cup {NoTx}] /\ pool[s] \in Tx
  BY DEF TypeInv, TypeOK, ChainType
<1>2. t.obl = pool[s].obl /\ t.current = pool[s].current
  BY <1>1 DEF Tx
<1>3. \E x \in {NoTx, t} : pool' = [pool EXCEPT ![s] = x]
  BY DEF Settle
<1> HIDE DEF t
<1> QED
  BY <1>1, <1>2, <1>3 DEF NoNewTx, CurrentTx

(* What the refresh, update and writer tasks do. *)
LEMMA UpdateStepFresh ==
    ASSUME TypeInv, TypeInv', PhaseInv, CopyInv, ChainGrows, FreshInv,
           NEW o \in Obligations, UpdateStep(o) \/ RetrySend(o)
    PROVE  FreshInv'
<1>t. /\ update \in [Obligations -> UpdateTask]
      /\ refresh \in [Obligations -> {"idle", "running", "none", "some"}]
      /\ pool \in [TxSlots -> Tx \cup {NoTx}] /\ MarketOf[o] \in Markets
  BY MarketsAssumption DEF TypeInv, TypeOK, TaskType, ChainType
<1>1. CASE RefreshObligation(o)
  <2>1. /\ UNCHANGED <<asOf, view, pool, update, phase, at, persist, capsule, fetch>>
        /\ refresh[o] = "running"
        /\ refresh'[o] = "some" => Underwater(view[MarketOf[o]], o)
        /\ \A p \in Obligations \ {o} : refresh'[p] = refresh[p]
    BY <1>1, <1>t DEF RefreshObligation, mainVars, chainVars
  <2>2. RefreshOnFresh'
    BY <2>1 DEF FreshInv, RefreshOnFresh, Fresh, Keys, Underwater
  <2>3. SignedOnce'
    BY <2>1 DEF FreshInv, SignedOnce, CurrentTx, Listed
  <2>4. DecisionsAreFresh' /\ OneTransactionPerDecision'
    BY <2>1 DEF FreshInv, DecisionsAreFresh, OneTransactionPerDecision, CurrentTx, Working,
       Keys, Underwater
  <2> QED
    BY <2>1, <2>2, <2>3, <2>4, AsOfFrame, FreshDataFrame DEF FreshInv
<1>2. CASE SpawnUpdate(o)
  <2> DEFINE u == [IdleUpdate EXCEPT !.pc = IF refresh[o] = "some" THEN "ata" ELSE "none"]
             data == view[MarketOf[o]]
  <2>1. /\ UNCHANGED <<asOf, view, pool, phase, at, persist, capsule, fetch>>
        /\ refresh[o] # "idle" /\ refresh'[o] = "idle"
        /\ update' = [update EXCEPT ![o] = u]
        /\ \A p \in Obligations \ {o} : refresh'[p] = refresh[p]
    BY <1>2, <1>t DEF SpawnUpdate, mainVars, chainVars
  <2>2. u.pc \in {"ata", "none"} /\ (u.pc = "ata" => refresh[o] = "some")
    BY DEF IdleUpdate
  <2> HIDE DEF u
  <2>3. /\ update'[o].pc \in {"ata", "none"} /\ (update'[o].pc = "ata" => refresh[o] = "some")
        /\ \A p \in Obligations \ {o} : update'[p] = update[p]
    BY <1>t, <2>1, <2>2
  <2>4. \A s \in TxSlots : ~CurrentTx(s, o)
    BY <2>1 DEF FreshInv, SignedOnce
  <2>5. RefreshOnFresh'
    BY <2>1 DEF FreshInv, RefreshOnFresh, Fresh, Keys, Underwater
  <2>6. SignedOnce'
    BY <2>1, <2>3, <2>4 DEF FreshInv, SignedOnce, CurrentTx, Listed
  <2>7. OneTransactionPerDecision'
    BY <2>1 DEF FreshInv, OneTransactionPerDecision, CurrentTx
  <2>8. Working(o)' => /\ o \in Keys(data) /\ Underwater(data, o)
                       /\ data.obligations[o].version >= asOf.obl[o]
                       /\ data.reserves.version >= asOf.rsv[MarketOf[o]]
    BY <2>1, <2>3 DEF FreshInv, RefreshOnFresh, Fresh, Working, Underwater
  <2>9. DecisionsAreFresh'
    BY <2>1, <2>3, <2>4, <2>8 DEF FreshInv, DecisionsAreFresh, CurrentTx, Working,
       Keys, Underwater
  <2> QED
    BY <2>1, <2>5, <2>6, <2>7, <2>9, AsOfFrame, FreshDataFrame DEF FreshInv
<1>3. CASE LiquidationStep(o)
  <2>1. /\ UNCHANGED <<asOf, view, refresh, phase, at, persist, capsule, fetch>>
        /\ update[o].pc # "idle"
        /\ \A p \in Obligations \ {o} : update'[p] = update[p]
    BY <1>3, LiquidationMoves DEF UpdateUnchanged, mainVars
  <2>2. ASSUME NoNewTx PROVE FreshInv'
    <3>1. /\ update'[o].pc \in PreSign => update[o].pc \in PreSign
          /\ Working(o)' => Working(o)
      BY <1>3, LiquidationGoes DEF PreSign, Working
    <3>2. \A p \in Obligations : /\ update'[p].pc \in PreSign => update[p].pc \in PreSign
                                 /\ Working(p)' => Working(p)
      BY <2>1, <3>1 DEF Working
    <3> QED
      BY <2>1, <2>2, <3>2, FreshFrame
  <2>3. CASE UNCHANGED pool \/ SendTransaction(o) \/ RetrySend(o)
    BY <2>2, <2>3, PoolKept, SendKeeps
  <2>4. CASE SignTransaction(o) /\ ~UNCHANGED pool
    <3>1. PICK s \in TxSlots :
            /\ pool[s] = NoTx
            /\ pool' = [pool EXCEPT ![s] = [st |-> "signed", obl |-> o,
                                            amount |-> update[o].amount,
                                            create |-> update[o].create,
                                            current |-> TRUE]]
            /\ update' = [update EXCEPT ![o].pc = "send", ![o].tx = s]
      BY <2>4 DEF SignTransaction
    <3>2. update[o].pc = "sign" /\ update'[o].pc \in {"send", "panicked"}
      <4>1. update[o].pc = "sign"
        BY <2>4 DEF SignTransaction, Updating
      <4> QED
        BY <1>3, <4>1, LiquidationGoes DEF PreSign
    <3>3. \A t \in TxSlots, p \in Obligations :
            CurrentTx(t, p)' => CurrentTx(t, p) \/ (t = s /\ p = o)
      BY <1>t, <3>1 DEF CurrentTx
    <3>4. \A t \in TxSlots : ~CurrentTx(t, o)
      BY <3>2 DEF FreshInv, SignedOnce
    <3>5. /\ refresh[o] = "idle" /\ phase \notin {"config", "boot", "fetch"}
          /\ phase = "spawn" => MarketOf[o] \in Listed(1, at - 1)
      BY <1>t, <3>2 DEF PhaseInv, ObligationTasks, MarketTasks
    <3>6. SignedOnce'
      BY <2>1, <3>2, <3>3, <3>5 DEF FreshInv, SignedOnce, Listed
    <3>7. OneTransactionPerDecision'
      BY <3>3, <3>4 DEF FreshInv, OneTransactionPerDecision
    <3>8. Working(o)
      BY <3>2 DEF Working
    <3>9. \A p \in Obligations :
            (Working(p) \/ \E t \in TxSlots : CurrentTx(t, p))' =>
              Working(p) \/ \E t \in TxSlots : CurrentTx(t, p)
      BY <2>1, <3>3, <3>8 DEF Working
    <3>10. DecisionsAreFresh'
      BY <2>1, <3>9 DEF FreshInv, DecisionsAreFresh, Keys, Underwater
    <3>11. RefreshOnFresh'
      BY <2>1 DEF FreshInv, RefreshOnFresh, Fresh, Keys, Underwater
    <3> QED
      BY <2>1, <3>6, <3>7, <3>10, <3>11, AsOfFrame, FreshDataFrame DEF FreshInv
  <2> QED
    BY <1>3, <2>3, <2>4, LiquidationGoes
<1>4. CASE WriteObligation(o)
  <2>1. /\ UNCHANGED <<asOf, view, pool, refresh, update, phase>>
        /\ phase \notin {"fetch", "spawn"}
    BY <1>4 DEF WriteObligation, mainVars, chainVars, TypeInv, WritersInPhase
  <2> QED
    BY <2>1, FreshFrame, PoolKept DEF Working
<1> QED
  BY <1>1, <1>2, <1>3, <1>4 DEF UpdateStep, LiquidationStep

(* The chain changes none of it, nor does a process that has ended. *)
LEMMA FrameStepFresh ==
    ASSUME TypeInv, TypeInv', ChainGrows, FreshInv, ChainStep \/ UNCHANGED vars PROVE FreshInv'
<1>1. UNCHANGED <<phase, at, capsule, fetch, persist, view, refresh, update, asOf>>
  BY DEF ChainStep, MovePrice, RefreshReserve, ChangeObligation, AccountCreated, Land,
     Drop, BotUnchanged, vars, mainVars, taskVars
<1>2. NoNewTx
  <2>1. UNCHANGED pool \/ \E s \in TxSlots : Settle(s) /\ pool[s] # NoTx
    BY DEF ChainStep, MovePrice, RefreshReserve, ChangeObligation, AccountCreated, Land,
       Drop, vars, chainVars
  <2> QED
    BY <2>1, PoolKept, SettleKeeps
<1> QED
  BY <1>1, <1>2, FreshFrame DEF Working

LEMMA FreshInvInvariant == Spec => []FreshInv
<1>1. TypeInv /\ TypeInv' /\ PhaseInv /\ CopyInv /\ FreshInv /\ [Next]_vars => FreshInv'
  BY StepGrows, MainStepFresh, FetchStepFresh, UpdateStepFresh, FrameStepFresh
  DEF Next, BotStep, Stopped
<1> QED
  BY <1>1, InitFreshInv, TypeInvInvariant, PhaseInvInvariant, CopyInvInvariant, PTL DEF Spec

(* Every liquidation the bot works on, and every transaction it signed in    *)
(* this iteration, is for an obligation that was underwater in the data its  *)
(* market task was given, and that data was read since the iteration began,  *)
(* for any number of markets and obligations, however the tasks interleave   *)
(* and the chain changes, and whichever calls fail: the joins of             *)
(* process_markets leave no way for older data to reach a refresh task.      *)
THEOREM DecisionsRestOnFreshData == Spec => []DecisionsAreFresh
<1>1. FreshInv => DecisionsAreFresh
  BY DEF FreshInv
<1> QED
  BY <1>1, FreshInvInvariant, PTL

(* However often FutureRetry sends it and whatever the node answers, a       *)
(* decision to liquidate has one transaction: it is signed before the first  *)
(* attempt, and no task of the same iteration decides for the obligation     *)
(* again.                                                                    *)
THEOREM DecisionsSignOnce == Spec => []OneTransactionPerDecision
<1>1. FreshInv => OneTransactionPerDecision
  BY DEF FreshInv
<1> QED
  BY <1>1, FreshInvInvariant, PTL

-----------------------------------------------------------------------------
(* The fifth layer: what a panic needs. *)

(* Without a fault a fetch task does not panic. *)
LEMMA FetchPanics ==
    ASSUME TypeInv, NEW m \in Markets, FetchStep(m)
    PROVE  /\ UNCHANGED <<phase, update, accounts>>
           /\ Fault \/ UNCHANGED faults
           /\ Fault \/ \A k \in Markets : fetch'[k].pc = "panicked" => fetch[k].pc = "panicked"
<1>t. /\ fetch \in [Markets -> FetchTask] /\ fetch[m] \in FetchTask
      /\ fetch[m].data \in MarketData
  BY FetchParts DEF TypeInv, TypeOK, TaskType
<1>1. UNCHANGED <<phase, update, accounts>> /\ (Fault \/ UNCHANGED faults)
  BY DEF FetchStep, UpdateInitially, FetchStart, FetchReserves, FetchOracle,
     GetObligations, UpdateObligation, FetchReturn, PersistMarket, MarketReturn,
     FetchUnchanged, chainVars, mainVars, taskVars
<1>2. ASSUME NEW task, task.pc # "panicked", fetch' = [fetch EXCEPT ![m] = task]
      PROVE  \A k \in Markets : fetch'[k].pc = "panicked" => fetch[k].pc = "panicked"
  BY <1>2, <1>t
<1>3. ASSUME ~Fault, ~UNCHANGED fetch
      PROVE  \E task : task.pc # "panicked" /\ fetch' = [fetch EXCEPT ![m] = task]
  <2>1. CASE FetchStart(m)
    <3> DEFINE u == [pc |-> "running",
                     todo |-> {"reserves", "oracle"} \cup
                                (IF capsule[m].initialized THEN {} ELSE {"scan"}),
                     unread |-> IF capsule[m].initialized THEN Keys(capsule[m].inner) ELSE {},
                     data |-> EmptyData]
    <3>1. u.pc # "panicked" /\ fetch' = [fetch EXCEPT ![m] = u]
      BY <2>1 DEF FetchStart
    <3> HIDE DEF u
    <3> QED
      BY <3>1
  <2>2. CASE FetchReserves(m)
    <3> DEFINE u == [fetch[m] EXCEPT !.todo = @ \ {"reserves"}, !.data.reserves = reserve[m]]
    <3>1. u.pc = fetch[m].pc
      BY <1>t DEF FetchTask
    <3>2. fetch' = [fetch EXCEPT ![m] = u] /\ fetch[m].pc = "running"
      BY <1>3, <1>t, <2>2 DEF FetchReserves, Fetching
    <3> HIDE DEF u
    <3> QED
      BY <3>1, <3>2
  <2>3. CASE FetchOracle(m)
    <3> DEFINE u == [fetch[m] EXCEPT !.todo = @ \ {"oracle"}, !.data.oracle = TRUE]
    <3>1. u.pc = fetch[m].pc
      BY <1>t DEF FetchTask
    <3>2. fetch' = [fetch EXCEPT ![m] = u] /\ fetch[m].pc = "running"
      BY <1>3, <1>t, <2>3 DEF FetchOracle, Fetching
    <3> HIDE DEF u
    <3> QED
      BY <3>1, <3>2
  <2>4. CASE GetObligations(m)
    <3> DEFINE f == [o \in Obligations |-> IF MarketOf[o] = m THEN chainObl[o] ELSE NoObl]
               u == [fetch[m] EXCEPT !.todo = @ \ {"scan"}, !.data.obligations = f]
    <3>1. u.pc = fetch[m].pc
      BY <1>t DEF FetchTask
    <3>2. fetch' = [fetch EXCEPT ![m] = u] /\ fetch[m].pc = "running"
      BY <1>3, <1>t, <2>4 DEF GetObligations, Fetching
    <3> HIDE DEF u
    <3> QED
      BY <3>1, <3>2
  <2>5. ASSUME NEW o \in Obligations, UpdateObligation(m, o)
        PROVE  \E task : task.pc # "panicked" /\ fetch' = [fetch EXCEPT ![m] = task]
    <3> DEFINE u == [fetch[m] EXCEPT !.unread = @ \ {o}, !.data.obligations[o] = chainObl[o]]
    <3>1. u.pc = fetch[m].pc
      BY <1>t DEF FetchTask
    <3>2. fetch' = [fetch EXCEPT ![m] = u] /\ fetch[m].pc = "running"
      BY <1>3, <1>t, <2>5 DEF UpdateObligation, Fetching
    <3> HIDE DEF u
    <3> QED
      BY <3>1, <3>2
  <2>6. CASE FetchReturn(m)
    <3> DEFINE u == [fetch[m] EXCEPT !.pc = "done"]
    <3>1. u.pc = "done" /\ fetch' = [fetch EXCEPT ![m] = u]
      BY <1>t, <2>6 DEF FetchReturn, FetchTask
    <3> HIDE DEF u
    <3> QED
      BY <3>1
  <2>7. CASE UpdateInitially(m) \/ PersistMarket(m) \/ MarketReturn(m)
    BY <1>3, <2>7 DEF UpdateInitially, PersistMarket, MarketReturn, taskVars
  <2> QED
    BY <2>1, <2>2, <2>3, <2>4, <2>5, <2>6, <2>7 DEF FetchStep
<1> QED
  BY <1>1, <1>2, <1>3

(* A step that is no failed call leaves no new panic, if the accounts to     *)
(* repay from exist.                                                         *)
LEMMA StepPanics ==
    ASSUME TypeInv, PhaseInv, FaultInv, [Next]_vars
    PROVE  /\ accounts \subseteq accounts'
           /\ Fault \/ UNCHANGED faults
           /\ UNCHANGED faults /\ faults = MaxFaults /\ RepaysExist =>
                /\ phase' # "dead"
                /\ \A m \in Markets : fetch'[m].pc # "panicked"
                /\ \A o \in Obligations : update'[o].pc # "panicked"
<1> DEFINE quiet == UNCHANGED faults /\ faults = MaxFaults /\ RepaysExist
           alive == /\ phase' # "dead"
                    /\ \A m \in Markets : fetch'[m].pc # "panicked"
                    /\ \A o \in Obligations : update'[o].pc # "panicked"
<1>t. /\ update \in [Obligations -> UpdateTask] /\ faults \in Nat
      /\ \A o \in Obligations : RepaysExist => RepayAccount[o] \in accounts
  BY DEF TypeInv, TypeOK, TaskType, FaultInv, RepaysExist
<1>q. quiet => /\ ~Fault /\ phase # "dead"
               /\ \A m \in Markets : fetch[m].pc # "panicked"
               /\ \A o \in Obligations : update[o].pc # "panicked"
  BY <1>t DEF FaultInv, Fault
<1>1. CASE MainStep \/ ConfigFails
  <2>1. accounts' = accounts /\ (Fault \/ UNCHANGED faults)
    BY <1>1 DEF MainStep, LoadConfig, ConfigFails, JoinBoot, BeginIteration, AwaitFetch,
       JoinPersist, SpawnMarket, AwaitNext, AwaitUpdate, NextMarket, Loop, Return, chainVars
  <2>2. /\ \A o \in Obligations : update'[o].pc \in {update[o].pc, "idle"}
        /\ \A m \in Markets : fetch'[m].pc \in {fetch[m].pc, "start"}
    <3>1. CASE AwaitUpdate
      BY <1>t, <3>1 DEF AwaitUpdate, IdleUpdate
    <3>2. CASE JoinBoot \/ Loop
      BY <3>2 DEF JoinBoot, Loop, BeginIteration, IdleFetch
    <3>3. CASE \/ LoadConfig \/ ConfigFails \/ AwaitFetch \/ JoinPersist \/ SpawnMarket
               \/ AwaitNext \/ NextMarket \/ Return
      BY <3>3 DEF LoadConfig, ConfigFails, AwaitFetch, JoinPersist, SpawnMarket, AwaitNext,
         NextMarket, Return, taskVars
    <3> QED
      BY <1>1, <3>1, <3>2, <3>3 DEF MainStep
  <2>3. quiet => phase' # "dead"
    <3>1. CASE AwaitFetch
      <4>1. at \in 1..Len(MarketList)
        BY <3>1, ListedMarkets DEF AwaitFetch, TypeInv, TypeOK, MainType
      <4>2. MarketList[at] \in Markets
        BY <4>1, ListedMarkets
      <4> QED
        BY <1>q, <3>1, <4>2 DEF AwaitFetch
    <3>2. CASE AwaitUpdate
      <4>1. awaits \in Obligations
        BY <3>2 DEF AwaitUpdate, TypeInv, TypeOK, MainType
      <4> QED
        BY <1>q, <3>2, <4>1 DEF AwaitUpdate
    <3>3. CASE ~AwaitFetch /\ ~AwaitUpdate
      BY <1>1, <1>q, <3>3 DEF MainStep, LoadConfig, ConfigFails, JoinBoot, BeginIteration,
         JoinPersist, SpawnMarket, AwaitNext, NextMarket, Loop, Return
    <3> QED
      BY <3>1, <3>2, <3>3
  <2> QED
    BY <1>q, <2>1, <2>2, <2>3
<1>2. ASSUME NEW m \in Markets, FetchStep(m)
      PROVE  accounts' = accounts /\ (Fault \/ UNCHANGED faults) /\ (quiet => alive)
  BY <1>2, <1>q, FetchPanics
<1>3. ASSUME NEW o \in Obligations, UpdateStep(o) \/ RetrySend(o)
      PROVE  accounts' = accounts /\ (Fault \/ UNCHANGED faults) /\ (quiet => alive)
  <2>1. CASE LiquidationStep(o)
    <3>1. accounts' = accounts
      BY <2>1 DEF LiquidationStep, GetAccount, CreateAccount, ReadWallet,
         SubstituteCollateral, SubstituteLiquidity, Substitute, SignTransaction,
         SendTransaction, RetrySend, GetObligation, chainVars
    <3>2. /\ UNCHANGED <<phase, fetch>>
          /\ \A p \in Obligations \ {o} : update'[p] = update[p]
      BY <2>1, LiquidationMoves DEF UpdateUnchanged, mainVars
    <3>3. /\ Fault \/ UNCHANGED faults
          /\ update'[o].pc = "panicked" => Fault \/ RepayAccount[o] \notin accounts
      BY <2>1, LiquidationGoes
    <3> QED
      BY <1>q, <1>t, <3>1, <3>2, <3>3
  <2>2. CASE RefreshObligation(o) \/ WriteObligation(o)
    <3>1. UNCHANGED <<accounts, faults, phase, fetch, update>>
      BY <2>2 DEF RefreshObligation, WriteObligation, mainVars, chainVars
    <3> QED
      BY <1>q, <3>1
  <2>3. CASE SpawnUpdate(o)
    <3> DEFINE u == [IdleUpdate EXCEPT !.pc = IF refresh[o] = "some" THEN "ata" ELSE "none"]
    <3>1. UNCHANGED <<accounts, faults, phase, fetch>> /\ update' = [update EXCEPT ![o] = u]
      BY <2>3 DEF SpawnUpdate, mainVars, chainVars
    <3>2. u.pc # "panicked"
      BY DEF IdleUpdate
    <3> HIDE DEF u
    <3> QED
      BY <1>q, <1>t, <3>1, <3>2
  <2> QED
    BY <1>3, <2>1, <2>2, <2>3 DEF UpdateStep, LiquidationStep
<1>4. CASE ChainStep \/ Stopped \/ UNCHANGED vars
  <2>1. UNCHANGED <<faults, phase, fetch, update>> /\ accounts \subseteq accounts'
    BY <1>4 DEF ChainStep, Stopped, MovePrice, RefreshReserve, ChangeObligation,
       AccountCreated, Land, Drop, BotUnchanged, vars, mainVars, taskVars, chainVars
  <2> QED
    BY <1>q, <2>1
<1> QED
  BY <1>1, <1>2, <1>3, <1>4 DEF Next, BotStep

LEMMA FaultInvInvariant == Spec => []FaultInv
<1>1. Init => FaultInv
  BY NumbersAssumption DEF Init, FaultInv, IdleFetch, IdleUpdate
<1>2. ASSUME TypeInv, TypeInv', PhaseInv, FaultInv, [Next]_vars PROVE FaultInv'
  <2>1. faults \in Nat /\ MaxFaults \in Nat /\ faults <= MaxFaults
    BY <1>2, NumbersAssumption DEF TypeInv, TypeOK, FaultInv
  <2>2. faults' <= MaxFaults /\ (faults' = MaxFaults => UNCHANGED faults)
    <3>1. Fault \/ UNCHANGED faults
      BY <1>2, StepPanics
    <3> QED
      BY <2>1, <3>1 DEF Fault
  <2>3. InitialAccounts \subseteq accounts'
    BY <1>2, StepPanics DEF FaultInv
  <2>4. ASSUME faults' = MaxFaults, RepaysExist
        PROVE  /\ phase' # "dead"
               /\ \A m \in Markets : fetch'[m].pc # "panicked"
               /\ \A o \in Obligations : update'[o].pc # "panicked"
    <3>1. UNCHANGED faults /\ faults = MaxFaults
      BY <2>2, <2>4
    <3> QED
      BY <1>2, <2>4, <3>1, StepPanics
  <2>5. RepaysExist' <=> RepaysExist
    BY DEF RepaysExist
  <2> QED
    BY <2>2, <2>3, <2>4, <2>5 DEF FaultInv
<1> QED
  BY <1>1, <1>2, TypeInvInvariant, PhaseInvInvariant, PTL DEF Spec

(* The process dies only after a call to the node has failed, or when an     *)
(* account it repays from did not exist when it started: every unwrap() in   *)
(* process_markets is of such a call or of the join of a task that met one,  *)
(* and no healthy obligation, empty wallet, missing account to seize into or *)
(* transaction that failed on chain leads to one.                            *)
THEOREM OnlyFaultsKill == Spec => []DiesOnlyOfFaults
<1>1. FaultInv => DiesOnlyOfFaults
  BY DEF FaultInv, DiesOnlyOfFaults, RepaysExist
<1> QED
  BY <1>1, FaultInvInvariant, PTL
=============================================================================
