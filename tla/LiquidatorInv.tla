---------------------------- MODULE LiquidatorInv ----------------------------
(* The inductive invariant behind the bot's safety properties, in five       *)
(* layers, each of which may use the ones before it.                         *)
EXTENDS Liquidator

Listed(i, j) == {MarketList[k] : k \in i..j}

(* 1. Types, and what an index, an unwrap() or a slot relies on. *)
LoopBounds == phase \in {"spawn", "collect"} => at <= Len(MarketList)

CapsuleReady ==
    phase \notin {"config", "boot", "dead"} => \A m \in Markets : capsule[m] # NoMarket

SlotOwned(o) ==
    /\ update[o].pc = "send" <=> update[o].tx # NoTask
    /\ update[o].tx # NoTask => pool[update[o].tx] # NoTx /\ pool[update[o].tx].obl = o

SlotsOwned == \A o \in Obligations : SlotOwned(o)

WritersInPhase ==
    \A o \in Obligations : writer[o] # NoObl => phase \in {"collect", "drain", "dead"}

TypeInv == TypeOK /\ LoopBounds /\ CapsuleReady /\ SlotsOwned /\ WritersInPhase

(* 2. Which tasks there may be in each phase. *)
ObligationTasks ==
    \A o \in Obligations :
        /\ refresh[o] # "idle" => /\ market[MarketOf[o]] = "running"
                                  /\ update[o].pc = "idle"
        /\ update[o].pc # "idle" => market[MarketOf[o]] # "idle"
        /\ writer[o] # NoObl => update[o].pc = "idle" /\ refresh[o] = "idle"

MarketTasks ==
    \A m \in Markets :
        market[m] # "idle" =>
            \/ phase = "dead"
            \/ phase = "spawn" /\ m \in Listed(1, at - 1)
            \/ phase = "collect" /\ m \in Listed(at, Len(MarketList))

FetchTasks ==
    /\ persist # {} => phase \in {"fetch", "dead"}
    /\ phase = "fetch" =>
         /\ persist \subseteq Listed(1, at - 1)
         /\ \A m \in Listed(1, at - 1) : fetch[m].pc = "done"
    /\ phase \in {"spawn", "collect", "drain"} =>
         \A m \in Markets : fetch[m].pc = "done"
    /\ \A m \in Markets :
         fetch[m].pc \in {"start", "running", "panicked"} => phase \in {"fetch", "dead"}

(* A market's map, and what its fetch task reads, is about its own           *)
(* obligations.                                                              *)
KeysLocal ==
    \A m \in Markets :
        /\ capsule[m] # NoMarket => Keys(capsule[m].inner) \subseteq ObligationsOf(m)
        /\ Keys(fetch[m].data) \subseteq ObligationsOf(m)
        /\ fetch[m].unread \subseteq ObligationsOf(m)

PhaseInv == ObligationTasks /\ MarketTasks /\ FetchTasks /\ KeysLocal

(* 3. How the copies of an obligation are ordered: the capsule is behind     *)
(* whatever may be written into it, and that is behind the chain.            *)
BehindChain(data) ==
    \A o \in Keys(data) :
        /\ chainObl[o] # NoObl
        /\ data.obligations[o].version <= chainObl[o].version

CapsuleBehind ==
    \A m \in Markets :
        capsule[m] # NoMarket =>
            /\ BehindChain(capsule[m].inner)
            /\ ~capsule[m].initialized => Keys(capsule[m].inner) = {}

(* What the fetch task of m has read will still be persisted. *)
Unpersisted(m) ==
    /\ phase = "fetch"
    /\ fetch[m].pc \in {"running", "done"}
    /\ m \in persist \/ m \notin Listed(1, at - 1)

(* It is no older than the retriever x it replaces, and loses none of its    *)
(* keys.                                                                     *)
Supersedes(task, x) ==
    /\ \A o \in Keys(x.inner) \cap Keys(task.data) :
         x.inner.obligations[o].version <= task.data.obligations[o].version
    /\ x.initialized =>
         /\ "scan" \notin task.todo
         /\ Keys(x.inner) = Keys(task.data) \cup task.unread
         /\ Keys(task.data) \cap task.unread = {}

FetchAhead ==
    \A m \in Markets :
        /\ fetch[m].pc \in {"running", "done"} => BehindChain(fetch[m].data)
        /\ fetch[m].pc = "done" => fetch[m].todo = {} /\ fetch[m].unread = {}
        /\ Unpersisted(m) => Supersedes(fetch[m], capsule[m])

(* x is a state of the account of o that may be written into the capsule. *)
Writable(o, x) ==
    /\ x # NoObl
    /\ x.version >= capsule[MarketOf[o]].inner.obligations[o].version
    /\ chainObl[o] # NoObl /\ x.version <= chainObl[o].version

(* Some task of this iteration is about o. *)
Active(o) == refresh[o] # "idle" \/ update[o].pc # "idle" \/ writer[o] # NoObl

UpdateAhead(o) ==
    /\ Active(o) => /\ capsule[MarketOf[o]] # NoMarket
                    /\ o \in Keys(capsule[MarketOf[o]].inner)
                    /\ capsule[MarketOf[o]].initialized
    /\ update[o].pc = "some" => Writable(o, update[o].result)
    /\ writer[o] # NoObl => Writable(o, writer[o])

UpdatesAhead == \A o \in Obligations : UpdateAhead(o)

CopyInv == CapsuleBehind /\ FetchAhead /\ UpdatesAhead

(* 4. Which data was read since the iteration began. *)
Fresh(data, m) ==
    /\ \A o \in Keys(data) : data.obligations[o].version >= asOf.obl[o]
    /\ data.reserves # NoRsv => data.reserves.version >= asOf.rsv[m]

AsOfBehind ==
    /\ \A o \in Obligations : asOf.obl[o] <= VersionOf(chainObl[o])
    /\ \A m \in Markets : asOf.rsv[m] <= reserve[m].version

FreshData ==
    \A m \in Markets :
        /\ phase = "fetch" /\ fetch[m].pc \in {"running", "done"} => Fresh(fetch[m].data, m)
        /\ phase = "fetch" /\ m \in Listed(1, at - 1) \ persist => Fresh(capsule[m].inner, m)
        /\ phase = "spawn" => Fresh(capsule[m].inner, m)

RefreshOnFresh ==
    \A o \in Obligations :
        /\ refresh[o] # "idle" => /\ o \in Keys(view[MarketOf[o]])
                                  /\ Fresh(view[MarketOf[o]], MarketOf[o])
        /\ refresh[o] = "some" => Underwater(view[MarketOf[o]], o)

SignedOnce ==
    \A o \in Obligations : \A s \in TxSlots :
        CurrentTx(s, o) =>
            /\ refresh[o] = "idle"
            /\ update[o].pc \notin {"ata", "create", "wallet", "collateral", "liquidity", "sign"}
            /\ phase \notin {"config", "boot", "fetch"}
            /\ phase = "spawn" => MarketOf[o] \in Listed(1, at - 1)

FreshInv == /\ AsOfBehind /\ FreshData /\ RefreshOnFresh /\ SignedOnce
            /\ DecisionsAreFresh /\ OneTransactionPerDecision

(* 5. What a panic needs: a call that failed, or no account to repay from. *)
RepaysExist == \A o \in Obligations : RepayAccount[o] \in InitialAccounts

FaultInv ==
    /\ faults <= MaxFaults
    /\ InitialAccounts \subseteq accounts
    /\ faults = MaxFaults /\ RepaysExist =>
         /\ phase # "dead"
         /\ \A m \in Markets : fetch[m].pc # "panicked"
         /\ \A o \in Obligations : update[o].pc # "panicked"

(* All five together: in every state of process_markets, each join and each  *)
(* lock has done its part, so that what any task holds is ordered between    *)
(* the capsule and the chain and no older than the iteration.                *)
IInv == TypeInv /\ PhaseInv /\ CopyInv /\ FreshInv /\ FaultInv
=============================================================================
