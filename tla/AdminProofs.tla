---------------------------- MODULE AdminProofs ----------------------------
(* Proofs about the command line tool: what it leaves behind when it breaks   *)
(* off, what it can pay for, and what an update may overwrite.                *)
EXTENDS LendingAdmin, TLAPS

Txs == {"tx1", "tx2", "tx3"}
chain == <<accounts, markets, reserves, vaults, payer, source>>

(* Records are told by their fields; what the fields hold is left open        *)
(* wherever no property depends on it.                                        *)
IsRun(x) ==
  x \in [kind : {x.kind}, pc : {x.pc}, out : {x.out}, dry : {x.dry}, request : {x.request},
         asked : {x.asked}, alone : {x.alone}, raced : {x.raced}]

IsAdd(q) ==
  /\ q \in [by : {q.by}, market : {q.market}, amount : {q.amount}, config : {q.config},
            keys : {q.keys}, product : {q.product}]
  /\ q.amount \in Nat

IsUpdate(q) ==
  q \in [by : {q.by}, market : {q.market}, reserve : {q.reserve}, config : {q.config},
         keys : {q.keys}, product : {q.product}]

IsReserve(x) == x \in [market : {x.market}, config : {x.config}, keys : {x.keys}]

ChainType ==
  /\ markets = [m \in DOMAIN markets |-> markets[m]]
  /\ reserves = [r \in DOMAIN reserves |-> reserves[r]]
  /\ \A r \in DOMAIN reserves : IsReserve(reserves[r])
  /\ vaults \in [Commands -> Nat] /\ payer \in Nat /\ source \in Nat

(* Where a command may be, and what it carries while it is at work. *)
AtWork(x) ==
  /\ x.kind = "add" /\ x.pc \notin {"idle", "done"} => IsAdd(x.request) /\ x.pc \in {"check"} \cup Txs
  /\ x.kind = "update" /\ x.pc \notin {"idle", "done"} =>
       IsUpdate(x.request) /\ x.request.reserve \in DOMAIN reserves /\ x.pc \in {"read", "check", "tx1"}

(* A command's reserve is made by its last step. *)
MadeLast(c) == c \in DOMAIN reserves => run[c].pc = "done"

(* What a success, and half a success, leaves on the chain. *)
Real(c, x) ==
  x.out = "ok" /\ ~x.dry =>
    /\ x.kind = "create" => c \in DOMAIN markets
    /\ x.kind = "add" => c \in DOMAIN reserves /\ vaults[c] = x.request.amount

Whole(c) ==
  /\ c \notin DOMAIN reserves => vaults[c] = 0
  /\ c \in DOMAIN reserves => {<<c, "tx1">>, <<c, "tx2">>} \subseteq accounts

(* What the transactions from pc on cost. *)
Remaining(kind, pc) ==
  IF kind = "add" /\ pc = "tx1" THEN RequiredBalance("add")
  ELSE IF kind = "add" /\ pc = "tx2" THEN Cost("add", "tx2") + Cost("add", "tx3")
  ELSE Cost(kind, pc)

Funded(x) == x.alone /\ x.pc \in Txs => payer >= Remaining(x.kind, x.pc)

(* An update no other one raced holds what it was not asked to change as it is. *)
Current(x) ==
  x.kind = "update" /\ x.pc \in {"check", "tx1"} /\ ~x.raced =>
    \A f \in Fields \ x.asked : x.request.config[f] = reserves[x.request.reserve].config[f]

CommandOK(c, x) == IsRun(x) /\ AtWork(x) /\ Real(c, x) /\ Funded(x) /\ Current(x)

AdminInv ==
  /\ ChainType
  /\ run = [c \in Commands |-> run[c]]
  /\ \A c \in Commands : CommandOK(c, run[c]) /\ MadeLast(c) /\ Whole(c)
-----------------------------------------------------------------------------
LEMMA CostType ==
  ASSUME NEW kind, NEW tx
  PROVE  Cost(kind, tx) \in Nat
  <1>1. Creates(kind, tx) \in 0..4
    BY DEF Creates
  <1>2. Rent \in Nat /\ Fee \in Nat
    BY AdminAssumption
  <1> QED
    BY <1>1, <1>2 DEF Cost

LEMMA IdleIsRun == IsRun(Idle) /\ Idle.out = "none" /\ Idle.pc = "idle" /\ Idle.alone = FALSE
  BY DEF IsRun, Idle

(* A step that changes one command and not the chain. *)
LEMMA OnlyCommand ==
  ASSUME AdminInv, NEW c \in Commands, NEW y, UNCHANGED chain,
         run' = [d \in Commands |-> run'[d]], run'[c] = y,
         \A d \in Commands \ {c} : run'[d] = run[d],
         CommandOK(c, y), c \in DOMAIN reserves => y.pc = "done"
  PROVE  AdminInv'
  <1>1. ChainType'
    BY DEF AdminInv, ChainType, chain, IsReserve
  <1>2. ASSUME NEW d \in Commands, NEW x, CommandOK(d, x), run'[d] = x
        PROVE  CommandOK(d, run[d])'
    BY <1>2 DEF CommandOK, IsRun, AtWork, Real, Funded, Current, chain
  <1>3. \A d \in Commands : CommandOK(d, run[d])'
    BY <1>2 DEF AdminInv
  <1>4. \A d \in Commands : Whole(d)' /\ MadeLast(d)'
    BY DEF AdminInv, Whole, MadeLast, chain
  <1> QED
    BY <1>1, <1>3, <1>4 DEF AdminInv

(* The same, as EXCEPT. *)
LEMMA CommandSet ==
  ASSUME AdminInv, NEW c \in Commands, NEW y, UNCHANGED chain, run' = [run EXCEPT ![c] = y],
         CommandOK(c, y), c \in DOMAIN reserves => y.pc = "done"
  PROVE  AdminInv'
  <1>1. run = [d \in Commands |-> run[d]]
    BY DEF AdminInv
  <1>2. /\ run' = [d \in Commands |-> run'[d]] /\ run'[c] = y
        /\ \A d \in Commands \ {c} : run'[d] = run[d]
    BY <1>1
  <1> QED
    BY <1>2, OnlyCommand

(* A command that is done without success. *)
LEMMA GivingUp ==
  ASSUME AdminInv, NEW c \in Commands, NEW out, out # "ok"
  PROVE  LET y == [run[c] EXCEPT !.pc = "done", !.out = out]
         IN  CommandOK(c, y) /\ y.pc = "done" /\ y.kind = run[c].kind
  <1> DEFINE y == [run[c] EXCEPT !.pc = "done", !.out = out]
  <1>1. IsRun(run[c])
    BY DEF AdminInv, CommandOK
  <1>3. IsRun(y) /\ y.pc = "done" /\ y.out # "ok" /\ y.kind = run[c].kind
    BY <1>1 DEF IsRun
  <1> HIDE DEF y
  <1>4. CommandOK(c, y)
    BY <1>3 DEF CommandOK, AtWork, Real, Funded, Current, Txs
  <1> QED
    BY <1>3, <1>4 DEF y

LEMMA FinishKeeps ==
  ASSUME AdminInv, NEW c \in Commands, NEW out, out # "ok", Finish(c, out), UNCHANGED chain
  PROVE  AdminInv'
  <1> DEFINE y == [run[c] EXCEPT !.pc = "done", !.out = out]
  <1>1. run = [d \in Commands |-> run[d]]
    BY DEF AdminInv
  <1>2. run' = [run EXCEPT ![c] = y]
    BY <1>1 DEF Finish
  <1>3. CommandOK(c, y) /\ y.pc = "done"
    BY GivingUp
  <1> HIDE DEF y
  <1> QED
    BY <1>2, <1>3, CommandSet

-----------------------------------------------------------------------------
(* The steps that leave the chain alone. *)

(* A command that has begun and not yet sent anything. *)
LEMMA JustStarted ==
  ASSUME NEW c \in Commands, NEW y, IsRun(y), y.out # "ok", y.alone = FALSE,
         \/ y.pc = "done"
         \/ y.kind = "create" /\ y.pc = "check"
         \/ y.kind = "add" /\ y.pc = "check" /\ IsAdd(y.request)
         \/ /\ y.kind = "update" /\ y.pc = "read"
            /\ IsUpdate(y.request) /\ y.request.reserve \in DOMAIN reserves
  PROVE  CommandOK(c, y)
  BY DEF CommandOK, AtWork, Real, Funded, Current, Txs

LEMMA StartKeeps ==
  ASSUME AdminInv, NEW c \in Commands, NEW kind \in {"create", "add", "update"},
         NEW given, NEW dry, NEW request, NEW asked, Start(c, kind, given, dry, request, asked),
         kind = "add" => IsAdd(request),
         kind = "update" => IsUpdate(request) /\ request.reserve \in DOMAIN reserves
  PROVE  AdminInv'
  <1>1. c \notin DOMAIN reserves
    BY DEF Start, AdminInv, MadeLast
  <1>2. UNCHANGED chain
    BY DEF Start, chain
  <1>3. ASSUME NEW why \in {"usage", "panic"},
               run' = [run EXCEPT ![c] = [Idle EXCEPT !.kind = kind, !.pc = "done", !.out = why]]
        PROVE  AdminInv'
    <2> DEFINE y == [Idle EXCEPT !.kind = kind, !.pc = "done", !.out = why]
    <2>1. IsRun(y) /\ y.out # "ok" /\ y.alone = FALSE /\ y.pc = "done"
      BY DEF IsRun, Idle
    <2> HIDE DEF y
    <2>2. CommandOK(c, y)
      BY <2>1, JustStarted
    <2>3. run' = [run EXCEPT ![c] = y]
      BY <1>3 DEF y
    <2> QED
      BY <1>1, <1>2, <2>2, <2>3, CommandSet
  <1>4. ASSUME run' = [run EXCEPT ![c] =
                 [Idle EXCEPT !.kind = kind, !.dry = dry, !.request = request, !.asked = asked,
                              !.pc = IF kind = "update" THEN "read" ELSE "check"]]
        PROVE  AdminInv'
    <2> DEFINE y == [Idle EXCEPT !.kind = kind, !.dry = dry, !.request = request, !.asked = asked,
                                 !.pc = IF kind = "update" THEN "read" ELSE "check"]
    <2>1. /\ IsRun(y) /\ y.out # "ok" /\ y.alone = FALSE /\ y.kind = kind /\ y.request = request
          /\ y.pc = IF kind = "update" THEN "read" ELSE "check"
      BY DEF IsRun, Idle
    <2> HIDE DEF y
    <2>2. CommandOK(c, y)
      BY <2>1, JustStarted
    <2>3. run' = [run EXCEPT ![c] = y]
      BY <1>4 DEF y
    <2> QED
      BY <1>1, <1>2, <2>2, <2>3, CommandSet
  <1>5. CASE ~Usable(kind, given)
    BY <1>3, <1>5 DEF Start
  <1>6. CASE Usable(kind, given) /\ Panics(kind, given)
    BY <1>3, <1>6 DEF Start
  <1>7. CASE Usable(kind, given) /\ ~Panics(kind, given)
    BY <1>4, <1>7 DEF Start
  <1> QED
    BY <1>5, <1>6, <1>7

(* What the commands are started with. *)
LEMMA CommandLine ==
  ASSUME AdminInv, NEW c \in Commands, StartCreate(c) \/ StartAdd(c) \/ StartUpdate(c)
  PROVE  AdminInv'
  <1>1. CASE StartCreate(c)
    BY <1>1, StartKeeps DEF StartCreate
  <1>2. ASSUME NEW by, NEW m, NEW amount \in Nat, NEW k
        PROVE  IsAdd(AddRequest(by, m, amount, k))
    BY DEF IsAdd, AddRequest
  <1>3. 0 \in Nat /\ Supply \in Nat
    BY AdminAssumption
  <1>4. CASE StartAdd(c)
    <2>1. PICK by, m, amount, k, given, dry :
            amount \in Nat /\ Start(c, "add", given, dry, AddRequest(by, m, amount, k), {})
      BY <1>3, <1>4 DEF StartAdd
    <2> QED
      BY <1>2, <2>1, StartKeeps
  <1>5. CASE StartUpdate(c)
    <2>1. PICK by, r, m, config, k, product, given, asked :
            /\ r \in DOMAIN reserves
            /\ Start(c, "update", given, FALSE,
                     [by |-> by, market |-> m, reserve |-> r, config |-> config, keys |-> k,
                      product |-> product], asked)
      BY <1>5 DEF StartUpdate
    <2> DEFINE q == [by |-> by, market |-> m, reserve |-> r, config |-> config, keys |-> k,
                     product |-> product]
    <2>2. IsUpdate(q) /\ q.reserve \in DOMAIN reserves
      BY <2>1 DEF IsUpdate
    <2> HIDE DEF q
    <2>3. Start(c, "update", given, FALSE, q, asked)
      BY <2>1 DEF q
    <2> QED
      BY <2>2, <2>3, StartKeeps
  <1> QED
    BY <1>1, <1>4, <1>5

LEMMA ReadReserveKeeps ==
  ASSUME AdminInv, NEW c \in Commands, ReadReserve(c)
  PROVE  AdminInv'
  <1> DEFINE u == run[c].request
             old == reserves[u.reserve]
             keys == IF "pyth" \in run[c].asked THEN [old.keys EXCEPT !.pyth = u.keys.pyth] ELSE old.keys
             product == IF "pyth" \in run[c].asked THEN u.product ELSE NULL
             config == Merged(old.config, u.config, run[c].asked)
             q == [u EXCEPT !.config = config, !.keys = keys, !.product = product]
             y == [run[c] EXCEPT !.pc = "check", !.raced = FALSE, !.request = q]
  <1>1. /\ IsRun(run[c]) /\ IsUpdate(u) /\ u.reserve \in DOMAIN reserves /\ run[c].kind = "update"
        /\ Real(c, run[c]) /\ run[c].pc = "read"
    BY DEF AdminInv, CommandOK, AtWork, ReadReserve
  <1>2. \A f \in Fields \ run[c].asked : config[f] = old.config[f]
    BY DEF Merged
  <1>3. run' = [run EXCEPT ![c] = y]
    BY DEF ReadReserve
  <1> HIDE DEF old, keys, product, config
  <1>4. IsUpdate(q) /\ q.reserve = u.reserve /\ q.config = config
    BY <1>1 DEF IsUpdate
  <1> HIDE DEF q
  <1>5. /\ IsRun(y) /\ y.pc = "check" /\ y.kind = "update" /\ y.request = q
        /\ y.out = run[c].out /\ y.dry = run[c].dry /\ y.asked = run[c].asked
    BY <1>1 DEF IsRun
  <1> HIDE DEF y
  <1>6. AtWork(y)
    BY <1>1, <1>4, <1>5 DEF AtWork
  <1>7. Real(c, y) /\ Funded(y)
    BY <1>1, <1>5 DEF Real, Funded, Txs
  <1>8. Current(y)
    BY <1>2, <1>4, <1>5 DEF Current, old
  <1>9. UNCHANGED chain /\ c \notin DOMAIN reserves
    BY <1>1 DEF ReadReserve, chain, AdminInv, MadeLast
  <1> QED
    BY <1>3, <1>5, <1>6, <1>7, <1>8, <1>9, CommandSet DEF CommandOK

LEMMA CheckFeePayerKeeps ==
  ASSUME AdminInv, NEW c \in Commands, CheckFeePayer(c)
  PROVE  AdminInv'
  <1>1. UNCHANGED chain
    BY DEF CheckFeePayer, chain
  <1>2. CASE payer < RequiredBalance(run[c].kind)
    BY <1>1, <1>2, FinishKeeps DEF CheckFeePayer
  <1>3. CASE ~(payer < RequiredBalance(run[c].kind))
    <2> DEFINE y == [run[c] EXCEPT !.pc = "tx1", !.alone = TRUE]
    <2>1. /\ IsRun(run[c]) /\ Real(c, run[c]) /\ AtWork(run[c]) /\ Current(run[c]) /\ run[c].pc = "check"
          /\ c \notin DOMAIN reserves
      BY DEF AdminInv, CommandOK, CheckFeePayer, MadeLast
    <2>2. run' = [run EXCEPT ![c] = y]
      BY <1>3 DEF CheckFeePayer, AdminInv
    <2>3. /\ IsRun(y) /\ y.pc = "tx1" /\ y.kind = run[c].kind /\ y.request = run[c].request
          /\ y.out = run[c].out /\ y.dry = run[c].dry /\ y.asked = run[c].asked /\ y.raced = run[c].raced
      BY <2>1 DEF IsRun
    <2> HIDE DEF y
    <2>4. AtWork(y) /\ Real(c, y) /\ Current(y)
      BY <2>1, <2>3 DEF AtWork, Real, Current, Txs
    <2>5. RequiredBalance(run[c].kind) = Remaining(y.kind, y.pc)
      BY <2>3 DEF RequiredBalance, Remaining
    <2>6. Remaining(y.kind, y.pc) \in Nat /\ payer \in Nat
      BY CostType DEF AdminInv, ChainType, Remaining, RequiredBalance
    <2>7. Funded(y)
      BY <1>3, <2>5, <2>6 DEF Funded
    <2> QED
      BY <1>1, <2>1, <2>2, <2>3, <2>4, <2>7, CommandSet DEF CommandOK
  <1> QED
    BY <1>2, <1>3

LEMMA ReadMarketKeeps ==
  ASSUME AdminInv, NEW c \in Commands, ReadMarket(c)
  PROVE  AdminInv'
  <1>1. UNCHANGED chain /\ c \notin DOMAIN reserves
    BY DEF ReadMarket, NoEffect, chain, AdminInv, MadeLast
  <1>2. CASE c \notin DOMAIN markets
    BY <1>1, <1>2, FinishKeeps DEF ReadMarket
  <1>3. CASE c \in DOMAIN markets
    <2> DEFINE y == [run[c] EXCEPT !.pc = "done", !.out = "ok"]
    <2>1. IsRun(run[c]) /\ run[c].kind = "create"
      BY DEF AdminInv, CommandOK, ReadMarket
    <2>2. run' = [run EXCEPT ![c] = y]
      BY <1>3 DEF ReadMarket, Finish, AdminInv
    <2>3. IsRun(y) /\ y.pc = "done" /\ y.kind = "create"
      BY <2>1 DEF IsRun
    <2> HIDE DEF y
    <2>4. CommandOK(c, y)
      BY <1>3, <2>3 DEF CommandOK, AtWork, Real, Funded, Current, Txs
    <2> QED
      BY <1>1, <2>2, <2>4, CommandSet
  <1> QED
    BY <1>2, <1>3

-----------------------------------------------------------------------------
(* The transactions. *)

(* y is what command c becomes after its transaction tx: one further, or broken off. *)
Moved(c, tx, y) ==
  /\ IsRun(y) /\ y.kind = run[c].kind /\ y.request = run[c].request /\ y.dry = run[c].dry
  /\ y.alone = run[c].alone
  /\ \/ y.pc = "done" /\ y.out # "ok"
     \/ /\ y.pc = After(run[c].kind, tx)
        /\ y.out = IF After(run[c].kind, tx) = "done" THEN "ok" ELSE "none"

LEMMA ProgressMoves ==
  ASSUME AdminInv, NEW c \in Commands, NEW tx \in Txs, NEW why, why # "ok"
  PROVE  Moved(c, tx, Progress(c, tx)) /\ Moved(c, tx, OnError(c, tx, why))
  <1>1. IsRun(run[c])
    BY DEF AdminInv, CommandOK
  <1>2. Moved(c, tx, OnError(c, tx, why))
    BY <1>1 DEF Moved, OnError, Failed, IsRun
  <1> DEFINE pc == After(run[c].kind, tx)
             out == IF pc = "done" THEN "ok" ELSE "none"
             y == [run[c] EXCEPT !.pc = pc, !.out = out]
  <1> HIDE DEF pc, out
  <1>3. /\ IsRun(y) /\ y.kind = run[c].kind /\ y.request = run[c].request /\ y.dry = run[c].dry
        /\ y.alone = run[c].alone /\ y.pc = pc /\ y.out = out
    BY <1>1 DEF IsRun
  <1>4. Progress(c, tx) = y
    BY DEF Progress, pc, out
  <1> QED
    BY <1>2, <1>3, <1>4 DEF Moved, pc, out

(* Where After leads. *)
LEMMA AfterTx ==
  ASSUME NEW kind, NEW tx \in Txs
  PROVE  /\ After(kind, tx) \in {"tx2", "tx3", "read", "done"}
         /\ kind = "add" => \/ tx = "tx1" /\ After(kind, tx) = "tx2"
                            \/ tx = "tx2" /\ After(kind, tx) = "tx3"
                            \/ tx = "tx3" /\ After(kind, tx) = "done"
         /\ kind = "create" => After(kind, tx) = "read"
         /\ kind # "add" /\ kind # "create" => After(kind, tx) = "done"
  BY DEF After, Txs

(* What a command carries along when its transaction did or did not land. *)
LEMMA MovedFits ==
  ASSUME AdminInv, NEW c \in Commands, NEW tx \in Txs, run[c].pc = tx, NEW y, Moved(c, tx, y)
  PROVE  AtWork(y) /\ Current(y) /\ (y.pc \in Txs => y.kind = "add")
  <1>1. AtWork(run[c])
    BY DEF AdminInv, CommandOK
  <1>2. y.pc \in {"tx2", "tx3", "read", "done"}
    BY AfterTx DEF Moved
  <1>3. run[c].pc \notin {"idle", "done"}
    BY DEF Txs
  <1>4. y.kind = "add" => y.pc = "done" \/ (IsAdd(y.request) /\ y.pc \in Txs)
    BY <1>1, <1>3, AfterTx DEF AtWork, Moved, Txs
  <1>5. y.kind = "update" => y.pc = "done"
    BY AfterTx DEF Moved
  <1>6. y.pc \in Txs => y.kind = "add"
    BY AfterTx DEF Moved, Txs
  <1> QED
    BY <1>2, <1>4, <1>5, <1>6 DEF AtWork, Current

(* What is left to pay. *)
LEMMA RestIsLess ==
  ASSUME NEW tx \in Txs, NEW next, next = After("add", tx), next \in Txs
  PROVE  /\ Remaining("add", tx) \in Nat /\ Remaining("add", next) \in Nat
         /\ Remaining("add", tx) = Cost("add", tx) + Remaining("add", next)
  <1>1. \/ tx = "tx1" /\ next = "tx2"
        \/ tx = "tx2" /\ next = "tx3"
    BY AfterTx DEF Txs
  <1>2. Cost("add", "tx1") \in Nat /\ Cost("add", "tx2") \in Nat /\ Cost("add", "tx3") \in Nat
    BY CostType
  <1> QED
    BY <1>1, <1>2 DEF Remaining, RequiredBalance

(* A transaction that is simulated, refused or lost. *)
LEMMA NotLanded ==
  ASSUME AdminInv, NEW c \in Commands, NEW tx \in Txs, run[c].pc = tx, NEW y, Moved(c, tx, y),
         run[c].dry \/ (y.pc = "done" /\ y.out # "ok"),
         Sent(c, y, FALSE), NoEffect
  PROVE  AdminInv'
  <1>1. AtWork(y) /\ Current(y) /\ (y.pc \in Txs => y.kind = "add")
    BY MovedFits
  <1>2. Real(c, y)
    BY DEF Real, Moved
  <1>3. Funded(y)
    <2>1. SUFFICES ASSUME y.alone, y.pc \in Txs PROVE payer >= Remaining(y.kind, y.pc)
      BY DEF Funded
    <2>2. y.kind = "add" /\ run[c].kind = "add" /\ y.pc = After("add", tx) /\ run[c].alone
      BY <1>1, <2>1 DEF Moved, Txs
    <2>3. payer \in Nat /\ payer >= Remaining("add", tx)
      BY <2>2 DEF AdminInv, ChainType, CommandOK, Funded
    <2> QED
      BY <2>1, <2>2, <2>3, RestIsLess, CostType
  <1>4. IsRun(y) /\ c \notin DOMAIN reserves /\ UNCHANGED chain
    BY DEF Moved, AdminInv, MadeLast, Txs, NoEffect, chain
  <1>5. /\ run' = [d \in Commands |-> run'[d]] /\ run'[c] = y
        /\ \A d \in Commands \ {c} : run'[d] = run[d]
    BY DEF Sent
  <1> QED
    BY <1>1, <1>2, <1>3, <1>4, <1>5, OnlyCommand DEF CommandOK

(* What a transaction that lands does to the accounts. *)
Landed(c, tx) ==
  /\ ChainType'
  /\ DOMAIN markets \subseteq DOMAIN markets' /\ accounts \subseteq accounts'
  /\ run[c].kind = "create" => c \in DOMAIN markets'
  /\ payer' = payer - Cost(run[c].kind, tx)
  /\ \A d \in Commands \ {c} : vaults'[d] = vaults[d]
  /\ \/ /\ run[c].kind = "add" /\ tx = "tx3" /\ DOMAIN reserves' = DOMAIN reserves \cup {c}
        /\ vaults'[c] = run[c].request.amount /\ {<<c, "tx1">>, <<c, "tx2">>} \subseteq accounts
     \/ ~(run[c].kind = "add" /\ tx = "tx3") /\ DOMAIN reserves' = DOMAIN reserves /\ vaults' = vaults
  /\ \A r \in DOMAIN reserves :
       \/ reserves'[r] = reserves[r]
       \/ run[c].kind = "update" /\ run[c].request.reserve = r /\ reserves'[r].config = run[c].request.config

LEMMA EffectLands ==
  ASSUME AdminInv, NEW c \in Commands, NEW tx \in Txs, run[c].pc = tx,
         Verdict(c, tx) = "ok", Effect(c, tx)
  PROVE  Landed(c, tx)
  <1> DEFINE q == run[c].request
             kind == run[c].kind
  <1>1. /\ ChainType /\ AtWork(run[c]) /\ c \notin DOMAIN reserves
    BY DEF AdminInv, CommandOK, MadeLast, Txs
  <1>2. payer' = payer - Cost(kind, tx) /\ payer' \in Nat
    BY <1>1, CostType DEF Verdict, Effect, ChainType
  <1>3. /\ markets' = [m \in DOMAIN markets' |-> markets'[m]] /\ DOMAIN markets \subseteq DOMAIN markets'
        /\ kind = "create" => c \in DOMAIN markets'
    <2>1. CASE kind = "create"
      BY <2>1 DEF Effect
    <2>2. CASE kind # "create"
      BY <1>1, <2>2 DEF Effect, ChainType
    <2> QED
      BY <2>1, <2>2
  <1>4. accounts \subseteq accounts'
    BY DEF Effect
  <1>5. CASE kind = "add" /\ tx = "tx3"
    <2>1. IsAdd(q)
      BY <1>1, <1>5 DEF AtWork, Txs
    <2>2. InitVerdict(c, q) = "ok"
      BY <1>5 DEF Verdict
    <2>3. source >= q.amount /\ {<<c, "tx1">>, <<c, "tx2">>} \subseteq accounts
      BY <1>1, <2>1, <2>2 DEF InitVerdict, ChainType, IsAdd
    <2>4. vaults' = [vaults EXCEPT ![c] = q.amount] /\ source' = source - q.amount
      BY <1>5 DEF Effect, MovesLiquidity
    <2>5. vaults' \in [Commands -> Nat] /\ source' \in Nat
      BY <1>1, <2>1, <2>3, <2>4 DEF ChainType, IsAdd
    <2> DEFINE new == [market |-> q.market, config |-> q.config, keys |-> q.keys]
    <2>6. reserves' = [r \in DOMAIN reserves \cup {c} |-> IF r = c THEN new ELSE reserves[r]]
      BY <1>5 DEF Effect
    <2>7. IsReserve(new)
      BY DEF IsReserve
    <2> HIDE DEF new
    <2>8. /\ reserves' = [r \in DOMAIN reserves' |-> reserves'[r]]
          /\ DOMAIN reserves' = DOMAIN reserves \cup {c} /\ reserves'[c] = new
          /\ \A r \in DOMAIN reserves : reserves'[r] = reserves[r]
      BY <1>1, <2>6
    <2>9. ASSUME NEW r \in DOMAIN reserves' PROVE IsReserve(reserves[r])'
      <3>1. IsReserve(reserves'[r])
        BY <1>1, <2>7, <2>8 DEF ChainType
      <3> QED
        BY <3>1 DEF IsReserve
    <2>10. ChainType'
      BY <1>2, <1>3, <2>5, <2>8, <2>9 DEF ChainType
    <2>11. vaults'[c] = q.amount /\ \A d \in Commands \ {c} : vaults'[d] = vaults[d]
      BY <1>1, <2>4 DEF ChainType
    <2> QED
      BY <1>2, <1>3, <1>4, <1>5, <2>3, <2>8, <2>10, <2>11 DEF Landed
  <1>6. CASE ~(kind = "add" /\ tx = "tx3")
    <2>1. vaults' = vaults /\ source' = source
      BY <1>6 DEF Effect, MovesLiquidity
    <2>2. CASE kind = "update"
      <3>1. q.reserve \in DOMAIN reserves
        BY <1>1, <2>2 DEF AtWork, Txs
      <3> DEFINE r0 == q.reserve
                 x == [reserves[r0] EXCEPT !.config = q.config, !.keys = q.keys]
      <3>2. IsReserve(reserves[r0])
        BY <1>1, <3>1 DEF ChainType
      <3>3. IsReserve(x) /\ x.config = q.config
        BY <3>2 DEF IsReserve
      <3>4. reserves' = [reserves EXCEPT ![r0].config = q.config, ![r0].keys = q.keys]
        BY <2>2 DEF Effect
      <3>5. reserves' = [reserves EXCEPT ![r0] = x]
        BY <1>1, <3>1, <3>4 DEF ChainType
      <3> HIDE DEF x
      <3>6. /\ reserves' = [r \in DOMAIN reserves' |-> reserves'[r]] /\ DOMAIN reserves' = DOMAIN reserves
            /\ reserves'[r0] = x /\ \A r \in DOMAIN reserves \ {r0} : reserves'[r] = reserves[r]
        BY <1>1, <3>1, <3>5 DEF ChainType
      <3>7. ASSUME NEW r \in DOMAIN reserves' PROVE IsReserve(reserves[r])'
        <4>1. IsReserve(reserves'[r])
          BY <1>1, <3>3, <3>6 DEF ChainType
        <4> QED
          BY <4>1 DEF IsReserve
      <3>8. ChainType'
        BY <1>1, <1>2, <1>3, <2>1, <3>6, <3>7 DEF ChainType
      <3> QED
        BY <1>2, <1>3, <1>4, <1>6, <2>1, <2>2, <3>3, <3>6, <3>8 DEF Landed
    <2>3. CASE kind # "update"
      <3>1. reserves' = reserves
        BY <1>6, <2>3 DEF Effect
      <3>2. ChainType'
        BY <1>1, <1>2, <1>3, <2>1, <3>1 DEF ChainType, IsReserve
      <3> QED
        BY <1>2, <1>3, <1>4, <1>6, <2>1, <3>1, <3>2 DEF Landed
    <2> QED
      BY <2>2, <2>3
  <1> QED
    BY <1>5, <1>6

(* The others, after a landing. *)
LEMMA OthersKept ==
  ASSUME AdminInv, NEW c \in Commands, NEW tx \in Txs, run[c].pc = tx, Landed(c, tx),
         NEW d \in Commands \ {c}, run'[d] = Others(c)[d]
  PROVE  CommandOK(d, run[d])' /\ MadeLast(d)' /\ Whole(d)'
  <1> DEFINE raced == run[d].raced \/ (/\ run[c].kind = "update" /\ run[d].kind = "update"
                                       /\ run[d].request # <<>>
                                       /\ run[d].request.reserve = run[c].request.reserve)
             y == [run[d] EXCEPT !.alone = FALSE, !.raced = raced]
  <1>1. run'[d] = y
    BY DEF Others
  <1> HIDE DEF raced
  <1>2. CommandOK(d, run[d]) /\ MadeLast(d) /\ Whole(d)
    BY DEF AdminInv
  <1>3. /\ IsRun(y) /\ y.kind = run[d].kind /\ y.pc = run[d].pc /\ y.out = run[d].out
        /\ y.dry = run[d].dry /\ y.request = run[d].request /\ y.asked = run[d].asked
        /\ y.alone = FALSE /\ y.raced = raced
    BY <1>2 DEF CommandOK, IsRun
  <1> HIDE DEF y
  <1>4. IsRun(run[d])'
    BY <1>1, <1>3 DEF IsRun
  <1>5. AtWork(run[d])'
    BY <1>1, <1>2, <1>3 DEF AtWork, CommandOK, Landed, IsAdd, IsUpdate
  <1>6. Real(d, run[d])'
    BY <1>1, <1>2, <1>3 DEF Real, CommandOK, Landed
  <1>7. Funded(run[d])'
    BY <1>1, <1>3 DEF Funded
  <1>8. Current(run[d])'
    <2>1. SUFFICES ASSUME y.kind = "update", y.pc \in {"check", "tx1"}, ~y.raced,
                          NEW f \in Fields \ y.asked
                   PROVE  y.request.config[f] = reserves'[y.request.reserve].config[f]
      BY <1>1 DEF Current
    <2>2. IsUpdate(run[d].request) /\ run[d].request.reserve \in DOMAIN reserves
      BY <1>2, <1>3, <2>1 DEF CommandOK, AtWork
    <2>3. run[d].request # <<>>
      BY <2>2 DEF IsUpdate
    <2>4. ~run[d].raced /\ ~(run[c].kind = "update" /\ run[c].request.reserve = run[d].request.reserve)
      BY <1>3, <2>1, <2>3 DEF raced
    <2>5. reserves'[run[d].request.reserve] = reserves[run[d].request.reserve]
      BY <2>2, <2>4 DEF Landed
    <2>6. run[d].request.config[f] = reserves[run[d].request.reserve].config[f]
      BY <1>2, <1>3, <2>1, <2>4 DEF CommandOK, Current
    <2> QED
      BY <1>3, <2>5, <2>6
  <1>9. MadeLast(d)' /\ Whole(d)'
    BY <1>1, <1>2, <1>3 DEF MadeLast, Whole, Landed
  <1> QED
    BY <1>4, <1>5, <1>6, <1>7, <1>8, <1>9 DEF CommandOK

(* The one whose transaction it was. *)
LEMMA OwnKept ==
  ASSUME AdminInv, NEW c \in Commands, NEW tx \in Txs, run[c].pc = tx, Landed(c, tx),
         NEW y, Moved(c, tx, y), run'[c] = y
  PROVE  CommandOK(c, run[c])' /\ MadeLast(c)' /\ Whole(c)'
  <1>1. AtWork(y) /\ Current(y) /\ (y.pc \in Txs => y.kind = "add") /\ IsRun(y)
    BY MovedFits DEF Moved
  <1>2. y.pc \in {"tx2", "tx3", "read", "done"}
    BY AfterTx DEF Moved
  <1>3. IsRun(run[c])' /\ Current(run[c])'
    BY <1>1, <1>2 DEF IsRun, Current
  <1>4. AtWork(run[c])'
    BY <1>1 DEF AtWork, IsAdd, IsUpdate, Landed
  <1>5. Real(c, run[c])'
    BY AfterTx DEF Real, Moved, Landed
  <1>6. Funded(run[c])'
    <2>1. SUFFICES ASSUME y.alone, y.pc \in Txs PROVE payer' >= Remaining(y.kind, y.pc)
      BY DEF Funded
    <2>2. y.kind = "add" /\ run[c].kind = "add" /\ y.pc = After("add", tx) /\ run[c].alone
      BY <1>1, <2>1 DEF Moved, Txs
    <2>3. payer \in Nat /\ payer >= Remaining("add", tx) /\ payer' = payer - Cost("add", tx)
      BY <2>2 DEF AdminInv, ChainType, CommandOK, Funded, Landed
    <2> QED
      BY <2>1, <2>2, <2>3, RestIsLess, CostType
  <1>7. c \notin DOMAIN reserves /\ vaults[c] = 0
    BY DEF AdminInv, MadeLast, Whole, Txs
  <1>8. MadeLast(c)' /\ Whole(c)'
    BY <1>7, AfterTx DEF MadeLast, Whole, Landed, Moved
  <1> QED
    BY <1>3, <1>4, <1>5, <1>6, <1>8 DEF CommandOK

LEMMA TransactionKeeps ==
  ASSUME AdminInv, NEW c \in Commands, NEW tx \in Txs, Send(c, tx) \/ Simulate(c, tx)
  PROVE  AdminInv'
  <1>1. ASSUME NEW y, Moved(c, tx, y), run[c].pc = tx, Verdict(c, tx) = "ok", Effect(c, tx), Sent(c, y, TRUE)
        PROVE  AdminInv'
    <2>1. /\ run' = [d \in Commands |-> run'[d]] /\ run'[c] = y
          /\ \A d \in Commands \ {c} : run'[d] = Others(c)[d]
      BY <1>1 DEF Sent
    <2>2. Landed(c, tx)
      BY <1>1, EffectLands
    <2>3. CommandOK(c, run[c])' /\ MadeLast(c)' /\ Whole(c)'
      BY <1>1, <2>1, <2>2, OwnKept
    <2>4. \A d \in Commands \ {c} : CommandOK(d, run[d])' /\ MadeLast(d)' /\ Whole(d)'
      BY <1>1, <2>1, <2>2, OthersKept
    <2> QED
      BY <2>1, <2>2, <2>3, <2>4 DEF AdminInv, Landed
  <1>2. ASSUME NEW y, Moved(c, tx, y), run[c].pc = tx, run[c].dry \/ (y.pc = "done" /\ y.out # "ok"),
               Sent(c, y, FALSE), NoEffect
        PROVE  AdminInv'
    BY <1>2, NotLanded
  <1>3. IsRun(run[c])
    BY DEF AdminInv, CommandOK
  <1>4. ASSUME NEW why, why # "ok"
        PROVE  /\ Moved(c, tx, OnError(c, tx, why))
               /\ OnError(c, tx, why).pc = "done" /\ OnError(c, tx, why).out # "ok"
    BY <1>3, <1>4, ProgressMoves DEF OnError, Failed, IsRun
  <1>5. Moved(c, tx, Progress(c, tx))
    <2>1. "error" # "ok"
      OBVIOUS
    <2> QED
      BY <2>1, ProgressMoves
  <1>6. CASE Simulate(c, tx)
    BY <1>2, <1>5, <1>6 DEF Simulate
  <1>7. CASE Send(c, tx)
    <2>1. CASE Verdict(c, tx) # "ok" /\ Sent(c, OnError(c, tx, Verdict(c, tx)), FALSE) /\ NoEffect
      <3> DEFINE why == Verdict(c, tx)
      <3>1. why # "ok"
        BY <2>1
      <3> HIDE DEF why
      <3>2. /\ Moved(c, tx, OnError(c, tx, why))
            /\ OnError(c, tx, why).pc = "done" /\ OnError(c, tx, why).out # "ok"
        BY <1>4, <3>1
      <3>3. Sent(c, OnError(c, tx, why), FALSE) /\ NoEffect /\ run[c].pc = tx
        BY <1>7, <2>1 DEF why, Send
      <3> QED
        BY <1>2, <3>2, <3>3
    <2>2. CASE Verdict(c, tx) = "ok" /\ Sent(c, Progress(c, tx), TRUE) /\ Effect(c, tx)
      BY <1>1, <1>5, <1>7, <2>2 DEF Send
    <2>3. CASE Verdict(c, tx) = "ok" /\ Sent(c, OnError(c, tx, "unconfirmed"), TRUE) /\ Effect(c, tx)
      <3>1. Moved(c, tx, OnError(c, tx, "unconfirmed"))
        BY <1>4
      <3> QED
        BY <1>1, <1>7, <2>3, <3>1 DEF Send
    <2>4. CASE Sent(c, OnError(c, tx, "error"), FALSE) /\ NoEffect
      <3>1. /\ Moved(c, tx, OnError(c, tx, "error"))
            /\ OnError(c, tx, "error").pc = "done" /\ OnError(c, tx, "error").out # "ok"
        BY <1>4
      <3> QED
        BY <1>2, <1>7, <2>4, <3>1 DEF Send
    <2> QED
      BY <1>7, <2>1, <2>2, <2>3, <2>4 DEF Send
  <1> QED
    BY <1>6, <1>7

LEMMA OwnerChanges ==
  ASSUME AdminInv, NEW m, NEW o, SetLendingMarketOwner(m, o)
  PROVE  AdminInv'
  <1>1. DOMAIN markets' = DOMAIN markets /\ markets' = [k \in DOMAIN markets' |-> markets'[k]]
    BY DEF SetLendingMarketOwner, AdminInv, ChainType
  <1>2. ChainType'
    BY <1>1 DEF SetLendingMarketOwner, AdminInv, ChainType, IsReserve
  <1>3. ASSUME NEW c \in Commands PROVE CommandOK(c, run[c])' /\ MadeLast(c)' /\ Whole(c)'
    <2>1. CommandOK(c, run[c]) /\ MadeLast(c) /\ Whole(c)
      BY DEF AdminInv
    <2> QED
      BY <1>1, <2>1 DEF SetLendingMarketOwner, CommandOK, IsRun, AtWork, IsAdd, IsUpdate, Real, Funded,
                        Current, MadeLast, Whole
  <1> QED
    BY <1>2, <1>3 DEF AdminInv, SetLendingMarketOwner

LEMMA AdminInit == Init => AdminInv
  <1> SUFFICES ASSUME Init PROVE AdminInv
    OBVIOUS
  <1>1. PICK k : reserves = [r \in {0} |-> [market |-> 0, config |-> DefaultConfig, keys |-> k]]
    BY DEF Init
  <1> DEFINE x == [market |-> 0, config |-> DefaultConfig, keys |-> k]
  <1>2. IsReserve(x)
    BY DEF IsReserve
  <1> HIDE DEF x
  <1>3. reserves = [r \in DOMAIN reserves |-> reserves[r]] /\ DOMAIN reserves = {0} /\ reserves[0] = x
    BY <1>1 DEF x
  <1>4. markets = [m \in DOMAIN markets |-> markets[m]]
    BY DEF Init
  <1>5. ChainType
    BY <1>2, <1>3, <1>4, AdminAssumption DEF Init, ChainType
  <1>6. ASSUME NEW c \in Commands PROVE CommandOK(c, run[c]) /\ MadeLast(c) /\ Whole(c)
    <2>1. c \notin DOMAIN reserves /\ vaults[c] = 0 /\ run[c] = Idle
      BY <1>3, AdminAssumption DEF Init
    <2>2. CommandOK(c, Idle)
      BY IdleIsRun DEF CommandOK, AtWork, Real, Funded, Current, Txs
    <2> QED
      BY <2>1, <2>2 DEF MadeLast, Whole
  <1> QED
    BY <1>5, <1>6 DEF AdminInv, Init

LEMMA AdminStep == AdminInv /\ [Next]_vars => AdminInv'
  <1> SUFFICES ASSUME AdminInv, [Next]_vars PROVE AdminInv'
    OBVIOUS
  <1>1. ASSUME NEW c \in Commands, StartCreate(c) \/ StartAdd(c) \/ StartUpdate(c) PROVE AdminInv'
    BY <1>1, CommandLine
  <1>2. ASSUME NEW c \in Commands, RpcFails(c) PROVE AdminInv'
    BY <1>2, FinishKeeps DEF RpcFails, chain
  <1>3. ASSUME NEW c \in Commands, ReadReserve(c) \/ CheckFeePayer(c) \/ ReadMarket(c) PROVE AdminInv'
    BY <1>3, ReadReserveKeeps, CheckFeePayerKeeps, ReadMarketKeeps
  <1>4. ASSUME NEW c \in Commands, NEW tx \in Txs, Send(c, tx) \/ Simulate(c, tx) PROVE AdminInv'
    BY <1>4, TransactionKeeps
  <1>5. ASSUME NEW m, NEW o, SetLendingMarketOwner(m, o) PROVE AdminInv'
    BY <1>5, OwnerChanges
  <1>6. CASE UNCHANGED vars
    <2>1. ChainType'
      BY <1>6 DEF vars, AdminInv, ChainType, IsReserve
    <2>2. ASSUME NEW c \in Commands PROVE CommandOK(c, run[c])' /\ MadeLast(c)' /\ Whole(c)'
      BY <1>6 DEF vars, AdminInv, CommandOK, IsRun, AtWork, IsAdd, IsUpdate, Real, Funded, Current,
                  MadeLast, Whole
    <2> QED
      BY <1>6, <2>1, <2>2 DEF AdminInv, vars
  <1> QED
    BY <1>1, <1>2, <1>3, <1>4, <1>5, <1>6 DEF Next, Txs

(* The invariant holds of every run of the tool: records have their fields,    *)
(* reserves are made last, and what was checked is still there (cli/main.rs). *)
THEOREM AdminInvariant == Spec => []AdminInv
  BY AdminInit, AdminStep, PTL DEF Spec
-----------------------------------------------------------------------------
(* However many runs of the tool there are, in whatever order their calls fail *)
(* and their transactions land, what a run reports as done is there, and a    *)
(* reserve made by halves holds no tokens (command_add_reserve,               *)
(* send_transaction).                                                         *)
THEOREM ReservesAreWhole == Spec => []NoHalfReserves
  <1>1. AdminInv => NoHalfReserves
    BY DEF AdminInv, CommandOK, Real, Whole, NoHalfReserves, SuccessIsReal, HalfAReserveHoldsNoTokens
  <1> QED
    BY <1>1, AdminInvariant, PTL

(* For any rent, fee and balance, the sum that is checked up front pays every  *)
(* transaction of a command as long as nobody else spends                     *)
(* (check_fee_payer_balance).                                                 *)
THEOREM ChecksSuffice == Spec => []CheckedIsAffordable
  <1>1. ASSUME AdminInv PROVE CheckedIsAffordable
    <2>1. SUFFICES ASSUME NEW c \in Commands, run[c].alone, run[c].pc \in Txs
                   PROVE  payer >= Cost(run[c].kind, run[c].pc)
      BY DEF CheckedIsAffordable, Txs
    <2>2. payer \in Nat /\ payer >= Remaining(run[c].kind, run[c].pc)
      BY <1>1, <2>1 DEF AdminInv, ChainType, CommandOK, Funded
    <2>3. /\ Cost(run[c].kind, run[c].pc) \in Nat
          /\ Cost("add", "tx1") \in Nat /\ Cost("add", "tx2") \in Nat /\ Cost("add", "tx3") \in Nat
      BY CostType
    <2> QED
      BY <2>2, <2>3 DEF Remaining, RequiredBalance
  <1> QED
    BY <1>1, AdminInvariant, PTL

(* For any number of concurrent updates and owners, a field that an update was *)
(* not asked to change keeps its value unless another update of the reserve   *)
(* landed between the reading and the writing (command_update_reserve).       *)
THEOREM OnlyRacesOverwrite == Spec => UntouchedUnlessRaced
  <1> DEFINE Step ==
        \A r \in DOMAIN reserves : \A f \in Fields :
          reserves'[r].config[f] # reserves[r].config[f] =>
            \E c \in Commands :
              /\ run[c].kind = "update" /\ run[c].pc = "tx1" /\ run'[c].pc = "done"
              /\ run[c].request.reserve = r
              /\ f \in run[c].asked \/ run[c].raced
  <1>1. ASSUME AdminInv, [Next]_vars PROVE Step \/ UNCHANGED vars
    <2>1. SUFFICES ASSUME reserves' # reserves PROVE Step
      OBVIOUS
    <2>2. PICK c \in Commands, tx \in Txs :
            Send(c, tx) /\ Verdict(c, tx) = "ok" /\ Effect(c, tx)
      <3>1. ASSUME NEW c \in Commands, StartCreate(c) \/ StartAdd(c) \/ StartUpdate(c) PROVE FALSE
        BY <2>1, <3>1 DEF StartCreate, StartAdd, StartUpdate, Start
      <3>2. ASSUME NEW c \in Commands,
                   RpcFails(c) \/ ReadReserve(c) \/ CheckFeePayer(c) \/ ReadMarket(c)
            PROVE  FALSE
        BY <2>1, <3>2 DEF RpcFails, ReadReserve, CheckFeePayer, ReadMarket, NoEffect
      <3>3. ASSUME NEW c \in Commands, NEW tx \in Txs, Send(c, tx) \/ Simulate(c, tx)
            PROVE  Send(c, tx) /\ Verdict(c, tx) = "ok" /\ Effect(c, tx)
        BY <2>1, <3>3 DEF Send, Simulate, NoEffect
      <3>4. ASSUME NEW m, NEW o, SetLendingMarketOwner(m, o) PROVE FALSE
        BY <2>1, <3>4 DEF SetLendingMarketOwner
      <3>5. ~UNCHANGED vars
        BY <2>1 DEF vars
      <3> QED
        BY <1>1, <3>1, <3>2, <3>3, <3>4, <3>5 DEF Next, Txs
    <2>3. run[c].pc = tx /\ Landed(c, tx)
      BY <1>1, <2>2, EffectLands DEF Send
    <2>4. SUFFICES ASSUME NEW r \in DOMAIN reserves, NEW f \in Fields,
                          reserves'[r].config[f] # reserves[r].config[f]
                   PROVE  /\ run[c].kind = "update" /\ run[c].pc = "tx1" /\ run'[c].pc = "done"
                          /\ run[c].request.reserve = r
                          /\ f \in run[c].asked \/ run[c].raced
      OBVIOUS
    <2>5. /\ run[c].kind = "update" /\ run[c].request.reserve = r
          /\ reserves'[r].config = run[c].request.config
      BY <2>3, <2>4 DEF Landed
    <2>6. AtWork(run[c]) /\ Current(run[c])
      BY <1>1 DEF AdminInv, CommandOK
    <2>7. run[c].pc = "tx1"
      BY <2>3, <2>5, <2>6 DEF AtWork, Txs
    <2>8. f \in run[c].asked \/ run[c].raced
      BY <2>4, <2>5, <2>6, <2>7 DEF Current
    <2>9. \E y : Moved(c, tx, y) /\ run'[c] = y
      BY <1>1, <2>2, ProgressMoves DEF Send, Sent
    <2>10. run'[c].pc = "done"
      BY <2>5, <2>9, AfterTx DEF Moved
    <2> QED
      BY <2>5, <2>7, <2>8, <2>10
  <1> QED
    BY <1>1, AdminInvariant, PTL DEF Spec, UntouchedUnlessRaced

=============================================================================
