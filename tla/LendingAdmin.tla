---------------------------- MODULE LendingAdmin ----------------------------
(***************************************************************************)
(* Running a lending market: the command line tool, whose commands create a *)
(* market, add a reserve to it and update a reserve's configuration, and    *)
(* the instructions of the lending program they send.  A command is a       *)
(* process of its own: every RPC call is a step, other commands and other   *)
(* owners act in between, any call may fail, and a transaction may land     *)
(* without being confirmed.  Accounts are named after the command that      *)
(* made their keypair; 0 stands for what existed before.                    *)
(***************************************************************************)
EXTENDS Naturals, FiniteSets

CONSTANTS
  Owners,       (* keys a market may belong to.                             *)
  Commands,     (* the runs of the tool, as positive numbers.               *)
  Rent,         (* lamports of one account.                                 *)
  Fee,          (* lamports of one transaction.                             *)
  Lamports,     (* what the fee payer starts with.                          *)
  Supply        (* tokens of the source liquidity account.                  *)

ASSUME AdminAssumption ==
  /\ Commands \subseteq (Nat \ {0})
  /\ {Rent, Fee, Lamports, Supply} \subseteq Nat

VARIABLES
  run,       (* per command: what it is doing and what it knows.            *)
  accounts,  (* accounts created and paid for, as <<command, group>>.       *)
  markets,   (* initialised markets and their owners.                       *)
  reserves,  (* initialised reserves: market, config, oracle keys.          *)
  vaults,    (* liquidity in the reserve's supply account.                  *)
  payer,     (* lamports of the fee payer.                                  *)
  source     (* tokens in the source liquidity account.                     *)

vars == <<run, accounts, markets, reserves, vaults, payer, source>>

NULL == "null"

(***************************************************************************)
(* Arguments.  clap refuses a call without a required argument and fills    *)
(* in the defaults; the rest may be absent.                                 *)
(***************************************************************************)
Tuning == {"optimal_utilization_rate", "loan_to_value_ratio", "liquidation_bonus",
           "liquidation_threshold", "min_borrow_rate", "optimal_borrow_rate",
           "max_borrow_rate", "borrow_fee", "flash_loan_fee", "host_fee_percentage",
           "protocol_liquidation_fee", "deposit_limit", "borrow_limit"}

CreateArgs ==
  [required |-> {"lending_market_owner"},
   defaulted |-> {"oracle_program_id", "switchboard_oracle_program_id", "quote_currency"},
   optional |-> {}]

AddArgs ==
  [required |-> {"lending_market_owner", "source_liquidity_owner", "lending_market",
                 "source_liquidity", "liquidity_amount", "pyth_product", "pyth_price",
                 "switchboard_feed"},
   defaulted |-> Tuning,
   optional |-> {"protocol_take_rate"}]

KeyArgs == {"fee_receiver", "pyth_product", "pyth_price", "switchboard_feed"}

UpdateArgs ==
  [required |-> {"reserve", "lending_market_owner", "lending_market"},
   defaulted |-> {},
   optional |-> Tuning \cup KeyArgs \cup {"protocol_take_rate"}]

Args(kind) == CASE kind = "create" -> CreateArgs
                [] kind = "add" -> AddArgs
                [] kind = "update" -> UpdateArgs

Usable(kind, given) == Args(kind).required \subseteq given

\* What main and the command take with unwrap(): of an update, the product that goes
\* with a new price account.
Unwrapped(kind, given) ==
  IF kind = "update"
  THEN UpdateArgs.required \cup (IF "pyth_price" \in given THEN {"pyth_product"} ELSE {})
  ELSE Args(kind).required \cup Args(kind).defaulted \cup Args(kind).optional

Panics(kind, given) == ~(Unwrapped(kind, given) \subseteq (given \cup Args(kind).defaulted))

(***************************************************************************)
(* The lending program.                                                     *)
(***************************************************************************)
Config(ltv, threshold, host) ==
  [loan_to_value_ratio |-> ltv, liquidation_threshold |-> threshold,
   host_fee_percentage |-> host]

Fields == {"loan_to_value_ratio", "liquidation_threshold", "host_fee_percentage"}

\* The defaults of add-reserve.
DefaultConfig == Config(50, 55, 20)

\* validate_reserve_config: the ranges, and the order between two fields.
ValidateReserveConfig(config) ==
  /\ config.loan_to_value_ratio < 100
  /\ config.liquidation_threshold \in config.loan_to_value_ratio..100
  /\ config.host_fee_percentage <= 100

Keys(pyth, feed) == [pyth |-> pyth, feed |-> feed]

\* The two checks for a missing oracle: of the Pyth pair both keys count.
NoOracle(keys, product) == keys.feed = NULL /\ (keys.pyth = NULL \/ product = NULL)

\* The reserve is of the market passed, and the signer is that market's owner.
OwnerOf(r, market, by) ==
  /\ reserves[r].market = market
  /\ market \in DOMAIN markets
  /\ markets[market] = by

\* process_update_reserve_config; a new price account needs its product.
UpdateVerdict(u) ==
  IF ~ValidateReserveConfig(u.config) THEN "InvalidConfig"
  ELSE IF u.reserve \notin DOMAIN reserves THEN "Uninitialized"
  ELSE IF ~OwnerOf(u.reserve, u.market, u.by) THEN "InvalidOwner"
  ELSE IF /\ u.keys.pyth # reserves[u.reserve].keys.pyth
          /\ u.keys.pyth # NULL /\ u.product = NULL THEN "InvalidOracleConfig"
  ELSE IF NoOracle(u.keys, u.product) THEN "NoOracle"
  ELSE "ok"

\* process_init_reserve.
InitVerdict(c, i) ==
  IF i.amount = 0 THEN "InvalidAmount"
  ELSE IF ~ValidateReserveConfig(i.config) THEN "InvalidConfig"
  ELSE IF ~({<<c, "tx1">>, <<c, "tx2">>} \subseteq accounts) THEN "NotRentExempt"
  ELSE IF i.market \notin DOMAIN markets \/ markets[i.market] # i.by THEN "InvalidOwner"
  ELSE IF NoOracle(i.keys, i.product) THEN "NoOracle"
  ELSE IF source < i.amount THEN "InsufficientFunds"
  ELSE "ok"

(***************************************************************************)
(* The commands.                                                            *)
(***************************************************************************)
Idle == [kind |-> "none", pc |-> "idle", out |-> "none", dry |-> FALSE, request |-> <<>>,
         asked |-> {}, alone |-> FALSE, raced |-> FALSE]

\* The accounts a transaction of a command creates.
Creates(kind, tx) == CASE kind = "create" -> 1
                       [] kind = "add" /\ tx = "tx1" -> 4
                       [] kind = "add" /\ tx = "tx2" -> 2
                       [] OTHER -> 0

Cost(kind, tx) == Creates(kind, tx) * Rent + Fee

\* Variant: the liquidity supply and the fee receiver are left out of the sum.
BalanceOfFirst(kind) == IF kind = "add" THEN 4 * Rent + 3 * Fee ELSE Cost(kind, "tx1")

\* The balance check_fee_payer_balance asks for.
RequiredBalance(kind) ==
  IF kind = "add" THEN Cost("add", "tx1") + Cost("add", "tx2") + Cost("add", "tx3")
  ELSE Cost(kind, "tx1")

Finish(c, out) == run' = [run EXCEPT ![c].pc = "done", ![c].out = out]

\* The command line is read; a missing argument is a usage error, or a panic where
\* the code unwraps it.
Start(c, kind, given, dry, request, asked) ==
  /\ run[c].pc = "idle"
  /\ run' = [run EXCEPT ![c] =
       IF ~Usable(kind, given) THEN [Idle EXCEPT !.kind = kind, !.pc = "done", !.out = "usage"]
       ELSE IF Panics(kind, given) THEN [Idle EXCEPT !.kind = kind, !.pc = "done", !.out = "panic"]
       ELSE [Idle EXCEPT !.kind = kind, !.dry = dry, !.request = request, !.asked = asked,
                         !.pc = IF kind = "update" THEN "read" ELSE "check"]]
  /\ UNCHANGED <<accounts, markets, reserves, vaults, payer, source>>

\* An RPC call fails: the error goes up to main, which exits.
RpcFails(c) ==
  /\ run[c].pc \notin {"idle", "done"}
  /\ Finish(c, "error")
  /\ UNCHANGED <<accounts, markets, reserves, vaults, payer, source>>

\* Variant: what is not asked for goes back to the default.
OverDefaults(config, want, asked) ==
  [f \in Fields |-> IF f \in asked THEN want[f] ELSE DefaultConfig[f]]

\* command_update_reserve replaces the fields it was given in what it has read.
Merged(config, want, asked) ==
  [f \in Fields |-> IF f \in asked THEN want[f] ELSE config[f]]

\* get_account and the merge.  The oracle keys are sent back as they were read, with a
\* null product, unless new ones are given.
ReadReserve(c) ==
  /\ run[c].pc = "read" /\ run[c].kind = "update"
  /\ LET u == run[c].request
         old == reserves[u.reserve]
     IN  run' = [run EXCEPT ![c] = [@ EXCEPT !.pc = "check", !.raced = FALSE, !.request =
           [u EXCEPT !.config = Merged(old.config, u.config, run[c].asked),
                     !.keys = IF "pyth" \in run[c].asked THEN [old.keys EXCEPT !.pyth = u.keys.pyth]
                              ELSE old.keys,
                     !.product = IF "pyth" \in run[c].asked THEN u.product ELSE NULL]]]
  /\ UNCHANGED <<accounts, markets, reserves, vaults, payer, source>>

\* check_fee_payer_balance
CheckFeePayer(c) ==
  /\ run[c].pc = "check"
  /\ IF payer < RequiredBalance(run[c].kind) THEN Finish(c, "error")
     ELSE run' = [run EXCEPT ![c].pc = "tx1", ![c].alone = TRUE]
  /\ UNCHANGED <<accounts, markets, reserves, vaults, payer, source>>

\* What the transaction tx of command c comes to, if it reaches a block.
Verdict(c, tx) ==
  IF payer < Cost(run[c].kind, tx) THEN "InsufficientLamports"
  ELSE IF run[c].kind = "update" THEN UpdateVerdict(run[c].request)
  ELSE IF run[c].kind = "add" /\ tx = "tx3" THEN InitVerdict(c, run[c].request)
  ELSE "ok"

\* approve, init_reserve with its transfer, and revoke are one transaction.
MovesLiquidity(kind, tx) == kind = "add" /\ tx = "tx3"

\* Its effect on the chain: accounts, create_account and init_lending_market in one,
\* init_reserve with its transfer of liquidity, or the new configuration.
Effect(c, tx) ==
  LET q == run[c].request
      kind == run[c].kind
  IN  /\ payer' = payer - Cost(kind, tx)
      /\ accounts' = IF Creates(kind, tx) > 0 THEN accounts \cup {<<c, tx>>} ELSE accounts
      /\ markets' = IF kind = "create" THEN [m \in DOMAIN markets \cup {c} |->
                                               IF m = c THEN q.owner ELSE markets[m]]
                    ELSE markets
      /\ reserves' = IF kind = "add" /\ tx = "tx3"
                     THEN [r \in DOMAIN reserves \cup {c} |-> IF r = c
                             THEN [market |-> q.market, config |-> q.config, keys |-> q.keys]
                             ELSE reserves[r]]
                     ELSE IF kind = "update"
                     THEN [reserves EXCEPT ![q.reserve].config = q.config,
                                           ![q.reserve].keys = q.keys]
                     ELSE reserves
      /\ vaults' = IF MovesLiquidity(kind, tx) THEN [vaults EXCEPT ![c] = q.amount] ELSE vaults
      /\ source' = IF MovesLiquidity(kind, tx) THEN source - q.amount ELSE source

NoEffect == UNCHANGED <<accounts, markets, reserves, vaults, payer, source>>

After(kind, tx) == CASE kind = "add" /\ tx = "tx1" -> "tx2"
                     [] kind = "add" /\ tx = "tx2" -> "tx3"
                     [] kind = "create" -> "read"
                     [] OTHER -> "done"

Progress(c, tx) ==
  [run[c] EXCEPT !.pc = After(run[c].kind, tx),
                 !.out = IF After(run[c].kind, tx) = "done" THEN "ok" ELSE "none"]

Failed(c, why) == [run[c] EXCEPT !.pc = "done", !.out = why]

\* Variant: the command goes on whatever became of the transaction.
CarryOn(c, tx, why) == Progress(c, tx)

\* The ? behind send_transaction.
OnError(c, tx, why) == Failed(c, why)

\* A landing makes the check of every other command out of date, and an update that
\* another command's read.
Others(c) ==
  [d \in Commands \ {c} |->
     [run[d] EXCEPT !.alone = FALSE,
                    !.raced = @ \/ (/\ run[c].kind = "update" /\ run[d].kind = "update"
                                    /\ run[d].request # <<>>
                                    /\ run[d].request.reserve = run[c].request.reserve)]]

Sent(c, mine, landed) ==
  run' = [d \in Commands |-> IF d = c THEN mine ELSE IF landed THEN Others(c)[d] ELSE run[d]]

\* send_transaction: refused by the preflight check, confirmed, landed without being
\* confirmed in time, or lost.
Send(c, tx) ==
  /\ run[c].pc = tx /\ ~run[c].dry
  /\ \/ /\ Verdict(c, tx) # "ok"
        /\ Sent(c, OnError(c, tx, Verdict(c, tx)), FALSE)
        /\ NoEffect
     \/ /\ Verdict(c, tx) = "ok"
        /\ Sent(c, Progress(c, tx), TRUE)
        /\ Effect(c, tx)
     \/ /\ Verdict(c, tx) = "ok"
        /\ Sent(c, OnError(c, tx, "unconfirmed"), TRUE)
        /\ Effect(c, tx)
     \/ /\ Sent(c, OnError(c, tx, "error"), FALSE)
        /\ NoEffect

\* With dry_run every transaction is simulated and the outcome only printed.
Simulate(c, tx) ==
  /\ run[c].pc = tx /\ run[c].dry
  /\ Sent(c, Progress(c, tx), FALSE)
  /\ NoEffect

\* command_create_lending_market reads the new market back.
ReadMarket(c) ==
  /\ run[c].pc = "read" /\ run[c].kind = "create"
  /\ Finish(c, IF c \in DOMAIN markets THEN "ok" ELSE "error")
  /\ NoEffect

\* process_set_lending_market_owner, sent by other means.
SetLendingMarketOwner(m, o) ==
  /\ m \in DOMAIN markets /\ markets[m] # o
  /\ markets' = [markets EXCEPT ![m] = o]
  /\ UNCHANGED <<run, accounts, reserves, vaults, payer, source>>

(***************************************************************************)
(* Specification.                                                           *)
(***************************************************************************)
Missing(kind) ==
  {{}} \cup {{a} : a \in Args(kind).required \cup Args(kind).optional}

Given(kind, absent) ==
  (Args(kind).required \cup Args(kind).defaulted \cup Args(kind).optional) \ absent

Oracles == {Keys("p1", "f1"), Keys("p1", NULL), Keys(NULL, "f1"), Keys(NULL, NULL)}

StartCreate(c) ==
  \E o \in Owners, dry \in BOOLEAN, absent \in Missing("create") :
    Start(c, "create", Given("create", absent), dry, [owner |-> o], {})

\* Either nothing is odd about the call, or one thing is.
AddRequest(by, m, amount, k) ==
  [by |-> by, market |-> m, amount |-> amount, config |-> DefaultConfig,
   keys |-> k, product |-> IF k.pyth = NULL THEN NULL ELSE "product"]

StartAdd(c) ==
  \E by \in Owners, m \in DOMAIN markets :
    \/ \E dry \in BOOLEAN :
         Start(c, "add", Given("add", {}), dry, AddRequest(by, m, Supply, Keys("p1", "f1")), {})
    \/ \E k \in Oracles, amount \in {0, Supply} :
         /\ amount = 0 => k = Keys("p1", "f1")
         /\ Start(c, "add", Given("add", {}), FALSE, AddRequest(by, m, amount, k), {})
    \/ \E absent \in Missing("add") :
         Start(c, "add", Given("add", absent), FALSE,
               AddRequest(by, m, Supply, Keys("p1", "f1")), {})

Wishes == {<<{"loan_to_value_ratio"}, Config(90, 55, 20)>>,
           <<{"liquidation_threshold"}, Config(50, 95, 20)>>,
           <<{"host_fee_percentage"}, Config(50, 55, 101)>>,
           <<{"loan_to_value_ratio", "liquidation_threshold"}, Config(60, 70, 20)>>}

StartUpdate(c) ==
  \E by \in Owners, r \in DOMAIN reserves, m \in DOMAIN markets :
    \/ \E w \in Wishes :
         Start(c, "update", UpdateArgs.required \cup w[1], FALSE,
               [by |-> by, market |-> m, reserve |-> r, config |-> w[2],
                keys |-> Keys(NULL, NULL), product |-> NULL], w[1])
    \/ \E product \in {{}, {"pyth_product"}} :
         Start(c, "update", UpdateArgs.required \cup {"pyth_price"} \cup product, FALSE,
               [by |-> by, market |-> m, reserve |-> r, config |-> DefaultConfig,
                keys |-> Keys("p2", NULL), product |-> "product"], {"pyth"})

Init ==
  /\ run = [c \in Commands |-> Idle]
  /\ accounts = {}
  /\ \E o \in Owners, k \in {Keys("p1", "f1"), Keys("p1", NULL)} :
       /\ markets = [m \in {0} |-> o]
       /\ reserves = [r \in {0} |-> [market |-> 0, config |-> DefaultConfig, keys |-> k]]
  /\ vaults = [c \in Commands |-> 0]
  /\ payer = Lamports
  /\ source = Supply

Next ==
  \/ \E c \in Commands :
       \/ StartCreate(c) \/ StartAdd(c) \/ StartUpdate(c)
       \/ RpcFails(c) \/ ReadReserve(c) \/ CheckFeePayer(c) \/ ReadMarket(c)
       \/ \E tx \in {"tx1", "tx2", "tx3"} : Send(c, tx) \/ Simulate(c, tx)
  \/ \E m \in {0} \cup Commands, o \in Owners : SetLendingMarketOwner(m, o)

Spec == Init /\ [][Next]_vars

(***************************************************************************)
(* Properties.                                                              *)
(***************************************************************************)

\* A command that reports success has done all of its work: the market exists, the
\* reserve is initialised, liquidity and all.  A simulation proves nothing
\* (send_transaction and the commands).
SuccessIsReal ==
  \A c \in Commands : (run[c].out = "ok" /\ ~run[c].dry) =>
    /\ run[c].kind = "create" => c \in DOMAIN markets
    /\ run[c].kind = "add" => (c \in DOMAIN reserves /\ vaults[c] = run[c].request.amount)

\* However an add-reserve fails between its three transactions, no token moves without
\* an initialised reserve to show for it; what is lost is the rent of the
\* accounts already created (command_add_reserve).
HalfAReserveHoldsNoTokens ==
  /\ \A c \in Commands : c \notin DOMAIN reserves => vaults[c] = 0
  /\ \A c \in Commands \cap DOMAIN reserves : {<<c, "tx1">>, <<c, "tx2">>} \subseteq accounts

\* An add-reserve is whole or holds nothing, whichever of its transactions fails: what
\* is reported as done is there, and what is there by halves has no tokens
\* (command_add_reserve, send_transaction).
NoHalfReserves == SuccessIsReal /\ HalfAReserveHoldsNoTokens

\* The balance asked for up front covers all the transactions of a command: as long
\* as nobody else spends the fee payer's lamports, none of them fails for want of
\* lamports (check_fee_payer_balance).
CheckedIsAffordable ==
  \A c \in Commands :
    (run[c].alone /\ run[c].pc \in {"tx1", "tx2", "tx3"}) =>
      payer >= Cost(run[c].kind, run[c].pc)

\* An update touches a field nobody asked it to touch only if another update of the
\* reserve landed between its reading and its writing, and then puts back what
\* it had read: the tool has no way to notice (command_update_reserve).
UntouchedUnlessRaced ==
  [][\A r \in DOMAIN reserves : \A f \in Fields :
       reserves'[r].config[f] # reserves[r].config[f] =>
         \E c \in Commands :
           /\ run[c].kind = "update" /\ run[c].pc = "tx1" /\ run'[c].pc = "done"
           /\ run[c].request.reserve = r
           /\ f \in run[c].asked \/ run[c].raced]_vars

=============================================================================
