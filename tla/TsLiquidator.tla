---------------------------- MODULE TsLiquidator ----------------------------
(***************************************************************************)
(* The TypeScript bot: runLiquidator of liquidate.ts with the RPC reads of *)
(* libs/utils.ts and libs/pyth.ts, the transaction of                      *)
(* libs/actions/liquidateAndRedeem.ts and the start-up of config.ts and    *)
(* libs/secret.ts.  One action per await of the code.                      *)
(*                                                                         *)
(* The chain is external: it has a bank the validators have processed and  *)
(* an older one they have confirmed.  The bot reads at 'confirmed',        *)
(* simulates its transaction there before sending it, and waits only for   *)
(* 'processed'.  A debt is counted in close-factor steps: one liquidation  *)
(* repays one step of it.                                                  *)
(***************************************************************************)
EXTENDS Integers, Sequences, FiniteSets

CONSTANTS MarketsInOrder,  \* config.markets, a sequence
          Held,            \* market -> its obligations
          Target,          \* the MARKET variable, or AllMarkets
          AllMarkets,
          MaxDebt,         \* the largest debt, in close-factor steps
          LowLimit,        \* unhealthy above this debt when the price is low
          Funds,           \* the wallet's repay tokens, in steps
          MaxMoves,        \* bound: moves of prices and borrowers
          MaxFaults        \* bound: calls that fail, transactions that are lost

Markets == {MarketsInOrder[i] : i \in 1..Len(MarketsInOrder)}
Obligations == UNION {Held[m] : m \in Markets}

ASSUME TsAssumption ==
  /\ Held \in [Markets -> SUBSET Obligations]
  /\ \A m, n \in Markets : m # n => Held[m] \cap Held[n] = {}
  /\ Target \in Markets \cup {AllMarkets}
  /\ {MaxDebt, LowLimit, Funds, MaxMoves, MaxFaults} \subseteq Nat

VARIABLES pc,        \* the await the bot is at
          attempts,  \* getConfig's attemptCount
          mi,        \* position in config.markets
          oracle,    \* tokensOracle
          fetched,   \* allObligations: pubkey -> debt as parsed
          todo,      \* the obligations the for loop has not reached
          cur,       \* the obligation variable of the loop
          view,      \* its debt as last read
          balance,   \* balanceBase
          creates,   \* the token accounts the transaction will create
          processed, \* the awaited transaction is in a block
          examined,  \* history: obligations this pass looked at
          flight,    \* transactions sent and not yet in a block
          proc,      \* the processed bank
          conf,      \* the confirmed bank
          moves,
          faults

bot == <<pc, attempts, mi, oracle, fetched, todo, cur, view, balance, creates, examined>>
chain == <<proc, conf, moves>>
vars == <<bot, processed, flight, chain, faults>>

Prices == {"high", "low"}
NaN == "NaN"
NoOne == "none"
Atas == {"collateral", "liquidity"}

Txs == [ob : Obligations, creates : SUBSET Atas, awaited : BOOLEAN]

\* The debt above which an obligation may be liquidated.
UnhealthyBorrowValue(price) == IF price = "low" THEN LowLimit ELSE MaxDebt

(***************************************************************************)
(* The chain (external), as the bot uses it.                               *)
(***************************************************************************)

Underwater(bank, o) ==
  bank.price # NaN /\ bank.debt[o] > UnhealthyBorrowValue(bank.price)

\* The program takes the transaction as a whole: every token account it
\* creates is missing, the others exist, the wallet can pay, the obligation
\* is unhealthy after the refreshes.
Succeeds(bank, tx) ==
  /\ Underwater(bank, tx.ob)
  /\ bank.wallet > 0
  /\ tx.creates = Atas \ bank.atas

Execute(bank, tx) ==
  IF Succeeds(bank, tx)
  THEN [bank EXCEPT !.debt[tx.ob] = @ - 1, !.wallet = @ - 1, !.atas = Atas]
  ELSE bank

Fault == faults < MaxFaults /\ faults' = faults + 1

\* A block takes a transaction; it may succeed or fail there.
Land(tx) ==
  /\ tx \in flight
  /\ proc' = Execute(proc, tx)
  /\ processed' = (processed \/ tx.awaited)
  /\ flight' = flight \ {tx}
  /\ UNCHANGED <<bot, conf, moves, faults>>

\* The leader drops it, or its blockhash expires.
Drop(tx) ==
  /\ tx \in flight /\ Fault
  /\ flight' = flight \ {tx}
  /\ UNCHANGED <<bot, processed, chain>>

Finalise ==
  /\ conf # proc
  /\ conf' = proc
  /\ UNCHANGED <<bot, processed, flight, proc, moves, faults>>

\* Someone else moves the price or an obligation.
Move ==
  /\ moves < MaxMoves
  /\ moves' = moves + 1
  /\ \/ \E p \in (Prices \cup {NaN}) \ {proc.price} : proc' = [proc EXCEPT !.price = p]
     \/ \E o \in Obligations, d \in {0, MaxDebt} :
          proc.debt[o] # d /\ proc' = [proc EXCEPT !.debt[o] = d]
  /\ UNCHANGED <<bot, processed, flight, conf, faults>>

(***************************************************************************)
(* The bot.                                                                *)
(***************************************************************************)

maxAttempt == 10

Init ==
  /\ pc = "config" /\ attempts = 0 /\ mi = 1
  /\ oracle = NaN /\ fetched = << >> /\ todo = {} /\ cur = NoOne /\ view = 0
  /\ balance = 0 /\ creates = {} /\ examined = {} /\ processed = FALSE /\ flight = {} /\ moves = 0
  /\ faults = 0
  /\ \E o \in Obligations :
       proc = [debt |-> [x \in Obligations |-> IF x = o THEN MaxDebt ELSE 0],
               price |-> "high", wallet |-> Funds, atas |-> {}]
  /\ conf = proc

\* getConfig: up to maxAttempt requests, the last failure is thrown.
GotConfig ==
  /\ pc = "config"
  /\ pc' = "secret"
  /\ attempts' = attempts + 1
  /\ UNCHANGED <<mi, oracle, fetched, todo, cur, view, balance, creates, examined, processed, flight, chain, faults>>

ConfigFails ==
  /\ pc = "config" /\ Fault
  /\ attempts' = attempts + 1
  /\ pc' = IF attempts' < maxAttempt THEN "config" ELSE "dead"
  /\ UNCHANGED <<mi, oracle, fetched, todo, cur, view, balance, creates, examined, processed, flight, chain>>

\* An unreadable secret is the empty string, which JSON.parse rejects.
ReadSecret ==
  /\ pc = "secret"
  /\ \/ pc' = "market" /\ UNCHANGED faults
     \/ pc' = "dead" /\ Fault
  /\ mi' = 1
  /\ UNCHANGED <<attempts, oracle, fetched, todo, cur, view, balance, creates, examined, processed, flight, chain>>

\* Variant: the loop over the markets starts again with the same one.
StaysAtMarket(i) == i

NextMarket(i) == IF i = Len(MarketsInOrder) THEN 1 ELSE i + 1

\* for (market of config.markets), with the MARKET filter.
EnterMarket ==
  /\ pc = "market"
  /\ IF Target \in {AllMarkets, MarketsInOrder[mi]}
     THEN pc' = "oracle" /\ UNCHANGED mi
     ELSE mi' = NextMarket(mi) /\ UNCHANGED pc
  /\ UNCHANGED <<attempts, oracle, fetched, todo, cur, view, balance, creates, examined, processed, flight, chain, faults>>

\* The three reads outside the try: a rejection is not handled.
ReadFails ==
  /\ pc \in {"oracle", "obligations", "reserves"} /\ Fault
  /\ pc' = "dead"
  /\ UNCHANGED <<attempts, mi, oracle, fetched, todo, cur, view, balance, creates, examined, processed, flight, chain>>

getTokensOracleData ==
  /\ pc = "oracle"
  /\ oracle' = conf.price
  /\ pc' = "obligations"
  /\ UNCHANGED <<attempts, mi, fetched, todo, cur, view, balance, creates, examined, processed, flight, chain, faults>>

getObligations ==
  /\ pc = "obligations"
  /\ fetched' = [o \in Held[MarketsInOrder[mi]] |-> conf.debt[o]]
  /\ pc' = "reserves"
  /\ UNCHANGED <<attempts, mi, oracle, todo, cur, view, balance, creates, examined, processed, flight, chain, faults>>

getReserves ==
  /\ pc = "reserves"
  /\ todo' = DOMAIN fetched
  /\ examined' = {}
  /\ pc' = "next"
  /\ UNCHANGED <<attempts, mi, oracle, fetched, cur, view, balance, creates, processed, flight, chain, faults>>

\* Healthy in the bot's eyes.  A comparison with NaN is false.
IsHealthy(debt) == oracle # NaN /\ debt <= UnhealthyBorrowValue(oracle)

\* The head of the while loop: leave it for the next obligation, or go for
\* the wallet.  An obligation without debt has no selectedBorrow.
Assess(debt) == IF IsHealthy(debt) \/ debt = 0 THEN "next" ELSE "wallet"

Take(o) == todo' = todo \ {o}

\* The next obligation of allObligations; one the parser gave null for
\* (never refreshed, so without debt) skips the while loop.
NextObligation(o) ==
  /\ pc = "next" /\ o \in todo
  /\ Take(o)
  /\ cur' = o
  /\ view' = fetched[o]
  /\ examined' = examined \cup {o}
  /\ pc' = Assess(fetched[o])
  /\ UNCHANGED <<attempts, mi, oracle, fetched, balance, creates, processed, flight, chain, faults>>

\* Variant: the error leaves the loop over the obligations.
ErrorLeavesMarket == pc' = "wait" /\ todo' = {}

\* Variant: the error is answered by trying the obligation again.
ErrorRetries == pc' = "wallet" /\ UNCHANGED todo

\* catch: log and continue with the next obligation.
Caught == pc' = "next" /\ UNCHANGED todo

\* getWalletTokenData never throws: a failed read is the sentinel -1, and
\* the while loop is left for it as for an empty wallet.
getWalletTokenData(ok) ==
  /\ pc = "wallet"
  /\ IF ok THEN balance' = conf.wallet /\ UNCHANGED faults
           ELSE balance' = -1 /\ Fault
  /\ pc' = IF balance' <= 0 THEN "next" ELSE "collateral"
  /\ UNCHANGED <<attempts, mi, oracle, fetched, todo, cur, view, creates, examined, processed, flight, chain>>

\* liquidateAndRedeem: the two token accounts are looked up one after the
\* other, and created when there is none.
LookUpAta(a, next) ==
  /\ pc = a
  /\ creates' = (creates \ {a}) \cup ({a} \ conf.atas)
  /\ pc' = next
  /\ UNCHANGED <<attempts, mi, oracle, fetched, todo, cur, view, balance, examined, processed, flight, chain, faults>>

LookUpCollateral == LookUpAta("collateral", "liquidity")
LookUpLiquidity == LookUpAta("liquidity", "send")

Tx == [ob |-> cur, creates |-> creates, awaited |-> TRUE]

\* getRecentBlockhash and sendRawTransaction, which simulates it first.
sendRawTransaction ==
  /\ pc = "send"
  /\ Succeeds(conf, Tx)
  /\ flight' = flight \cup {Tx}
  /\ processed' = FALSE
  /\ pc' = "confirm"
  /\ UNCHANGED <<attempts, mi, oracle, fetched, todo, cur, view, balance, creates, examined, chain, faults>>

\* A call inside the try fails: the network, or the simulation.
CallThrows ==
  /\ pc \in {"collateral", "liquidity", "send", "reread"}
  /\ \/ Fault
     \/ pc = "send" /\ ~Succeeds(conf, Tx) /\ UNCHANGED faults
  /\ Caught
  /\ UNCHANGED <<attempts, mi, oracle, fetched, cur, view, balance, creates, examined, processed, flight, chain>>

\* confirmTransaction resolves when the transaction is in a block.  The
\* error it may carry is not looked at.
confirmTransaction ==
  /\ pc = "confirm"
  /\ processed
  /\ pc' = "reread"
  /\ UNCHANGED <<attempts, mi, oracle, fetched, todo, cur, view, balance, creates, examined, processed, flight, chain, faults>>

\* It gives up after a while; a transaction that is not lost may still
\* land.
ConfirmTimesOut ==
  /\ pc = "confirm"
  /\ \/ Fault
     \/ ~processed /\ (\A tx \in flight : ~tx.awaited) /\ UNCHANGED faults
  /\ flight' = {[tx EXCEPT !.awaited = FALSE] : tx \in flight}
  /\ Caught
  /\ UNCHANGED <<attempts, mi, oracle, fetched, cur, view, balance, creates, examined, processed, chain>>

\* The obligation is read again, oracle and reserves are not.
Reread ==
  /\ pc = "reread"
  /\ view' = conf.debt[cur]
  /\ pc' = Assess(view')
  /\ UNCHANGED <<attempts, mi, oracle, fetched, todo, cur, balance, creates, examined, processed, flight, chain, faults>>

\* The loop variables go out of scope.
EndOfPass ==
  /\ pc = "next" /\ todo = {}
  /\ pc' = "wait"
  /\ cur' = NoOne /\ view' = 0 /\ balance' = 0 /\ creates' = {}
  /\ UNCHANGED <<attempts, mi, oracle, fetched, todo, examined, processed, flight, chain, faults>>

\* THROTTLE, then the next market or the next epoch.
Throttle ==
  /\ pc = "wait"
  /\ pc' = "market"
  /\ mi' = NextMarket(mi)
  /\ UNCHANGED <<attempts, oracle, fetched, todo, cur, view, balance, creates, examined, processed, flight, chain, faults>>

\* docker-compose's restart: unless-stopped.  Transactions in flight stay.
Restart ==
  /\ pc = "dead"
  /\ pc' = "config" /\ attempts' = 0 /\ mi' = 1
  /\ oracle' = NaN /\ fetched' = << >> /\ todo' = {} /\ cur' = NoOne /\ view' = 0
  /\ balance' = 0 /\ creates' = {} /\ examined' = {}
  /\ UNCHANGED <<processed, flight, chain, faults>>

Bot ==
  \/ GotConfig \/ ConfigFails \/ ReadSecret \/ EnterMarket \/ ReadFails
  \/ getTokensOracleData \/ getObligations \/ getReserves
  \/ \E o \in Obligations : NextObligation(o)
  \/ \E ok \in BOOLEAN : getWalletTokenData(ok)
  \/ LookUpCollateral \/ LookUpLiquidity \/ sendRawTransaction \/ CallThrows
  \/ confirmTransaction \/ ConfirmTimesOut \/ Reread \/ EndOfPass \/ Throttle
  \/ Restart

Chain == Finalise \/ Move \/ \E tx \in Txs : Land(tx) \/ Drop(tx)

Next == Bot \/ Chain

Spec == Init /\ [][Next]_vars

\* Every call of the bot returns, and only MaxFaults of them fail; a block
\* takes a transaction that is not lost; the confirmed bank follows the
\* processed one.
Fairness ==
  /\ WF_vars(Bot)
  /\ WF_vars(Finalise)
  /\ WF_vars(\E tx \in flight : Land(tx))

FairSpec == Spec /\ Fairness

(***************************************************************************)
(* Properties.                                                             *)
(***************************************************************************)

AtStart == {"config", "secret", "market", "oracle", "obligations", "reserves"}
InVisit == {"wallet", "collateral", "liquidity", "send", "confirm", "reread"}

\* A failure while one obligation is handled (liquidate.ts:119) costs
\* neither the others nor the process: a pass over a market ends with every
\* obligation it fetched examined, and the process dies only at start-up or
\* of the three reads before the loop.
ErrorsAreLocal ==
  [][/\ pc' = "wait" /\ pc # "wait" => examined = DOMAIN fetched
     /\ pc' = "dead" /\ pc # "dead" => pc \in AtStart]_vars

\* The while loop of liquidate.ts:47 is left: repeating against a bank that
\* lags behind, with prices read long ago, never holds the bot for ever.
VisitEnds == pc \in InVisit ~> pc = "next"

Served(o) == \E m \in Markets : o \in Held[m] /\ Target \in {m, AllMarkets}

\* An obligation of a served market that is underwater is some time no
\* longer, or the wallet has run dry, whatever reads fail, transactions are
\* lost and restarts happen on the way.
UnderwaterIsDealtWith ==
  \A o \in Obligations :
    Served(o) /\ Underwater(proc, o) ~> ~Underwater(proc, o) \/ proc.wallet = 0

=============================================================================
