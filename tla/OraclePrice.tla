----------------------------- MODULE OraclePrice -----------------------------
(***************************************************************************)
(* Where the price of a reserve comes from.  A reserve names a Pyth price   *)
(* account and a Switchboard feed, either of which may be the null key; the *)
(* market's owner chooses them and the program validates the choice.  The   *)
(* publishers of both write on their own schedule, and every refresh of the *)
(* reserve reads what is there: Pyth if it is usable, Switchboard if not.   *)
(* The TypeScript bot reads the same accounts with rules of its own.        *)
(***************************************************************************)
EXTENDS Integers, Sequences, FiniteSets

CONSTANTS
  STALE_AFTER_SLOTS_ELAPSED,  (* age at which a price is stale: 240.        *)
  U64_MAX,                    (* largest price and confidence.              *)
  MinConfirmations,           (* min_confirmations / min_oracle_results.    *)
  PythReports,                (* what the Pyth publishers may write.        *)
  Answers,                    (* what a Switchboard round may answer.       *)
  MaxSlot                     (* bound on the clock.                        *)

ASSUME OracleAssumption ==
  /\ STALE_AFTER_SLOTS_ELAPSED \in Nat \ {0}
  /\ U64_MAX \in Nat /\ MinConfirmations \in Nat \ {0} /\ MaxSlot \in Nat
  /\ Answers \subseteq Int

\* A report is signed and has a confidence; its exponent is one of those Pow10 covers.
ASSUME ReportsAssumption ==
  \A r \in PythReports : r.price \in Int /\ r.conf \in Nat /\ r.expo \in -1..2

VARIABLES
  clock,     (* the slot.                                                   *)
  pyth,      (* the Pyth price account.                                     *)
  feed,      (* the rounds of the Switchboard feed.                         *)
  keys,      (* the reserve's oracle keys [pyth, feed], or NoReserve.       *)
  market,    (* the recorded price: published when, read through which keys, *)
             (* and the reserve's last_update.                              *)
  inForce    (* were the keys behind that price the reserve's in this slot? *)

vars == <<clock, pyth, feed, keys, market, inForce>>

NULL_PUBKEY == "null"
NoReserve == [pyth |-> NULL_PUBKEY, feed |-> NULL_PUBKEY]
None == -1000                      \* an absent optional number

\* Prices are in tenths, so that the exponents -1, 0 and 1 are exact.
SCALE == 10
Pow10(e) == CASE e = 0 -> 1 [] e = 1 -> 10 [] e = 2 -> 100

(***************************************************************************)
(* Choosing the oracles.                                                    *)
(***************************************************************************)
\* The accounts the owner may name, by what is wrong with them.
PythAccounts == {NULL_PUBKEY, "usd", "foreign", "not_a_product", "unlinked", "eur"}
FeedAccounts == {NULL_PUBKEY, "v1", "v1_other_type", "v2", "foreign"}

\* get_pyth_product_quote_currency: the attribute of that name.
QuoteCurrency(account) == IF account = "eur" THEN "EUR" ELSE "USD"

\* validate_pyth_keys: owner of product and price, magic number, version and type
\* of the product, its link to the price account, and its quote currency.
ValidPythKeys(account) ==
  \/ account = NULL_PUBKEY
  \/ /\ account # "foreign"
     /\ account # "not_a_product"
     /\ account # "unlinked"
     /\ QuoteCurrency(account) = "USD"

\* validate_switchboard_keys looks at the owner only.
ValidSwitchboardKeys(account) == account = NULL_PUBKEY \/ account # "foreign"

OneOracle(k) == k.pyth # NULL_PUBKEY \/ k.feed # NULL_PUBKEY

(***************************************************************************)
(* Reading a price.  A result is [verdict, price, from, at].                *)
(***************************************************************************)
Result(v, p, s, t) == [verdict |-> v, price |-> p, from |-> s, at |-> t]
Err == Result("error", 0, "none", 0)
Panic == Result("panic", 0, "none", 0)

\* Variant: a price is still good in the slot in which it turns stale.
TooOldLate(t) == clock - t > STALE_AFTER_SLOTS_ELAPSED

\* checked_sub, and the age of 240 slots.
TooOld(t) == clock - t >= STALE_AFTER_SLOTS_ELAPSED

TooWide(p) == p.conf * 10 > p.price

\* get_pyth_price
GetPythPrice(k) ==
  IF k.pyth = NULL_PUBKEY THEN Err
  ELSE IF pyth.ptype # "price" \/ pyth.status # "trading" THEN Err
  ELSE IF pyth.valid_slot > clock \/ TooOld(pyth.valid_slot) THEN Err
  ELSE IF pyth.price < 0 THEN Err
  ELSE IF pyth.conf * 10 > U64_MAX THEN Panic     \* checked_mul(..).unwrap()
  ELSE IF TooWide(pyth) THEN Err
  ELSE IF pyth.expo >= 0 /\ Pow10(pyth.expo) > U64_MAX THEN Err
  ELSE Result("ok", IF pyth.expo >= 0 THEN pyth.price * SCALE * Pow10(pyth.expo)
                    ELSE (pyth.price * SCALE) \div Pow10(-pyth.expo),
              "pyth", pyth.valid_slot)

\* is_current_round_valid
CurrentRoundValid == feed.current # <<>> /\ feed.current[1].success >= MinConfirmations

\* get_aggregator_result: the current round, or else the last one.
AggregatorResult == IF CurrentRoundValid THEN feed.current ELSE feed.last

\* The cast to u128.
Unsigned(v) == IF v < 0 THEN 0 ELSE v

\* get_switchboard_price for a feed of the first version.  A missing answer is a
\* price of zero, and so is a negative one.
SwitchboardV1(k) ==
  IF k.feed = "v1_other_type" \/ AggregatorResult = <<>> THEN Err
  ELSE LET round == AggregatorResult[1]
       IN  IF round.slot = None THEN Panic            \* round_open_slot.unwrap()
           ELSE IF round.slot > clock \/ TooOld(round.slot) THEN Err
           ELSE Result("ok", Unsigned(round.result) * SCALE,
                       "feed", round.slot)

\* AggregatorAccountData::get_result
EnoughResults(round) == MinConfirmations <= round.success

\* get_switchboard_price_v2
SwitchboardV2(k) ==
  LET round == feed.last[1]
  IN  IF round.slot > clock \/ TooOld(round.slot) THEN Err
      ELSE IF ~EnoughResults(round) THEN Err
      ELSE IF round.result < 0 THEN Err
      ELSE Result("ok", round.result * SCALE, "feed", round.slot)

GetSwitchboardPrice(k) ==
  IF k.feed = NULL_PUBKEY THEN Err
  ELSE IF k.feed = "v2" THEN SwitchboardV2(k) ELSE SwitchboardV1(k)

\* Variant: an error of the first oracle is passed on.
PythDecides(k) == IF GetPythPrice(k).verdict # "ok" THEN GetPythPrice(k)
               ELSE IF GetPythPrice(k).price # 0 THEN GetPythPrice(k) ELSE GetSwitchboardPrice(k)

\* get_price: an error of Pyth, or a price of zero, leaves it to Switchboard.
GetPrice(k) ==
  IF GetPythPrice(k).verdict = "panic" THEN Panic
  ELSE IF GetPythPrice(k).price # 0 THEN GetPythPrice(k)
  ELSE GetSwitchboardPrice(k)

(***************************************************************************)
(* Instructions.                                                            *)
(***************************************************************************)
NoPrice == [at |-> 0, slot |-> None, stale |-> TRUE, keys |-> NoReserve]

Accepts(k) == ValidPythKeys(k.pyth) /\ ValidSwitchboardKeys(k.feed)

Recorded(k, r, stale) == [at |-> r.at, slot |-> clock, stale |-> stale, keys |-> k]

\* process_init_reserve: the oracles have to give a price at once.  The price is
\* read through the accounts passed, which become the reserve's.
InitReserve(k) ==
  /\ keys = NoReserve
  /\ OneOracle(k)
  /\ Accepts(k)
  /\ GetPrice(k).verdict = "ok"
  /\ keys' = k
  /\ market' = Recorded(k, GetPrice(k), TRUE)
  /\ inForce' = TRUE
  /\ UNCHANGED <<clock, pyth, feed>>

\* process_update_reserve_config: a key that is changed is validated; the price and
\* the mark of freshness stay.
UpdateReserveConfig(k) ==
  /\ keys # NoReserve
  /\ k.pyth # keys.pyth => ValidPythKeys(k.pyth)
  /\ k.feed # keys.feed => ValidSwitchboardKeys(k.feed)
  /\ OneOracle(k)
  /\ keys' = k
  /\ inForce' = (inForce \/ market.keys = k)
  /\ UNCHANGED <<clock, pyth, feed, market>>

\* _refresh_reserve: an error or a panic undoes the transaction.
RefreshReserve ==
  /\ keys # NoReserve
  /\ GetPrice(keys).verdict = "ok"
  /\ market' = Recorded(keys, GetPrice(keys), FALSE)
  /\ inForce' = TRUE
  /\ UNCHANGED <<clock, pyth, feed, keys>>

\* _refresh_reserve_interest and the mark_stale that follows it in each of the
\* instructions that move liquidity.
InterestThenStale == [market EXCEPT !.slot = clock, !.stale = TRUE]

\* Deposit, redeem, borrow and the like: interest without a new price.
MoveLiquidity ==
  /\ keys # NoReserve
  /\ market' = InterestThenStale
  /\ UNCHANGED <<clock, pyth, feed, keys, inForce>>

(***************************************************************************)
(* The publishers.                                                          *)
(***************************************************************************)
Tick ==
  /\ clock < MaxSlot
  /\ clock' = clock + 1
  /\ inForce' = (market.keys = keys)
  /\ UNCHANGED <<pyth, feed, keys, market>>

\* A report is for this slot, or, ahead of the slot the program sees, for the next.
PythPublish(r, t) ==
  /\ pyth' = [ptype |-> r.ptype, status |-> r.status, price |-> r.price, conf |-> r.conf,
              expo |-> r.expo, valid_slot |-> t]
  /\ UNCHANGED <<clock, feed, keys, market, inForce>>

Round(n, t, v) == [success |-> n, slot |-> t, result |-> v]

\* A new round replaces the current one, which becomes the last if it was valid.
OpenRound ==
  /\ feed' = [feed EXCEPT !.last = IF CurrentRoundValid THEN feed.current ELSE @,
                          !.current = <<Round(0, clock, 0)>>]
  /\ UNCHANGED <<clock, pyth, keys, market, inForce>>

\* An oracle answers the open round.
Respond(v) ==
  /\ feed.current # <<>>
  /\ feed.current[1].success < MinConfirmations
  /\ feed' = [feed EXCEPT !.current[1].success = @ + 1, !.current[1].result = v]
  /\ UNCHANGED <<clock, pyth, keys, market, inForce>>

(***************************************************************************)
(* The TypeScript bot: getTokenOracleData takes Pyth whenever the price      *)
(* address is not null, whatever its status, age and confidence.            *)
(***************************************************************************)
\* Variant: the exponent is not applied.
TsRawPrice == pyth.price * SCALE

\* parsePriceData(..).price
TsPythPrice ==
  IF pyth.expo >= 0 THEN pyth.price * SCALE * Pow10(pyth.expo)
  ELSE (pyth.price * SCALE) \div Pow10(-pyth.expo)

TsPrice(k) ==
  IF k.pyth # NULL_PUBKEY THEN TsPythPrice
  ELSE IF feed.last = <<>> \/ k.feed \notin {"v1", "v2"} THEN None
  ELSE feed.last[1].result * SCALE

(***************************************************************************)
(* Specification.                                                           *)
(***************************************************************************)
Init ==
  /\ clock = 0
  /\ pyth = [ptype |-> "unknown", status |-> "unknown", price |-> 0, conf |-> 0,
             expo |-> 0, valid_slot |-> 0]
  /\ feed \in {[version |-> 1, last |-> <<>>, current |-> <<>>],
               [version |-> 2, last |-> <<Round(0, 0, 0)>>, current |-> <<>>]}
  /\ keys = NoReserve
  /\ market = NoPrice
  /\ inForce = FALSE

KeyPairs == [pyth : PythAccounts, feed : FeedAccounts]

\* The one feed there is has one version.
Fits(k) == /\ k.feed = "v2" => feed.version = 2
           /\ k.feed \in {"v1", "v1_other_type"} => feed.version = 1

Next ==
  \/ \E k \in KeyPairs : Fits(k) /\ (InitReserve(k) \/ UpdateReserveConfig(k))
  \/ RefreshReserve
  \/ MoveLiquidity
  \/ Tick
  \/ \E r \in PythReports, t \in {clock, clock + 1} : PythPublish(r, t)
  \/ OpenRound
  \/ \E v \in Answers : Respond(v)

Spec == Init /\ [][Next]_vars

(***************************************************************************)
(* Properties.                                                              *)
(***************************************************************************)

\* is_stale of last_update
PassesForFresh == ~market.stale /\ market.slot = clock

\* The price of a reserve that passes for fresh was published less than
\* STALE_AFTER_SLOTS_ELAPSED slots ago and not in the future, whichever oracle it
\* came from and whatever moved the reserve's liquidity since; and, as a change of
\* the configuration leaves price and mark in place, it need not be of the oracles
\* the reserve has but is of oracles it had in this very slot (get_pyth_price,
\* get_switchboard_price, _refresh_reserve_interest, process_update_reserve_config).
FreshPriceIsRecent ==
  PassesForFresh =>
    /\ clock - market.at \in 0..(STALE_AFTER_SLOTS_ELAPSED - 1)
    /\ inForce

\* What may be said of the accounts without looking at the code: which Pyth price
\* is sound, and which answer of the feed has been confirmed in time.
SoundPyth(k) ==
  /\ k.pyth # NULL_PUBKEY /\ pyth.ptype = "price" /\ pyth.status = "trading"
  /\ clock - pyth.valid_slot \in 0..(STALE_AFTER_SLOTS_ELAPSED - 1)
  /\ pyth.price > 0 /\ pyth.conf * 10 <= pyth.price
  /\ pyth.expo < 0 \/ Pow10(pyth.expo) <= U64_MAX

ConfirmedRounds ==
  {r \in {feed.last[i] : i \in DOMAIN feed.last} \cup
          (IF feed.version = 1 THEN {feed.current[i] : i \in DOMAIN feed.current} ELSE {}) :
     /\ r.success >= MinConfirmations
     /\ clock - r.slot \in 0..(STALE_AFTER_SLOTS_ELAPSED - 1)}

\* A sound Pyth price is used.  Without one, a price is only ever the answer of a
\* round that enough oracles confirmed in time, and as long as there is such an
\* answer a refresh does not fail: the trouble of one oracle never becomes the
\* trouble of the other (get_price).  A confidence whose tenfold exceeds 64 bits
\* is the exception: there the multiplication panics before the comparison.
FallbackWorks ==
  (keys # NoReserve /\ ~(pyth.conf * 10 > U64_MAX)) =>
    LET r == GetPrice(keys)
    IN  IF SoundPyth(keys) THEN r.verdict = "ok" /\ r.from = "pyth"
        ELSE /\ r.verdict = "ok" =>
                  \E c \in ConfirmedRounds : r.at = c.slot /\
                    r.price = IF c.result < 0 THEN 0 ELSE c.result * SCALE
             /\ ( /\ keys.feed \in {"v1", "v2"}
                  /\ feed.last # <<>> /\ {feed.last[1]} \cap ConfirmedRounds # {}
                  /\ feed.last[1].result >= 0 ) => r.verdict = "ok"

\* Whenever the program takes the price from Pyth, or from a feed of the second
\* version because there is no Pyth account, the TypeScript bot values the
\* obligation with the same price (getTokenOracleData of pyth.ts).
BotSeesTheSamePrice ==
  LET r == GetPrice(keys)
  IN  ( /\ keys # NoReserve /\ r.verdict = "ok"
        /\ r.from = "pyth" \/ (keys.pyth = NULL_PUBKEY /\ keys.feed = "v2") ) =>
        TsPrice(keys) = r.price

=============================================================================
