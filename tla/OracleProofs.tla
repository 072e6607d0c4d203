---------------------------- MODULE OracleProofs ----------------------------
(***************************************************************************)
(* The properties of the price of a reserve, for every history of reports    *)
(* and rounds.  The invariant says what the accounts of the oracles hold:    *)
(* rounds follow each other in time, and the last one of a feed of the first *)
(* version was confirmed before it was replaced.                             *)
(***************************************************************************)
EXTENDS OraclePrice, TLAPS

Rounds == [success : Nat, slot : Nat, result : Int]

AtMostOneOf(s) == s = <<>> \/ (s = <<s[1]>> /\ s[1] \in Rounds)

OracleType ==
  /\ clock \in Nat
  /\ pyth.price \in Int /\ pyth.conf \in Nat /\ pyth.expo \in -1..2 /\ pyth.valid_slot \in Nat
  /\ feed \in [version : {1, 2}, last : {feed.last}, current : {feed.current}]
  /\ AtMostOneOf(feed.last) /\ AtMostOneOf(feed.current)
  /\ keys \in KeyPairs
  /\ market \in [at : Nat, slot : Int, stale : BOOLEAN, keys : KeyPairs]
  /\ inForce \in BOOLEAN

(* The reserve's keys are ones the program validated, of the feed there is. *)
KeysValid ==
  /\ keys.pyth \in {NULL_PUBKEY, "usd"}
  /\ keys.feed \in {NULL_PUBKEY, "v1", "v1_other_type", "v2"}
  /\ Fits(keys)

(* Rounds follow each other; the last of a feed of the first version was     *)
(* confirmed, one of the second has always a last round.                     *)
RoundsInOrder ==
  /\ feed.version = 1 /\ feed.last # <<>> => feed.last[1].success >= MinConfirmations
  /\ feed.version = 2 => feed.last # <<>>
  /\ feed.last # <<>> => feed.last[1].slot <= clock
  /\ feed.current # <<>> => feed.current[1].slot <= clock
  /\ feed.last # <<>> /\ feed.current # <<>> => feed.last[1].slot <= feed.current[1].slot

(* A price that is not marked stale was recent in the slot of its refresh,   *)
(* and read, if that is this slot, through keys the reserve had in it.       *)
PriceRecent ==
  /\ market.slot <= clock
  /\ ~market.stale => market.slot - market.at \in 0..(STALE_AFTER_SLOTS_ELAPSED - 1)
  /\ PassesForFresh => inForce

OracleInv == OracleType /\ KeysValid /\ RoundsInOrder /\ PriceRecent

(***************************************************************************)
(* What a reading of the oracles says.                                       *)
(***************************************************************************)
LEMMA FeedParts ==
  ASSUME OracleType
  PROVE  /\ feed.last # <<>> => feed.last[1] \in Rounds /\ feed.last = <<feed.last[1]>>
         /\ feed.current # <<>> => feed.current[1] \in Rounds /\ feed.current = <<feed.current[1]>>
         /\ feed.version \in {1, 2}
  BY DEF OracleType, AtMostOneOf

(* A round that was opened no later than now and is not too old. *)
LEMMA AgeIsSmall ==
  ASSUME clock \in Nat, NEW t \in Nat, ~(t > clock), ~TooOld(t)
  PROVE  clock - t \in 0..(STALE_AFTER_SLOTS_ELAPSED - 1)
  BY OracleAssumption DEF TooOld

LEMMA NotTooOld ==
  ASSUME clock \in Nat, NEW t \in Nat, clock - t \in 0..(STALE_AFTER_SLOTS_ELAPSED - 1)
  PROVE  ~(t > clock) /\ ~TooOld(t)
  BY OracleAssumption DEF TooOld

(* What get_pyth_price accepts, and what it does not. *)
PythUsable(k) ==
  /\ k.pyth # NULL_PUBKEY /\ pyth.ptype = "price" /\ pyth.status = "trading"
  /\ ~(pyth.valid_slot > clock) /\ ~TooOld(pyth.valid_slot)
  /\ ~(pyth.price < 0) /\ ~(pyth.conf * 10 > U64_MAX) /\ ~TooWide(pyth)
  /\ ~(pyth.expo >= 0 /\ Pow10(pyth.expo) > U64_MAX)

LEMMA PythReading ==
  ASSUME NEW k
  PROVE  /\ PythUsable(k) => GetPythPrice(k) = Result("ok", TsPythPrice, "pyth", pyth.valid_slot)
         /\ ~PythUsable(k) => GetPythPrice(k) \in {Err, Panic}
         /\ ~(pyth.conf * 10 > U64_MAX) => GetPythPrice(k) # Panic
<1>e. Err # Panic
  BY DEF Err, Panic, Result
<1>1. GetPythPrice(k) \in {Err, Panic, Result("ok", TsPythPrice, "pyth", pyth.valid_slot)}
  BY DEF GetPythPrice, TsPythPrice
<1>2. Result("ok", TsPythPrice, "pyth", pyth.valid_slot) \notin {Err, Panic}
  BY DEF Result, Err, Panic
<1>3. PythUsable(k) => GetPythPrice(k) = Result("ok", TsPythPrice, "pyth", pyth.valid_slot)
  BY DEF PythUsable, GetPythPrice, TsPythPrice
<1>4. ~PythUsable(k) => GetPythPrice(k) \in {Err, Panic}
  BY DEF PythUsable, GetPythPrice
<1>5. ~(pyth.conf * 10 > U64_MAX) => GetPythPrice(k) # Panic
  <2> HIDE DEF Err, Panic
  <2>1. \A p, s, t : Result("ok", p, s, t) # Panic
    BY DEF Result, Panic
  <2> QED
    BY <1>e, <2>1 DEF GetPythPrice
<1> QED
  BY <1>3, <1>4, <1>5

(* The fields of a result. *)
LEMMA ResultFields ==
  /\ \A v, p, s, t : /\ Result(v, p, s, t).verdict = v /\ Result(v, p, s, t).price = p
                     /\ Result(v, p, s, t).from = s /\ Result(v, p, s, t).at = t
  /\ Err.verdict = "error" /\ Err.price = 0 /\ Err.from = "none"
  /\ Panic.verdict = "panic" /\ Panic.price = 0 /\ Panic.from = "none"
  BY DEF Result, Err, Panic

(* The round whose answer get_switchboard_price takes. *)
FeedRound(k) == IF k.feed = "v2" THEN feed.last[1] ELSE AggregatorResult[1]

FeedUsable(k) ==
  /\ k.feed \in {"v1", "v2"}
  /\ k.feed = "v1" => AggregatorResult # <<>>
  /\ ~(FeedRound(k).slot > clock) /\ ~TooOld(FeedRound(k).slot)
  /\ k.feed = "v2" => EnoughResults(FeedRound(k)) /\ ~(FeedRound(k).result < 0)

LEMMA FeedReading ==
  ASSUME OracleType, NEW k, k.feed \in {NULL_PUBKEY, "v1", "v1_other_type", "v2"}
  PROVE  /\ FeedUsable(k) =>
              GetSwitchboardPrice(k) = Result("ok", Unsigned(FeedRound(k).result) * SCALE,
                                              "feed", FeedRound(k).slot)
         /\ ~FeedUsable(k) => GetSwitchboardPrice(k) = Err
<1>1. CASE k.feed \in {NULL_PUBKEY, "v1_other_type"}
  BY <1>1 DEF GetSwitchboardPrice, SwitchboardV1, FeedUsable, NULL_PUBKEY
<1>2. CASE k.feed = "v2"
  <2>1. GetSwitchboardPrice(k) = SwitchboardV2(k) /\ FeedRound(k) = feed.last[1]
    BY <1>2 DEF GetSwitchboardPrice, NULL_PUBKEY, FeedRound
  <2>2. FeedUsable(k) => Unsigned(FeedRound(k).result) = feed.last[1].result
    BY <1>2, <2>1 DEF FeedUsable, Unsigned
  <2> QED
    BY <1>2, <2>1, <2>2 DEF FeedUsable, SwitchboardV2
<1>3. CASE k.feed = "v1"
  <2>1. GetSwitchboardPrice(k) = SwitchboardV1(k) /\ FeedRound(k) = AggregatorResult[1]
    BY <1>3 DEF GetSwitchboardPrice, NULL_PUBKEY, FeedRound
  <2>2. AggregatorResult # <<>> => AggregatorResult[1].slot \in Nat
    <3>1. AggregatorResult # <<>> => AggregatorResult[1] \in Rounds
      BY FeedParts DEF AggregatorResult
    <3> QED
      BY <3>1 DEF Rounds
  <2>3. AggregatorResult # <<>> => AggregatorResult[1].slot # None
    BY <2>2 DEF None
  <2> QED
    BY <1>3, <2>1, <2>3 DEF FeedUsable, SwitchboardV1
<1> QED
  BY <1>1, <1>2, <1>3

(* The round read is there, and it was confirmed. *)
LEMMA FeedRoundConfirmed ==
  ASSUME OracleInv, NEW k \in KeyPairs, Fits(k), FeedUsable(k)
  PROVE  /\ FeedRound(k) \in Rounds
         /\ FeedRound(k) \in ConfirmedRounds
<1> USE DEF OracleInv
<1>c. clock \in Nat
  BY DEF OracleType
<1>1. ASSUME NEW r \in Rounds, ~(r.slot > clock), ~TooOld(r.slot), r.success >= MinConfirmations,
             \/ feed.last # <<>> /\ r = feed.last[1]
             \/ feed.version = 1 /\ feed.current # <<>> /\ r = feed.current[1]
      PROVE  r \in ConfirmedRounds
  <2>1. clock - r.slot \in 0..(STALE_AFTER_SLOTS_ELAPSED - 1)
    BY <1>1, <1>c, AgeIsSmall DEF Rounds
  <2>2. /\ feed.last # <<>> => 1 \in DOMAIN feed.last
        /\ feed.current # <<>> => 1 \in DOMAIN feed.current
    BY FeedParts
  <2> QED
    BY <1>1, <2>1, <2>2 DEF ConfirmedRounds
<1>2. CASE k.feed = "v2"
  <2>1. feed.last # <<>> /\ FeedRound(k) = feed.last[1] /\ FeedRound(k) \in Rounds
    BY <1>2, FeedParts DEF RoundsInOrder, Fits, FeedRound
  <2>2. FeedRound(k).success >= MinConfirmations
    BY <1>2, <2>1, OracleAssumption DEF FeedUsable, EnoughResults, Rounds
  <2> QED
    BY <1>1, <2>1, <2>2 DEF FeedUsable
<1>3. CASE k.feed = "v1"
  <2>1. FeedRound(k) = AggregatorResult[1] /\ AggregatorResult # <<>> /\ feed.version = 1
    BY <1>3 DEF FeedUsable, FeedRound, Fits
  <2>2. CASE CurrentRoundValid
    <3>1. feed.current # <<>> /\ FeedRound(k) = feed.current[1]
          /\ feed.current[1].success >= MinConfirmations
      BY <2>1, <2>2 DEF AggregatorResult, CurrentRoundValid
    <3> QED
      BY <1>1, <2>1, <3>1, FeedParts DEF FeedUsable
  <2>3. CASE ~CurrentRoundValid
    <3>1. feed.last # <<>> /\ FeedRound(k) = feed.last[1]
      BY <2>1, <2>3 DEF AggregatorResult
    <3>2. feed.last[1].success >= MinConfirmations
      BY <2>1, <3>1 DEF RoundsInOrder
    <3> QED
      BY <1>1, <2>1, <3>1, <3>2, FeedParts DEF FeedUsable
  <2> QED
    BY <2>2, <2>3
<1> QED
  BY <1>2, <1>3 DEF FeedUsable

(* A price that is given is one of an oracle that is usable. *)
LEMMA PriceReading ==
  ASSUME OracleType, NEW k, k.feed \in {NULL_PUBKEY, "v1", "v1_other_type", "v2"}
  PROVE  \/ /\ PythUsable(k) /\ TsPythPrice # 0
            /\ GetPrice(k) = Result("ok", TsPythPrice, "pyth", pyth.valid_slot)
         \/ /\ ~(PythUsable(k) /\ TsPythPrice # 0)
            /\ \/ /\ FeedUsable(k)
                  /\ GetPrice(k) = Result("ok", Unsigned(FeedRound(k).result) * SCALE,
                                          "feed", FeedRound(k).slot)
               \/ ~FeedUsable(k) /\ GetPrice(k) = Err
               \/ pyth.conf * 10 > U64_MAX /\ GetPrice(k) = Panic
<1>1. CASE PythUsable(k) /\ TsPythPrice # 0
  <2>1. GetPythPrice(k).verdict # "panic" /\ GetPythPrice(k).price # 0
    BY <1>1, PythReading, ResultFields
  <2> QED
    BY <1>1, <2>1, PythReading DEF GetPrice
<1>2. CASE ~(PythUsable(k) /\ TsPythPrice # 0)
  <2>1. GetPythPrice(k) = Panic \/ (GetPythPrice(k).verdict # "panic" /\ GetPythPrice(k).price = 0)
    BY <1>2, PythReading, ResultFields
  <2>2. CASE GetPythPrice(k) = Panic
    <3>1. pyth.conf * 10 > U64_MAX
      BY <2>2, PythReading
    <3> QED
      BY <1>2, <2>2, <3>1, ResultFields DEF GetPrice
  <2>3. CASE GetPythPrice(k).verdict # "panic" /\ GetPythPrice(k).price = 0
    <3>1. GetPrice(k) = GetSwitchboardPrice(k)
      BY <2>3 DEF GetPrice
    <3> QED
      BY <1>2, <3>1, FeedReading
  <2> QED
    BY <2>1, <2>2, <2>3
<1> QED
  BY <1>1, <1>2

(* It was published not long ago. *)
LEMMA PriceIsRecent ==
  ASSUME OracleInv, NEW k \in KeyPairs, Fits(k), GetPrice(k).verdict = "ok",
         k.feed \in {NULL_PUBKEY, "v1", "v1_other_type", "v2"}
  PROVE  /\ GetPrice(k).at \in Nat
         /\ clock - GetPrice(k).at \in 0..(STALE_AFTER_SLOTS_ELAPSED - 1)
<1>t. OracleType /\ clock \in Nat /\ pyth.valid_slot \in Nat
  BY DEF OracleInv, OracleType
<1>1. CASE PythUsable(k) /\ TsPythPrice # 0
  <2>1. GetPrice(k).at = pyth.valid_slot
    BY <1>1, <1>t, PriceReading, ResultFields
  <2>2. clock - pyth.valid_slot \in 0..(STALE_AFTER_SLOTS_ELAPSED - 1)
    BY <1>1, <1>t, AgeIsSmall DEF PythUsable
  <2> QED
    BY <1>t, <2>1, <2>2
<1>2. CASE ~(PythUsable(k) /\ TsPythPrice # 0)
  <2>1. FeedUsable(k) /\ GetPrice(k).at = FeedRound(k).slot
    BY <1>2, <1>t, PriceReading, ResultFields
  <2>2. FeedRound(k).slot \in Nat
    BY <2>1, FeedRoundConfirmed DEF Rounds
  <2>3. clock - FeedRound(k).slot \in 0..(STALE_AFTER_SLOTS_ELAPSED - 1)
    BY <1>t, <2>1, <2>2, AgeIsSmall DEF FeedUsable
  <2> QED
    BY <2>1, <2>2, <2>3
<1> QED
  BY <1>1, <1>2
-----------------------------------------------------------------------------
LEMMA InitOracle == Init => OracleInv
<1> SUFFICES ASSUME Init PROVE OracleInv
  OBVIOUS
<1>r. Round(0, 0, 0) \in Rounds
  BY DEF Round, Rounds
<1>k. NoReserve \in KeyPairs
  BY DEF NoReserve, KeyPairs, PythAccounts, FeedAccounts
<1>1. OracleType
  <2>1. /\ AtMostOneOf(feed.last) /\ AtMostOneOf(feed.current)
        /\ feed \in [version : {1, 2}, last : {feed.last}, current : {feed.current}]
    BY <1>r DEF Init, AtMostOneOf
  <2>2. market \in [at : Nat, slot : Int, stale : BOOLEAN, keys : KeyPairs]
    BY <1>k DEF Init, NoPrice, None
  <2>3. pyth.price = 0 /\ pyth.conf = 0 /\ pyth.expo = 0 /\ pyth.valid_slot = 0
    BY DEF Init
  <2>4. clock \in Nat /\ keys \in KeyPairs /\ inForce \in BOOLEAN
    BY <1>k DEF Init
  <2> QED
    BY <2>1, <2>2, <2>3, <2>4 DEF OracleType
<1>2. KeysValid
  BY DEF Init, KeysValid, NoReserve, NULL_PUBKEY, Fits
<1>3. RoundsInOrder
  BY DEF Init, RoundsInOrder, Round
<1>4. PriceRecent
  BY DEF Init, PriceRecent, PassesForFresh, NoPrice, None
<1> QED
  BY <1>1, <1>2, <1>3, <1>4 DEF OracleInv

(* The instructions. *)
LEMMA InstructionsKeep ==
  ASSUME OracleInv,
         \/ \E k \in KeyPairs : Fits(k) /\ (InitReserve(k) \/ UpdateReserveConfig(k))
         \/ RefreshReserve \/ MoveLiquidity
  PROVE  OracleInv'
<1> USE DEF OracleInv
<1>t. /\ keys \in KeyPairs /\ clock \in Nat
      /\ market \in [at : Nat, slot : Int, stale : BOOLEAN, keys : KeyPairs]
  BY DEF OracleType
<1>1. UNCHANGED <<clock, pyth, feed>>
  BY DEF InitReserve, UpdateReserveConfig, RefreshReserve, MoveLiquidity
<1>2. RoundsInOrder'
  BY <1>1 DEF RoundsInOrder
<1>3. /\ clock' \in Nat
      /\ pyth'.price \in Int /\ pyth'.conf \in Nat /\ pyth'.expo \in -1..2
      /\ pyth'.valid_slot \in Nat
      /\ feed' \in [version : {1, 2}, last : {feed'.last}, current : {feed'.current}]
      /\ AtMostOneOf(feed.last)' /\ AtMostOneOf(feed.current)'
  BY <1>1 DEF OracleType, AtMostOneOf
<1>4. ASSUME NEW k \in KeyPairs, Fits(k), InitReserve(k) \/ (RefreshReserve /\ k = keys),
             k.pyth \in {NULL_PUBKEY, "usd"},
             k.feed \in {NULL_PUBKEY, "v1", "v1_other_type", "v2"}
      PROVE  OracleInv'
  <2> DEFINE n == GetPrice(k).at
  <2>1. GetPrice(k).verdict = "ok"
    BY <1>4 DEF InitReserve, RefreshReserve
  <2>2. n \in Nat /\ clock - n \in 0..(STALE_AFTER_SLOTS_ELAPSED - 1)
    BY <1>4, <2>1, PriceIsRecent
  <2>3. /\ \E b \in BOOLEAN : market' = [at |-> n, slot |-> clock, stale |-> b, keys |-> k]
        /\ inForce' = TRUE /\ keys' = k
    BY <1>4 DEF InitReserve, RefreshReserve, Recorded
  <2> HIDE DEF n
  <2>4. OracleType'
    BY <1>t, <1>3, <1>4, <2>2, <2>3 DEF OracleType
  <2>5. KeysValid'
    BY <1>1, <1>4, <2>3 DEF KeysValid, Fits
  <2>6. PriceRecent'
    BY <1>t, <1>1, <2>2, <2>3 DEF PriceRecent, PassesForFresh
  <2> QED
    BY <1>2, <2>4, <2>5, <2>6
<1>5. ASSUME NEW k \in KeyPairs, Fits(k), InitReserve(k) PROVE OracleInv'
  <2>1. /\ k.pyth \in {NULL_PUBKEY, "usd"}
        /\ k.feed \in {NULL_PUBKEY, "v1", "v1_other_type", "v2"}
    BY <1>5 DEF InitReserve, Accepts, ValidPythKeys, QuoteCurrency, ValidSwitchboardKeys, KeyPairs,
       PythAccounts, FeedAccounts, NULL_PUBKEY
  <2> QED
    BY <1>4, <1>5, <2>1
<1>6. CASE RefreshReserve
  BY <1>4, <1>6, <1>t DEF KeysValid
<1>7. ASSUME NEW k \in KeyPairs, Fits(k), UpdateReserveConfig(k) PROVE OracleInv'
  <2>1. /\ k.pyth \in {NULL_PUBKEY, "usd"}
        /\ k.feed \in {NULL_PUBKEY, "v1", "v1_other_type", "v2"}
    BY <1>7 DEF UpdateReserveConfig, KeysValid, ValidPythKeys, QuoteCurrency, ValidSwitchboardKeys, KeyPairs,
       PythAccounts, FeedAccounts, NULL_PUBKEY
  <2>2. keys' = k /\ market' = market /\ inForce' = (inForce \/ market.keys = k)
    BY <1>7 DEF UpdateReserveConfig
  <2>3. OracleType'
    BY <1>3, <1>7, <1>t, <2>2 DEF OracleType
  <2>4. KeysValid'
    BY <1>1, <1>7, <2>1, <2>2 DEF KeysValid, Fits
  <2>5. PriceRecent'
    BY <1>1, <2>2 DEF PriceRecent, PassesForFresh
  <2> QED
    BY <1>2, <2>3, <2>4, <2>5
<1>8. CASE MoveLiquidity
  <2>1. market' = [market EXCEPT !.slot = clock, !.stale = TRUE] /\ UNCHANGED <<keys, inForce>>
    BY <1>8 DEF MoveLiquidity, InterestThenStale
  <2>2. /\ market' \in [at : Nat, slot : Int, stale : BOOLEAN, keys : KeyPairs]
        /\ market'.slot = clock /\ market'.stale = TRUE
    <3>1. market.at \in Nat /\ market.keys \in KeyPairs
      BY <1>t
    <3>2. \E b \in BOOLEAN :
            /\ b = TRUE
            /\ market' = [at |-> market.at, slot |-> clock, stale |-> b, keys |-> market.keys]
      BY <1>t, <2>1
    <3> QED
      BY <1>t, <3>1, <3>2
  <2>3. OracleType'
    <3>1. keys' \in KeyPairs /\ inForce' \in BOOLEAN
      BY <1>t, <2>1 DEF OracleType
    <3> QED
      BY <1>3, <2>2, <3>1 DEF OracleType
  <2>4. KeysValid'
    BY <1>1, <2>1 DEF KeysValid, Fits
  <2>5. PriceRecent'
    BY <1>1, <1>t, <2>2 DEF PriceRecent, PassesForFresh
  <2> QED
    BY <1>2, <2>3, <2>4, <2>5
<1> QED
  BY <1>5, <1>6, <1>7, <1>8

LEMMA AnsweredRound ==
  ASSUME NEW r \in Rounds, NEW v \in Int
  PROVE  /\ [r EXCEPT !.success = @ + 1, !.result = v] \in Rounds
         /\ [r EXCEPT !.success = @ + 1, !.result = v].slot = r.slot
<1> DEFINE n == r.success + 1
<1>1. n \in Nat
  BY DEF Rounds
<1> SUFFICES /\ [r EXCEPT !.success = n, !.result = v] \in Rounds
             /\ [r EXCEPT !.success = n, !.result = v].slot = r.slot
  OBVIOUS
<1> HIDE DEF n
<1> QED
  BY <1>1 DEF Rounds

(* The publishers and the clock. *)
LEMMA PublishersKeep ==
  ASSUME OracleInv,
         \/ Tick \/ OpenRound \/ \E v \in Answers : Respond(v)
         \/ \E r \in PythReports, t \in {clock, clock + 1} : PythPublish(r, t)
  PROVE  OracleInv'
<1> USE DEF OracleInv
<1>t. OracleType /\ keys \in KeyPairs /\ clock \in Nat
  BY DEF OracleType
<1>f. feed = [version |-> feed.version, last |-> feed.last, current |-> feed.current]
  <2>1. feed \in [version : {1, 2}, last : {feed.last}, current : {feed.current}]
    BY DEF OracleType
  <2> QED
    BY <2>1
<1>1. CASE Tick
  <2>1. clock' = clock + 1 /\ UNCHANGED <<pyth, feed, keys, market>> /\ inForce' \in BOOLEAN
    BY <1>1 DEF Tick
  <2>2. OracleType'
    BY <1>t, <2>1 DEF OracleType, AtMostOneOf
  <2>3. KeysValid'
    BY <2>1 DEF KeysValid, Fits
  <2>4. RoundsInOrder'
    <3>1. /\ feed.last # <<>> => feed.last[1].slot \in Nat
          /\ feed.current # <<>> => feed.current[1].slot \in Nat
      BY FeedParts DEF Rounds
    <3> QED
      BY <1>t, <2>1, <3>1 DEF RoundsInOrder
  <2>5. PriceRecent'
    <3>1. market.slot \in Int
      BY DEF OracleType
    <3>2. market'.slot < clock'
      BY <1>t, <2>1, <3>1 DEF PriceRecent
    <3> QED
      BY <1>t, <2>1, <3>1, <3>2 DEF PriceRecent, PassesForFresh
  <2> QED
    BY <2>2, <2>3, <2>4, <2>5
<1>2. ASSUME NEW r \in PythReports, NEW t \in {clock, clock + 1}, PythPublish(r, t) PROVE OracleInv'
  <2>1. /\ pyth' = [ptype |-> r.ptype, status |-> r.status, price |-> r.price, conf |-> r.conf,
                    expo |-> r.expo, valid_slot |-> t]
        /\ UNCHANGED <<clock, feed, keys, market, inForce>>
    BY <1>2 DEF PythPublish
  <2>2. /\ pyth'.price \in Int /\ pyth'.conf \in Nat /\ pyth'.expo \in -1..2
        /\ pyth'.valid_slot \in Nat
    BY <1>t, <2>1, ReportsAssumption
  <2>3. OracleType'
    BY <2>1, <2>2 DEF OracleType, AtMostOneOf
  <2>4. KeysValid' /\ RoundsInOrder' /\ PriceRecent'
    BY <2>1 DEF KeysValid, Fits, RoundsInOrder, PriceRecent, PassesForFresh
  <2> QED
    BY <2>3, <2>4
<1>3. ASSUME NEW f, feed' = f, UNCHANGED <<clock, pyth, keys, market, inForce>>,
             f = [version |-> feed.version, last |-> f.last, current |-> f.current],
             AtMostOneOf(f.last), AtMostOneOf(f.current), RoundsInOrder'
      PROVE  OracleInv'
  <2>1. OracleType'
    BY <1>3, <1>t DEF OracleType, AtMostOneOf
  <2>2. feed'.version = feed.version
    BY <1>3
  <2>3. KeysValid' /\ PriceRecent'
    BY <1>3, <2>2 DEF KeysValid, Fits, PriceRecent, PassesForFresh
  <2> QED
    BY <1>3, <2>1, <2>3
<1>4. CASE OpenRound
  <2> DEFINE r == Round(0, clock, 0)
             last == IF CurrentRoundValid THEN feed.current ELSE feed.last
             f == [version |-> feed.version, last |-> last, current |-> <<r>>]
  <2>1. r \in Rounds /\ r.slot = clock
    BY <1>t DEF Round, Rounds
  <2>2. feed' = f /\ UNCHANGED <<clock, pyth, keys, market, inForce>>
    BY <1>4, <1>f DEF OpenRound
  <2> HIDE DEF r
  <2>3. AtMostOneOf(<<r>>) /\ AtMostOneOf(last) /\ <<r>> # <<>> /\ <<r>>[1] = r
    BY <2>1 DEF AtMostOneOf, OracleType
  <2>4. /\ f.version = feed.version /\ f.last = last /\ f.current = <<r>>
        /\ f = [version |-> feed.version, last |-> last, current |-> <<r>>]
    OBVIOUS
  <2>5. /\ feed.version = 1 /\ last # <<>> => last[1].success >= MinConfirmations
        /\ feed.version = 2 => last # <<>>
        /\ last # <<>> => last[1].slot <= clock
    BY DEF RoundsInOrder, CurrentRoundValid
  <2> HIDE DEF f, last
  <2>6. RoundsInOrder'
    BY <1>t, <2>1, <2>2, <2>3, <2>4, <2>5 DEF RoundsInOrder
  <2> QED
    BY <1>3, <2>2, <2>3, <2>4, <2>6
<1>5. ASSUME NEW v \in Answers, Respond(v) PROVE OracleInv'
  <2> DEFINE r == feed.current[1]
             q == [r EXCEPT !.success = @ + 1, !.result = v]
             f == [version |-> feed.version, last |-> feed.last, current |-> <<q>>]
  <2>1. r \in Rounds /\ feed.current = <<r>> /\ feed.current # <<>>
        /\ UNCHANGED <<clock, pyth, keys, market, inForce>>
    BY <1>5, FeedParts DEF Respond
  <2>2. q \in Rounds /\ q.slot = r.slot
    BY <2>1, OracleAssumption, AnsweredRound
  <2>3. [feed.current EXCEPT ![1] = q] = <<q>>
    BY <2>1
  <2>4. feed' = f
    <3>1. feed' = [feed EXCEPT !.current = [feed.current EXCEPT ![1] = q]]
      BY <1>5, <2>1 DEF Respond, Rounds
    <3> QED
      BY <1>f, <2>3, <3>1
  <2> HIDE DEF q
  <2>5. AtMostOneOf(<<q>>) /\ <<q>> # <<>> /\ <<q>>[1] = q
    BY <2>2 DEF AtMostOneOf
  <2>6. /\ f.version = feed.version /\ f.last = feed.last /\ f.current = <<q>>
        /\ f = [version |-> feed.version, last |-> feed.last, current |-> <<q>>]
    OBVIOUS
  <2>7. AtMostOneOf(feed.last)
    BY DEF OracleType
  <2> HIDE DEF f
  <2>8. RoundsInOrder'
    BY <2>1, <2>2, <2>4, <2>5, <2>6 DEF RoundsInOrder
  <2> QED
    BY <1>3, <2>1, <2>4, <2>5, <2>6, <2>7, <2>8
<1> QED
  BY <1>1, <1>2, <1>4, <1>5

LEMMA OracleInvariant == Spec => []OracleInv
<1>1. OracleInv /\ [Next]_vars => OracleInv'
  <2> SUFFICES ASSUME OracleInv, [Next]_vars PROVE OracleInv'
    OBVIOUS
  <2>1. CASE UNCHANGED vars
    BY <2>1 DEF vars, OracleInv, OracleType, AtMostOneOf, KeysValid, Fits, RoundsInOrder,
       PriceRecent, PassesForFresh
  <2> QED
    BY <2>1, InstructionsKeep, PublishersKeep DEF Next
<1> QED
  BY <1>1, InitOracle, PTL DEF Spec

(* A reserve that passes for fresh has a price that is recent, and of        *)
(* oracles it had in this slot, whatever the publishers report and whichever *)
(* of the reserve's instructions run in whatever order: is_stale cannot pass *)
(* a price that get_pyth_price or get_switchboard_price would now refuse for *)
(* its age.                                                                  *)
THEOREM FreshPriceAlwaysRecent == Spec => []FreshPriceIsRecent
<1>1. OracleInv => FreshPriceIsRecent
  BY DEF OracleInv, OracleType, PriceRecent, FreshPriceIsRecent, PassesForFresh
<1> QED
  BY <1>1, OracleInvariant, PTL
-----------------------------------------------------------------------------
(* A sound Pyth price is a usable one, and is not zero. *)
LEMMA SoundIsUsable ==
  ASSUME OracleType, NEW k, ~(pyth.conf * 10 > U64_MAX)
  PROVE  SoundPyth(k) <=> PythUsable(k) /\ TsPythPrice # 0
<1>t. /\ clock \in Nat /\ pyth.valid_slot \in Nat /\ pyth.price \in Int /\ pyth.conf \in Nat
      /\ pyth.expo \in -1..2 /\ U64_MAX \in Nat
  BY OracleAssumption DEF OracleType
<1>p. Pow10(0) = 1 /\ Pow10(1) = 10 /\ Pow10(2) = 100
  BY DEF Pow10
<1>1. clock - pyth.valid_slot \in 0..(STALE_AFTER_SLOTS_ELAPSED - 1)
        <=> ~(pyth.valid_slot > clock) /\ ~TooOld(pyth.valid_slot)
  BY <1>t, AgeIsSmall, NotTooOld
<1>2. pyth.conf * 10 <= pyth.price <=> ~TooWide(pyth)
  BY <1>t DEF TooWide
<1>3. (pyth.expo < 0 \/ Pow10(pyth.expo) <= U64_MAX)
        <=> ~(pyth.expo >= 0 /\ Pow10(pyth.expo) > U64_MAX)
  <2>1. pyth.expo >= 0 => Pow10(pyth.expo) \in Nat
    BY <1>t, <1>p
  <2> QED
    BY <1>t, <2>1
<1>4. TsPythPrice # 0 <=> pyth.price # 0
  <2>1. CASE pyth.expo = -1
    <3>1. TsPythPrice = (pyth.price * 10) \div 10
      BY <2>1, <1>p DEF TsPythPrice, SCALE
    <3> QED
      BY <1>t, <3>1
  <2>2. CASE pyth.expo = 0
    BY <1>t, <1>p, <2>2 DEF TsPythPrice, SCALE
  <2>3. CASE pyth.expo = 1
    BY <1>t, <1>p, <2>3 DEF TsPythPrice, SCALE
  <2>4. CASE pyth.expo = 2
    BY <1>t, <1>p, <2>4 DEF TsPythPrice, SCALE
  <2> QED
    BY <1>t, <2>1, <2>2, <2>3, <2>4
<1>5. pyth.price > 0 <=> ~(pyth.price < 0) /\ pyth.price # 0
  BY <1>t
<1> QED
  BY <1>1, <1>2, <1>3, <1>4, <1>5 DEF SoundPyth, PythUsable

(* Confirmed rounds are rounds. *)
LEMMA ConfirmedParts ==
  ASSUME OracleType, feed.last # <<>>, feed.last[1] \in ConfirmedRounds
  PROVE  /\ feed.last[1] \in Rounds
         /\ feed.last[1].success >= MinConfirmations
         /\ clock - feed.last[1].slot \in 0..(STALE_AFTER_SLOTS_ELAPSED - 1)
  BY FeedParts DEF ConfirmedRounds

(* A confirmed last round makes the feed usable. *)
LEMMA LastServes ==
  ASSUME OracleInv, keys.feed \in {"v1", "v2"}, feed.last # <<>>,
         feed.last[1] \in ConfirmedRounds, feed.last[1].result >= 0
  PROVE  FeedUsable(keys)
<1>t. OracleType /\ clock \in Nat /\ RoundsInOrder
  BY DEF OracleInv, OracleType
<1>l. /\ feed.last[1] \in Rounds /\ feed.last[1].success >= MinConfirmations
      /\ clock - feed.last[1].slot \in 0..(STALE_AFTER_SLOTS_ELAPSED - 1)
      /\ feed.last[1].slot \in Nat /\ feed.last[1].success \in Nat /\ feed.last[1].result \in Int
  BY <1>t, ConfirmedParts DEF Rounds
<1>1. CASE keys.feed = "v2"
  <2>1. FeedRound(keys) = feed.last[1]
    BY <1>1 DEF FeedRound
  <2>2. EnoughResults(feed.last[1])
    BY <1>l, OracleAssumption DEF EnoughResults
  <2>3. ~(feed.last[1].slot > clock) /\ ~TooOld(feed.last[1].slot)
    BY <1>l, <1>t, NotTooOld
  <2>4. ~(feed.last[1].result < 0)
    BY <1>l
  <2> QED
    BY <1>1, <2>1, <2>2, <2>3, <2>4 DEF FeedUsable
<1>2. CASE keys.feed = "v1"
  <2>0. FeedRound(keys) = AggregatorResult[1]
    BY <1>2 DEF FeedRound
  <2>1. CASE CurrentRoundValid
    <3>1. /\ AggregatorResult = feed.current /\ feed.current # <<>>
          /\ feed.current[1].slot \in Nat
      BY <2>1, <1>t, FeedParts DEF AggregatorResult, CurrentRoundValid, Rounds
    <3>2. feed.last[1].slot <= feed.current[1].slot /\ feed.current[1].slot <= clock
      BY <1>t, <3>1 DEF RoundsInOrder
    <3>3. clock - feed.current[1].slot \in 0..(STALE_AFTER_SLOTS_ELAPSED - 1)
      BY <1>l, <1>t, <3>1, <3>2, OracleAssumption
    <3>4. ~(feed.current[1].slot > clock) /\ ~TooOld(feed.current[1].slot)
      BY <1>t, <3>1, <3>3, NotTooOld
    <3> QED
      BY <1>2, <2>0, <3>1, <3>4 DEF FeedUsable
  <2>2. CASE ~CurrentRoundValid
    <3>1. AggregatorResult = feed.last
      BY <2>2 DEF AggregatorResult
    <3>2. ~(feed.last[1].slot > clock) /\ ~TooOld(feed.last[1].slot)
      BY <1>l, <1>t, NotTooOld
    <3> QED
      BY <1>2, <2>0, <3>1, <3>2 DEF FeedUsable
  <2> QED
    BY <2>1, <2>2
<1> QED
  BY <1>1, <1>2

(* The trouble of one oracle never becomes the trouble of the other: a sound *)
(* Pyth price is used, without one a price is the answer of a round that was *)
(* confirmed in time, and a confirmed last round of the feed is enough for a *)
(* refresh to succeed, for every history of reports and rounds (get_price).  *)
THEOREM FallbackAlwaysWorks == Spec => []FallbackWorks
<1>1. ASSUME OracleInv PROVE FallbackWorks
  <2> SUFFICES ASSUME keys # NoReserve, ~(pyth.conf * 10 > U64_MAX)
               PROVE  IF SoundPyth(keys) THEN GetPrice(keys).verdict = "ok" /\ GetPrice(keys).from = "pyth"
                      ELSE /\ GetPrice(keys).verdict = "ok" =>
                                \E c \in ConfirmedRounds : GetPrice(keys).at = c.slot /\
                                  GetPrice(keys).price = IF c.result < 0 THEN 0 ELSE c.result * SCALE
                           /\ ( /\ keys.feed \in {"v1", "v2"}
                                /\ feed.last # <<>> /\ {feed.last[1]} \cap ConfirmedRounds # {}
                                /\ feed.last[1].result >= 0 ) => GetPrice(keys).verdict = "ok"
    BY DEF FallbackWorks
  <2>t. /\ OracleType /\ keys \in KeyPairs /\ Fits(keys)
        /\ keys.feed \in {NULL_PUBKEY, "v1", "v1_other_type", "v2"}
    BY <1>1 DEF OracleInv, OracleType, KeysValid
  <2>1. CASE SoundPyth(keys)
    <3>1. PythUsable(keys) /\ TsPythPrice # 0
      BY <2>1, <2>t, SoundIsUsable
    <3> QED
      BY <2>1, <2>t, <3>1, PriceReading, ResultFields
  <2>2. CASE ~SoundPyth(keys)
    <3>1. ~(PythUsable(keys) /\ TsPythPrice # 0)
      BY <2>2, <2>t, SoundIsUsable
    <3> DEFINE c == FeedRound(keys)
    <3>2. \/ /\ FeedUsable(keys)
             /\ GetPrice(keys) = Result("ok", Unsigned(c.result) * SCALE, "feed", c.slot)
          \/ ~FeedUsable(keys) /\ GetPrice(keys) = Err
      BY <2>t, <3>1, PriceReading
    <3>3. ASSUME GetPrice(keys).verdict = "ok"
          PROVE  \E d \in ConfirmedRounds : GetPrice(keys).at = d.slot /\
                   GetPrice(keys).price = IF d.result < 0 THEN 0 ELSE d.result * SCALE
      <4>1. /\ FeedUsable(keys)
            /\ GetPrice(keys).at = c.slot /\ GetPrice(keys).price = Unsigned(c.result) * SCALE
        BY <3>2, <3>3, ResultFields
      <4>2. c \in ConfirmedRounds /\ c.result \in Int
        BY <1>1, <2>t, <4>1, FeedRoundConfirmed DEF Rounds
      <4>3. Unsigned(c.result) * SCALE = IF c.result < 0 THEN 0 ELSE c.result * SCALE
        BY <4>2 DEF Unsigned, SCALE
      <4> HIDE DEF c
      <4> QED
        BY <4>1, <4>2, <4>3
    <3>4. ASSUME keys.feed \in {"v1", "v2"}, feed.last # <<>>,
                 {feed.last[1]} \cap ConfirmedRounds # {}, feed.last[1].result >= 0
          PROVE  GetPrice(keys).verdict = "ok"
      BY <1>1, <3>2, <3>4, LastServes, ResultFields
    <3> QED
      BY <2>2, <3>3, <3>4
  <2> QED
    BY <2>1, <2>2
<1> QED
  BY <1>1, OracleInvariant, PTL

(* Whenever the program's price comes from Pyth, or from a feed of the       *)
(* second version alone, the TypeScript bot's getTokenOracleData reads the   *)
(* same price out of the same accounts, whatever the publishers wrote.       *)
THEOREM BotAlwaysSeesTheSamePrice == Spec => []BotSeesTheSamePrice
<1>1. ASSUME OracleInv PROVE BotSeesTheSamePrice
  <2> SUFFICES ASSUME keys # NoReserve, GetPrice(keys).verdict = "ok",
                      GetPrice(keys).from = "pyth" \/ (keys.pyth = NULL_PUBKEY /\ keys.feed = "v2")
               PROVE  TsPrice(keys) = GetPrice(keys).price
    BY DEF BotSeesTheSamePrice
  <2>t. /\ OracleType /\ keys \in KeyPairs /\ Fits(keys) /\ RoundsInOrder
        /\ keys.feed \in {NULL_PUBKEY, "v1", "v1_other_type", "v2"}
    BY <1>1 DEF OracleInv, OracleType, KeysValid
  <2>1. CASE PythUsable(keys) /\ TsPythPrice # 0
    <3>1. GetPrice(keys).price = TsPythPrice /\ keys.pyth # NULL_PUBKEY
      BY <2>1, <2>t, PriceReading, ResultFields DEF PythUsable
    <3> QED
      BY <3>1 DEF TsPrice
  <2>2. CASE ~(PythUsable(keys) /\ TsPythPrice # 0)
    <3>1. /\ FeedUsable(keys) /\ GetPrice(keys).from = "feed"
          /\ GetPrice(keys).price = Unsigned(FeedRound(keys).result) * SCALE
      BY <2>2, <2>t, PriceReading, ResultFields
    <3>2. keys.pyth = NULL_PUBKEY /\ keys.feed = "v2"
      BY <3>1
    <3>3. feed.last # <<>> /\ FeedRound(keys) = feed.last[1]
      BY <2>t, <3>2 DEF Fits, RoundsInOrder, FeedRound
    <3>4. Unsigned(feed.last[1].result) = feed.last[1].result
      BY <3>1, <3>2, <3>3 DEF FeedUsable, Unsigned
    <3> QED
      BY <3>1, <3>2, <3>3, <3>4 DEF TsPrice
  <2> QED
    BY <2>1, <2>2
<1> QED
  BY <1>1, OracleInvariant, PTL
=============================================================================
