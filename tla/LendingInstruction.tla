-------------------------- MODULE LendingInstruction --------------------------
(***************************************************************************)
(* The wire format of the lending program: how a client packs an           *)
(* instruction and lists its accounts, and how the program unpacks the     *)
(* bytes, dispatches on the tag and reads the accounts one by one.         *)
(*                                                                         *)
(* Three parties write the same format down independently: the builders of *)
(* instruction.rs, the builders of the TypeScript bot and the comments on  *)
(* the LendingInstruction enum, from which a third party would work.  The  *)
(* processor knows only the order in which it calls next_account_info.     *)
(*                                                                         *)
(* A byte is <<v, i>>, the i-th byte of the value v, so that a field read  *)
(* with another width, or at another place, than it was written is seen.   *)
(***************************************************************************)
EXTENDS Naturals, Sequences, FiniteSets, SequencesExt

CONSTANTS
  MaxReserves   (* deposits, and borrows, of the obligation refreshed.      *)

VARIABLES
  tx,       (* the instruction on its way to the program, or NoTx.          *)
  last      (* what the program made of the last one, or NoTx.              *)

vars == <<tx, last>>

NoTx == [client |-> "none"]
Garbage == <<"garbage", 0>>

(***************************************************************************)
(* Tags and payloads.  A field is <<name, width in bytes>>.                 *)
(***************************************************************************)
U8 == 1
U64 == 8
PUBKEY_BYTES == 32

Kinds == {"InitLendingMarket", "SetLendingMarketOwner", "InitReserve",
          "RefreshReserve", "DepositReserveLiquidity", "RedeemReserveCollateral",
          "InitObligation", "RefreshObligation", "DepositObligationCollateral",
          "WithdrawObligationCollateral", "BorrowObligationLiquidity",
          "RepayObligationLiquidity", "LiquidateObligation", "FlashLoan",
          "DepositReserveLiquidityAndObligationCollateral",
          "WithdrawObligationCollateralAndRedeemReserveCollateral",
          "UpdateReserveConfig", "LiquidateObligationAndRedeemReserveCollateral",
          "RedeemFees"}

PackTag(k) ==
  CASE k = "InitLendingMarket" -> 0
    [] k = "SetLendingMarketOwner" -> 1
    [] k = "InitReserve" -> 2
    [] k = "RefreshReserve" -> 3
    [] k = "DepositReserveLiquidity" -> 4
    [] k = "RedeemReserveCollateral" -> 5
    [] k = "InitObligation" -> 6
    [] k = "RefreshObligation" -> 7
    [] k = "DepositObligationCollateral" -> 8
    [] k = "WithdrawObligationCollateral" -> 9
    [] k = "BorrowObligationLiquidity" -> 10
    [] k = "RepayObligationLiquidity" -> 11
    [] k = "LiquidateObligation" -> 12
    [] k = "FlashLoan" -> 13
    [] k = "DepositReserveLiquidityAndObligationCollateral" -> 14
    [] k = "WithdrawObligationCollateralAndRedeemReserveCollateral" -> 15
    [] k = "UpdateReserveConfig" -> 16
    [] k = "LiquidateObligationAndRedeemReserveCollateral" -> 17
    [] k = "RedeemFees" -> 18

\* The tags the match of unpack knows; the wildcard arm answers for the rest.
UnpackTag == <<"InitLendingMarket", "SetLendingMarketOwner", "InitReserve",
  "RefreshReserve", "DepositReserveLiquidity", "RedeemReserveCollateral",
  "InitObligation", "RefreshObligation", "DepositObligationCollateral",
  "WithdrawObligationCollateral", "BorrowObligationLiquidity",
  "RepayObligationLiquidity", "LiquidateObligation", "FlashLoan",
  "DepositReserveLiquidityAndObligationCollateral",
  "WithdrawObligationCollateralAndRedeemReserveCollateral", "UpdateReserveConfig",
  "LiquidateObligationAndRedeemReserveCollateral", "RedeemFees">>

\* Variant: the two borrow rates are written in the other order.
PackConfigSwapped ==
  <<<<"optimal_utilization_rate", U8>>, <<"loan_to_value_ratio", U8>>,
    <<"liquidation_bonus", U8>>, <<"liquidation_threshold", U8>>,
    <<"optimal_borrow_rate", U8>>, <<"min_borrow_rate", U8>>,
    <<"max_borrow_rate", U8>>, <<"borrow_fee_wad", U64>>,
    <<"flash_loan_fee_wad", U64>>, <<"host_fee_percentage", U8>>,
    <<"deposit_limit", U64>>, <<"borrow_limit", U64>>,
    <<"fee_receiver", PUBKEY_BYTES>>, <<"protocol_liquidation_fee", U8>>,
    <<"protocol_take_rate", U8>>>>

PackConfig ==
  <<<<"optimal_utilization_rate", U8>>, <<"loan_to_value_ratio", U8>>,
    <<"liquidation_bonus", U8>>, <<"liquidation_threshold", U8>>,
    <<"min_borrow_rate", U8>>, <<"optimal_borrow_rate", U8>>,
    <<"max_borrow_rate", U8>>, <<"borrow_fee_wad", U64>>,
    <<"flash_loan_fee_wad", U64>>, <<"host_fee_percentage", U8>>,
    <<"deposit_limit", U64>>, <<"borrow_limit", U64>>,
    <<"fee_receiver", PUBKEY_BYTES>>, <<"protocol_liquidation_fee", U8>>,
    <<"protocol_take_rate", U8>>>>

UnpackConfig ==
  <<<<"optimal_utilization_rate", U8>>, <<"loan_to_value_ratio", U8>>,
    <<"liquidation_bonus", U8>>, <<"liquidation_threshold", U8>>,
    <<"min_borrow_rate", U8>>, <<"optimal_borrow_rate", U8>>,
    <<"max_borrow_rate", U8>>, <<"borrow_fee_wad", U64>>,
    <<"flash_loan_fee_wad", U64>>, <<"host_fee_percentage", U8>>,
    <<"deposit_limit", U64>>, <<"borrow_limit", U64>>,
    <<"fee_receiver", PUBKEY_BYTES>>, <<"protocol_liquidation_fee", U8>>,
    <<"protocol_take_rate", U8>>>>

PackFields(k) ==
  CASE k = "InitLendingMarket" -> <<<<"owner", PUBKEY_BYTES>>, <<"quote_currency", 32>>>>
    [] k = "SetLendingMarketOwner" -> <<<<"new_owner", PUBKEY_BYTES>>>>
    [] k = "InitReserve" -> <<<<"liquidity_amount", U64>>>> \o PackConfig
    [] k \in {"RefreshReserve", "InitObligation", "RefreshObligation", "RedeemFees"} -> <<>>
    [] k \in {"RedeemReserveCollateral", "DepositObligationCollateral",
              "WithdrawObligationCollateral",
              "WithdrawObligationCollateralAndRedeemReserveCollateral"} ->
         <<<<"collateral_amount", U64>>>>
    [] k = "FlashLoan" -> <<<<"amount", U64>>>>
    [] k = "UpdateReserveConfig" -> PackConfig
    [] OTHER -> <<<<"liquidity_amount", U64>>>>

UnpackFields(k) ==
  CASE k = "InitLendingMarket" -> <<<<"owner", PUBKEY_BYTES>>, <<"quote_currency", 32>>>>
    [] k = "SetLendingMarketOwner" -> <<<<"new_owner", PUBKEY_BYTES>>>>
    [] k = "InitReserve" -> <<<<"liquidity_amount", U64>>>> \o UnpackConfig
    [] k \in {"RefreshReserve", "InitObligation", "RefreshObligation", "RedeemFees"} -> <<>>
    [] k \in {"RedeemReserveCollateral", "DepositObligationCollateral",
              "WithdrawObligationCollateral",
              "WithdrawObligationCollateralAndRedeemReserveCollateral"} ->
         <<<<"collateral_amount", U64>>>>
    [] k = "FlashLoan" -> <<<<"amount", U64>>>>
    [] k = "UpdateReserveConfig" -> UnpackConfig
    [] OTHER -> <<<<"liquidity_amount", U64>>>>

\* The payloads a client may choose: every field has two values of its own.
Payloads(k) ==
  {[f \in {p[1] : p \in ToSet(PackFields(k))} |-> <<f, n>>] : n \in 1..2}

Bytes(v, w) == [i \in 1..w |-> <<v, i>>]

Pack(k, args) ==
  Bytes(<<"tag", PackTag(k)>>, 1)
    \o FlattenSeq([i \in DOMAIN PackFields(k) |->
                     Bytes(args[PackFields(k)[i][1]], PackFields(k)[i][2])])

\* unpack_u8, unpack_u64, unpack_bytes32 and unpack_pubkey: a value read back
\* from the bytes of one value, in order, is that value.
ReadAt(buf, from, w) ==
  LET slice == SubSeq(buf, from, from + w - 1)
  IN  IF slice = Bytes(slice[1][1], w) THEN slice[1][1] ELSE Garbage

OffsetOf(fields, i) ==
  2 + FoldLeft(LAMBDA n, p : n + p[2], 0, SubSeq(fields, 1, i - 1))

TooShort(buf, fields) == Len(buf) < OffsetOf(fields, Len(fields) + 1) - 1

UnpackError == [kind |-> "InstructionUnpackError", args |-> <<>>]

\* Bytes past the last field are the ignored _rest.
Unpack(buf) ==
  IF buf = <<>> \/ buf[1][1][1] # "tag" \/ buf[1][1][2] + 1 \notin DOMAIN UnpackTag
  THEN UnpackError
  ELSE LET k == UnpackTag[buf[1][1][2] + 1]
           fields == UnpackFields(k)
       IN  IF TooShort(buf, fields) THEN UnpackError
           ELSE [kind |-> k,
                 args |-> [f \in {p[1] : p \in ToSet(fields)} |->
                   LET i == CHOOSE i \in DOMAIN fields : fields[i][1] = f
                   IN  ReadAt(buf, OffsetOf(fields, i), fields[i][2])]]

(***************************************************************************)
(* Account lists.                                                           *)
(***************************************************************************)
Meta(r, w, s) == [role |-> r, writable |-> w, signer |-> s]
W(r) == Meta(r, TRUE, FALSE)       \* AccountMeta::new(_, false)
R(r) == Meta(r, FALSE, FALSE)      \* AccountMeta::new_readonly(_, false)
S(r) == Meta(r, FALSE, TRUE)       \* AccountMeta::new_readonly(_, true)
WS(r) == Meta(r, TRUE, TRUE)       \* AccountMeta::new(_, true)

Roles(rs) == [i \in DOMAIN rs |-> R(rs[i])]

\* The builders of instruction.rs, in the order of the file.
BuildMarket(k) ==
  CASE k = "InitLendingMarket" ->
         <<W("market"), R("rent"), R("token"), R("oracle_program"), R("switchboard_program")>>
    [] k = "SetLendingMarketOwner" -> <<W("market"), S("market_owner")>>
    [] k = "InitReserve" ->
         <<W("source_liquidity"), W("destination_collateral"), W("reserve"),
           R("liquidity_mint"), W("liquidity_supply"), W("fee_receiver"),
           W("collateral_mint"), W("collateral_supply"), R("pyth_product"),
           R("pyth_price"), R("switchboard_feed"), R("market"), R("authority"),
           S("market_owner"), S("user"), R("clock"), R("rent"), R("token")>>
    [] k = "RefreshReserve" ->
         <<W("reserve"), R("pyth_price"), R("switchboard_feed"), R("clock")>>

\* reserves is the list of reserves the caller passes for a refresh.
BuildPool(k, reserves) ==
  CASE k = "DepositReserveLiquidity" ->
         <<W("source_liquidity"), W("destination_collateral"), W("reserve"),
           W("liquidity_supply"), W("collateral_mint"), R("market"), R("authority"),
           S("user"), R("clock"), R("token")>>
    [] k = "RedeemReserveCollateral" ->
         <<W("source_collateral"), W("destination_liquidity"), W("reserve"),
           W("collateral_mint"), W("liquidity_supply"), R("market"), R("authority"),
           S("user"), R("clock"), R("token")>>
    [] k = "InitObligation" ->
         <<W("obligation"), R("market"), S("obligation_owner"), R("clock"), R("rent"), R("token")>>
    [] k = "RefreshObligation" -> <<W("obligation"), R("clock")>> \o Roles(reserves)
    [] k = "DepositObligationCollateral" ->
         <<W("source_collateral"), W("collateral_supply"), W("reserve"), W("obligation"),
           R("market"), S("obligation_owner"), S("user"), R("clock"), R("token")>>

BuildPosition(k) ==
  CASE k = "DepositReserveLiquidityAndObligationCollateral" ->
         <<W("source_liquidity"), W("destination_collateral"), W("reserve"),
           W("liquidity_supply"), W("collateral_mint"), R("market"), R("authority"),
           W("collateral_supply"), W("obligation"), WS("obligation_owner"),
           R("pyth_price"), R("switchboard_feed"), S("user"), R("clock"), R("token")>>
    [] k = "WithdrawObligationCollateralAndRedeemReserveCollateral" ->
         <<W("collateral_supply"), W("destination_collateral"), W("reserve"),
           W("obligation"), R("market"), R("authority"), W("destination_liquidity"),
           W("collateral_mint"), W("liquidity_supply"), WS("obligation_owner"),
           S("user"), R("clock"), R("token")>>
    [] k = "WithdrawObligationCollateral" ->
         <<W("collateral_supply"), W("destination_collateral"), R("reserve"),
           W("obligation"), R("market"), R("authority"), S("obligation_owner"),
           R("clock"), R("token")>>

\* host says whether the caller names a host fee receiver.
BuildDebt(k, host) ==
  CASE k = "BorrowObligationLiquidity" ->
         <<W("liquidity_supply"), W("destination_liquidity"), W("reserve"),
           W("fee_receiver"), W("obligation"), R("market"), R("authority"),
           S("obligation_owner"), R("clock"), R("token")>>
           \o (IF host THEN <<W("host_fee")>> ELSE <<>>)
    [] k = "RepayObligationLiquidity" ->
         <<W("source_liquidity"), W("liquidity_supply"), W("reserve"), W("obligation"),
           R("market"), S("user"), R("clock"), R("token")>>
    [] k = "LiquidateObligation" ->
         <<W("source_liquidity"), W("destination_collateral"), W("repay_reserve"),
           W("repay_supply"), R("withdraw_reserve"), W("withdraw_collateral_supply"),
           W("obligation"), R("market"), R("authority"), S("user"), R("clock"), R("token")>>

\* flash_loan and generic_flash_loan build the same list.
BuildFlashLoan ==
  <<W("liquidity_supply"), W("destination_liquidity"), W("reserve"),
    W("fee_receiver"), W("host_fee"), R("market"), R("authority"),
    R("token"), R("receiver_program")>>

BuildUpdateReserveConfig ==
  <<W("reserve"), R("market"), R("authority"), S("market_owner"),
    R("pyth_product"), R("pyth_price"), R("switchboard_feed")>>

\* Variant: the withdraw reserve of a liquidation is passed read-only, as it may
\* be for a plain liquidate_obligation.
BuildLiquidateReadonly ==
  <<W("source_liquidity"), W("destination_collateral"), W("destination_liquidity"),
    W("repay_reserve"), W("repay_supply"), R("withdraw_reserve"),
    W("withdraw_mint"), W("withdraw_collateral_supply"),
    W("withdraw_liquidity_supply"), W("fee_receiver"), W("obligation"),
    R("market"), R("authority"), S("user"), R("token")>>

\* liquidate_obligation_and_redeem_reserve_collateral, the builder the bot uses.
BuildLiquidate ==
  <<W("source_liquidity"), W("destination_collateral"), W("destination_liquidity"),
    W("repay_reserve"), W("repay_supply"), W("withdraw_reserve"),
    W("withdraw_mint"), W("withdraw_collateral_supply"),
    W("withdraw_liquidity_supply"), W("fee_receiver"), W("obligation"),
    R("market"), R("authority"), S("user"), R("token")>>

BuildRedeemFees ==
  <<W("reserve"), W("fee_receiver"), W("liquidity_supply"), R("market"),
    R("authority"), R("token")>>

MarketKinds == {"InitLendingMarket", "SetLendingMarketOwner", "InitReserve", "RefreshReserve"}
PositionKinds == {"DepositReserveLiquidityAndObligationCollateral",
  "WithdrawObligationCollateralAndRedeemReserveCollateral", "WithdrawObligationCollateral"}
DebtKinds == {"BorrowObligationLiquidity", "RepayObligationLiquidity", "LiquidateObligation"}

Build(k, reserves, host) ==
  CASE k \in MarketKinds -> BuildMarket(k)
    [] k \in PositionKinds -> BuildPosition(k)
    [] k \in DebtKinds -> BuildDebt(k, host)
    [] k = "FlashLoan" -> BuildFlashLoan
    [] k = "UpdateReserveConfig" -> BuildUpdateReserveConfig
    [] k = "LiquidateObligationAndRedeemReserveCollateral" -> BuildLiquidate
    [] k = "RedeemFees" -> BuildRedeemFees
    [] OTHER -> BuildPool(k, reserves)

(***************************************************************************)
(* The lists the comments on the enum promise, for a client written from   *)
(* them alone: [writable] and [signer] as they are documented there.        *)
(***************************************************************************)
DocMarket(k) ==
  CASE k = "InitLendingMarket" ->
         <<W("market"), R("rent"), R("token"), R("oracle_program"), R("switchboard_program")>>
    [] k = "SetLendingMarketOwner" -> <<W("market"), S("market_owner")>>
    [] k = "InitReserve" ->
         <<W("source_liquidity"), W("destination_collateral"), W("reserve"),
           R("liquidity_mint"), W("liquidity_supply"), W("fee_receiver"),
           W("collateral_mint"), W("collateral_supply"), R("pyth_product"),
           R("pyth_price"), R("switchboard_feed"), R("market"), R("authority"),
           S("market_owner"), S("user"), R("clock"), R("rent"), R("token")>>
    [] k = "RefreshReserve" ->
         <<W("reserve"), R("pyth_price"), R("switchboard_feed"), R("clock")>>
    [] k = "DepositReserveLiquidity" ->
         <<W("source_liquidity"), W("destination_collateral"), W("reserve"),
           W("liquidity_supply"), W("collateral_mint"), R("market"), R("authority"),
           S("user"), R("clock"), R("token")>>
    [] k = "RedeemReserveCollateral" ->
         <<W("source_collateral"), W("destination_liquidity"), W("reserve"),
           W("collateral_mint"), W("liquidity_supply"), R("market"), R("authority"),
           S("user"), R("clock"), R("token")>>

DocObligation(k, reserves, host) ==
  CASE k = "InitObligation" ->
         <<W("obligation"), R("market"), S("obligation_owner"), R("clock"), R("rent"), R("token")>>
    [] k = "RefreshObligation" -> <<W("obligation"), R("clock")>> \o Roles(reserves)
    [] k = "DepositObligationCollateral" ->
         <<W("source_collateral"), W("collateral_supply"), W("reserve"), W("obligation"),
           R("market"), S("obligation_owner"), S("user"), R("clock"), R("token")>>
    [] k = "WithdrawObligationCollateral" ->
         <<W("collateral_supply"), W("destination_collateral"), R("reserve"),
           W("obligation"), R("market"), R("authority"), S("obligation_owner"),
           R("clock"), R("token")>>
    [] k = "BorrowObligationLiquidity" ->
         <<W("liquidity_supply"), W("destination_liquidity"), W("reserve"),
           W("fee_receiver"), W("obligation"), R("market"), R("authority"),
           S("obligation_owner"), R("clock"), R("token")>>
           \o (IF host THEN <<W("host_fee")>> ELSE <<>>)
    [] k = "RepayObligationLiquidity" ->
         <<W("source_liquidity"), W("liquidity_supply"), W("reserve"), W("obligation"),
           R("market"), S("user"), R("clock"), R("token")>>
    [] k = "LiquidateObligation" ->
         <<W("source_liquidity"), W("destination_collateral"), W("repay_reserve"),
           W("repay_supply"), R("withdraw_reserve"), W("withdraw_collateral_supply"),
           W("obligation"), R("market"), R("authority"), S("user"), R("clock"), R("token")>>

DocCombined(k) ==
  CASE k = "FlashLoan" ->
         <<W("liquidity_supply"), W("destination_liquidity"), W("reserve"),
           W("fee_receiver"), W("host_fee"), R("market"), R("authority"),
           R("token"), R("receiver_program")>>
    [] k = "DepositReserveLiquidityAndObligationCollateral" ->
         <<W("source_liquidity"), W("destination_collateral"), W("reserve"),
           W("liquidity_supply"), W("collateral_mint"), R("market"), R("authority"),
           W("collateral_supply"), W("obligation"), S("obligation_owner"),
           R("pyth_price"), R("switchboard_feed"), S("user"), R("clock"), R("token")>>
    [] k = "WithdrawObligationCollateralAndRedeemReserveCollateral" ->
         <<W("collateral_supply"), W("destination_collateral"), W("reserve"),
           W("obligation"), R("market"), R("authority"), W("destination_liquidity"),
           W("collateral_mint"), W("liquidity_supply"), S("obligation_owner"),
           S("user"), R("clock"), R("token")>>
    [] k = "UpdateReserveConfig" ->
         <<W("reserve"), R("market"), R("authority"), S("market_owner"),
           R("pyth_product"), R("pyth_price"), R("switchboard_feed")>>
    [] k = "LiquidateObligationAndRedeemReserveCollateral" ->
         <<W("source_liquidity"), W("destination_collateral"), W("destination_liquidity"),
           W("repay_reserve"), W("repay_supply"), W("withdraw_reserve"),
           W("withdraw_mint"), W("withdraw_collateral_supply"),
           W("withdraw_liquidity_supply"), W("fee_receiver"), W("obligation"),
           R("market"), R("authority"), S("user"), R("token")>>
    [] k = "RedeemFees" ->
         <<W("reserve"), W("fee_receiver"), W("liquidity_supply"), R("market"),
           R("authority"), R("token")>>

Documented(k, reserves, host) ==
  CASE k \in MarketKinds \cup {"DepositReserveLiquidity", "RedeemReserveCollateral"} -> DocMarket(k)
    [] k \in (PositionKinds \ {"WithdrawObligationCollateral"})
             \cup {"FlashLoan", "UpdateReserveConfig", "RedeemFees",
                   "LiquidateObligationAndRedeemReserveCollateral"} -> DocCombined(k)
    [] OTHER -> DocObligation(k, reserves, host)

(***************************************************************************)
(* The processor: the accounts a handler reads, in order, the ones it       *)
(* writes (a pack into their data, or a token instruction on them) and the  *)
(* ones that must have signed (an is_signer check, or the authority of a    *)
(* token instruction the program does not sign itself).                     *)
(***************************************************************************)
Handler(reads, writes, signs) == [reads |-> reads, writes |-> writes, signs |-> signs]

HandleMarket(k) ==
  CASE k = "InitLendingMarket" ->
         Handler(<<"market", "rent", "token", "oracle_program", "switchboard_program">>,
                 {"market"}, {})
    [] k = "SetLendingMarketOwner" ->
         Handler(<<"market", "market_owner">>, {"market"}, {"market_owner"})
    [] k = "InitReserve" ->
         Handler(<<"source_liquidity", "destination_collateral", "reserve", "liquidity_mint",
                   "liquidity_supply", "fee_receiver", "collateral_mint", "collateral_supply",
                   "pyth_product", "pyth_price", "switchboard_feed", "market", "authority",
                   "market_owner", "user", "clock", "rent", "token">>,
                 {"source_liquidity", "destination_collateral", "reserve", "liquidity_supply",
                  "fee_receiver", "collateral_mint", "collateral_supply"},
                 {"market_owner", "user"})

HandleReserve(k) ==
  CASE k = "RefreshReserve" ->
         Handler(<<"reserve", "pyth_price", "switchboard_feed", "clock">>, {"reserve"}, {})
    [] k = "DepositReserveLiquidity" ->
         Handler(<<"source_liquidity", "destination_collateral", "reserve", "liquidity_supply",
                   "collateral_mint", "market", "authority", "user", "clock", "token">>,
                 {"source_liquidity", "destination_collateral", "reserve", "liquidity_supply",
                  "collateral_mint"}, {"user"})
    [] k = "RedeemReserveCollateral" ->
         Handler(<<"source_collateral", "destination_liquidity", "reserve", "collateral_mint",
                   "liquidity_supply", "market", "authority", "user", "clock", "token">>,
                 {"source_collateral", "destination_liquidity", "reserve", "collateral_mint",
                  "liquidity_supply"}, {"user"})
    [] k = "FlashLoan" ->
         Handler(<<"liquidity_supply", "destination_liquidity", "reserve", "fee_receiver",
                   "host_fee", "market", "authority", "token", "receiver_program">>,
                 {"liquidity_supply", "destination_liquidity", "reserve", "fee_receiver",
                  "host_fee"}, {})
    [] k = "UpdateReserveConfig" ->
         Handler(<<"reserve", "market", "authority", "market_owner", "pyth_product",
                   "pyth_price", "switchboard_feed">>, {"reserve"}, {"market_owner"})
    [] k = "RedeemFees" ->
         Handler(<<"reserve", "fee_receiver", "liquidity_supply", "market", "authority", "token">>,
                 {"reserve", "fee_receiver", "liquidity_supply"}, {})

\* An obligation is refreshed with its deposit reserves in order and then its
\* borrow reserves in order, as they stand in the account.
HandleObligation(k, reserves) ==
  CASE k = "InitObligation" ->
         Handler(<<"obligation", "market", "obligation_owner", "clock", "rent", "token">>,
                 {"obligation"}, {"obligation_owner"})
    [] k = "RefreshObligation" ->
         Handler(<<"obligation", "clock">> \o reserves, {"obligation"}, {})
    [] k = "DepositObligationCollateral" ->
         Handler(<<"source_collateral", "collateral_supply", "reserve", "obligation", "market",
                   "obligation_owner", "user", "clock", "token">>,
                 {"source_collateral", "collateral_supply", "reserve", "obligation"},
                 {"obligation_owner", "user"})
    [] k = "DepositReserveLiquidityAndObligationCollateral" ->
         Handler(<<"source_liquidity", "destination_collateral", "reserve", "liquidity_supply",
                   "collateral_mint", "market", "authority", "collateral_supply", "obligation",
                   "obligation_owner", "pyth_price", "switchboard_feed", "user", "clock", "token">>,
                 {"source_liquidity", "destination_collateral", "reserve", "liquidity_supply",
                  "collateral_mint", "collateral_supply", "obligation"},
                 {"obligation_owner", "user"})
    [] k = "WithdrawObligationCollateral" ->
         Handler(<<"collateral_supply", "destination_collateral", "reserve", "obligation",
                   "market", "authority", "obligation_owner", "clock", "token">>,
                 {"collateral_supply", "destination_collateral", "obligation"},
                 {"obligation_owner"})
    [] k = "WithdrawObligationCollateralAndRedeemReserveCollateral" ->
         Handler(<<"collateral_supply", "destination_collateral", "reserve", "obligation",
                   "market", "authority", "destination_liquidity", "collateral_mint",
                   "liquidity_supply", "obligation_owner", "user", "clock", "token">>,
                 {"collateral_supply", "destination_collateral", "reserve", "obligation",
                  "destination_liquidity", "collateral_mint", "liquidity_supply"},
                 {"obligation_owner", "user"})

\* The host fee receiver of a borrow is read only if one more account is there.
HandleDebt(k, host) ==
  CASE k = "BorrowObligationLiquidity" ->
         Handler(<<"liquidity_supply", "destination_liquidity", "reserve", "fee_receiver",
                   "obligation", "market", "authority", "obligation_owner", "clock", "token">>
                   \o (IF host THEN <<"host_fee">> ELSE <<>>),
                 {"liquidity_supply", "destination_liquidity", "reserve", "fee_receiver",
                  "obligation"} \cup (IF host THEN {"host_fee"} ELSE {}),
                 {"obligation_owner"})
    [] k = "RepayObligationLiquidity" ->
         Handler(<<"source_liquidity", "liquidity_supply", "reserve", "obligation", "market",
                   "user", "clock", "token">>,
                 {"source_liquidity", "liquidity_supply", "reserve", "obligation"}, {"user"})
    [] k = "LiquidateObligation" ->
         Handler(<<"source_liquidity", "destination_collateral", "repay_reserve", "repay_supply",
                   "withdraw_reserve", "withdraw_collateral_supply", "obligation", "market",
                   "authority", "user", "clock", "token">>,
                 {"source_liquidity", "destination_collateral", "repay_reserve", "repay_supply",
                  "withdraw_collateral_supply", "obligation"}, {"user"})
    [] k = "LiquidateObligationAndRedeemReserveCollateral" ->
         Handler(<<"source_liquidity", "destination_collateral", "destination_liquidity",
                   "repay_reserve", "repay_supply", "withdraw_reserve", "withdraw_mint",
                   "withdraw_collateral_supply", "withdraw_liquidity_supply", "fee_receiver",
                   "obligation", "market", "authority", "user", "token">>,
                 {"source_liquidity", "destination_collateral", "destination_liquidity",
                  "repay_reserve", "repay_supply", "withdraw_reserve", "withdraw_mint",
                  "withdraw_collateral_supply", "withdraw_liquidity_supply", "fee_receiver",
                  "obligation"}, {"user"})

\* process_instruction: the handler a decoded instruction is dispatched to.
Dispatch(k, reserves, host) ==
  CASE k \in {"InitLendingMarket", "SetLendingMarketOwner", "InitReserve"} -> HandleMarket(k)
    [] k \in {"RefreshReserve", "DepositReserveLiquidity", "RedeemReserveCollateral",
              "FlashLoan", "UpdateReserveConfig", "RedeemFees"} -> HandleReserve(k)
    [] k \in DebtKinds \cup {"LiquidateObligationAndRedeemReserveCollateral"} ->
         HandleDebt(k, host)
    [] OTHER -> HandleObligation(k, reserves)

(***************************************************************************)
(* The TypeScript bot.                                                      *)
(***************************************************************************)
\* Its own copy of the tags; it has none for RedeemFees.
TsTag(k) ==
  CASE k = "RefreshReserve" -> 3
    [] k = "RefreshObligation" -> 7
    [] k = "LiquidateObligationAndRedeemReserveCollateral" -> 17

TsKinds == {"RefreshReserve", "RefreshObligation",
            "LiquidateObligationAndRedeemReserveCollateral"}

\* refreshReserveInstruction: the oracle and the feed are pushed if they are given.
TsRefreshReserve(oracle, feed) ==
  <<W("reserve")>> \o (IF oracle THEN <<R("pyth_price")>> ELSE <<>>)
    \o (IF feed THEN <<R("switchboard_feed")>> ELSE <<>>) \o <<R("clock")>>

TsRefreshObligation(deposits, borrows) ==
  <<W("obligation"), R("clock")>> \o Roles(deposits) \o Roles(borrows)

TsLiquidate ==
  <<W("source_liquidity"), W("destination_collateral"), W("destination_liquidity"),
    W("repay_reserve"), W("repay_supply"), W("withdraw_reserve"),
    W("withdraw_mint"), W("withdraw_collateral_supply"),
    W("withdraw_liquidity_supply"), W("fee_receiver"), W("obligation"),
    R("market"), R("authority"), S("user"), R("token")>>

TsPack(k, args) ==
  Bytes(<<"tag", TsTag(k)>>, 1)
    \o (IF k = "LiquidateObligationAndRedeemReserveCollateral"
        THEN Bytes(args["liquidity_amount"], U64) ELSE <<>>)

(***************************************************************************)
(* Actions.                                                                 *)
(***************************************************************************)
DepositRoles(n) == [i \in 1..n |-> <<"deposit", i>>]
BorrowRoles(n) == [i \in 1..n |-> <<"borrow", i>>]

Instruction(client, k, args, data, metas, reserves, host) ==
  [client |-> client, kind |-> k, args |-> args, data |-> data, metas |-> metas,
   reserves |-> reserves, host |-> host]

\* A client built on instruction.rs, or on its documentation.
Submit(client, k, args, deposits, borrows, host) ==
  LET reserves == DepositRoles(deposits) \o BorrowRoles(borrows)
  IN  /\ tx = NoTx
      /\ k # "RefreshObligation" => deposits + borrows = 0
      /\ k # "BorrowObligationLiquidity" => ~host
      /\ tx' = Instruction(client, k, args, Pack(k, args),
                 IF client = "rust" THEN Build(k, reserves, host)
                 ELSE Documented(k, reserves, host), reserves, host)
      /\ last' = NoTx

SubmitTs(k, args, deposits, borrows, oracle, feed) ==
  LET reserves == DepositRoles(deposits) \o BorrowRoles(borrows)
  IN  /\ tx = NoTx
      /\ k # "RefreshObligation" => deposits + borrows = 0
      /\ k # "RefreshReserve" => oracle /\ feed
      /\ tx' = Instruction("ts", k, args, TsPack(k, args),
                 CASE k = "RefreshReserve" -> TsRefreshReserve(oracle, feed)
                   [] k = "RefreshObligation" ->
                        TsRefreshObligation(DepositRoles(deposits), BorrowRoles(borrows))
                   [] OTHER -> TsLiquidate, reserves, FALSE)
      /\ last' = NoTx

\* A client whose data is cut off after n bytes, or runs on past the last field.
SubmitCut(k, args, n) ==
  /\ tx = NoTx
  /\ n # Len(Pack(k, args))
  /\ tx' = Instruction("cut", k, args,
             SubSeq(Pack(k, args) \o Bytes(<<"rest", 1>>, 1), 1, n),
             Build(k, <<>>, FALSE), <<>>, FALSE)
  /\ last' = NoTx

\* What the program makes of it: the runtime refuses a write to an account passed
\* read-only and a missing signature; a handler that finds another account than
\* it expects in a place is "misread".
Outcome(t) ==
  LET instr == Unpack(t.data)
      handler == Dispatch(instr.kind, t.reserves, t.host)
      given == [i \in DOMAIN t.metas |-> t.metas[i].role]
      at(r) == CHOOSE i \in DOMAIN t.metas : t.metas[i].role = r
  IN  IF instr = UnpackError THEN "unpack_error"
      ELSE IF Len(t.metas) < Len(handler.reads) THEN "not_enough_accounts"
      ELSE IF SubSeq(given, 1, Len(handler.reads)) # handler.reads THEN "misread"
      ELSE IF \E r \in handler.writes : ~t.metas[at(r)].writable THEN "readonly_modified"
      ELSE IF \E r \in handler.signs : ~t.metas[at(r)].signer THEN "missing_signature"
      ELSE "dispatched"

Execute ==
  /\ tx # NoTx
  /\ last' = [client |-> tx.client, kind |-> tx.kind, args |-> tx.args,
              whole |-> Len(tx.data) >= Len(Pack(tx.kind, tx.args)),
              decoded |-> Unpack(tx.data), outcome |-> Outcome(tx),
              accounts |-> Len(tx.metas)]
  /\ tx' = NoTx

Init == tx = NoTx /\ last = NoTx

Next ==
  \/ \E k \in Kinds, d, b \in 0..MaxReserves, h \in BOOLEAN, c \in {"rust", "doc"} :
       \E args \in Payloads(k) : Submit(c, k, args, d, b, h)
  \/ \E k \in TsKinds, d, b \in 0..MaxReserves, o, f \in BOOLEAN :
       \E args \in Payloads(k) : SubmitTs(k, args, d, b, o, f)
  \/ \E k \in Kinds : \E args \in Payloads(k) :
       \E n \in 0..(Len(Pack(k, args)) + 1) : SubmitCut(k, args, n)
  \/ Execute

Spec == Init /\ [][Next]_vars

(***************************************************************************)
(* Properties.                                                              *)
(***************************************************************************)
\* Whatever complete data a client sends, with bytes past the end or without,
\* unpack gives back the instruction and every field of the payload that were
\* packed, whichever of the two copies of the configuration layout is used; data
\* cut short is refused and never taken for another instruction
\* (instruction.rs pack and unpack).
DecodedAsSent ==
  last # NoTx =>
    IF last.whole THEN last.decoded = [kind |-> last.kind, args |-> last.args]
    ELSE last.decoded = UnpackError

\* The account lists of the Rust builders, of the enum's comments and of the
\* TypeScript bot all put every account where the handler reads it, with the
\* write and signature privileges the handler makes use of
\* (instruction.rs builders against the next_account_info calls of processor.rs).
\* The exception is a refresh of a reserve that leaves out an oracle, which the
\* comment on the TypeScript builder allows and the handler does not.
HandlerFindsItsAccounts ==
  (last # NoTx /\ last.whole /\ last.outcome # "dispatched") =>
    last.client = "ts" /\ last.kind = "RefreshReserve" /\ last.accounts < 4

=============================================================================
