---------------------------- MODULE AccountLayout ----------------------------
(***************************************************************************)
(* The accounts of the lending program as bytes: a lending market, a        *)
(* reserve or an obligation is unpacked at the start of an instruction,     *)
(* changed and packed back, and the TypeScript bot reads the same bytes     *)
(* with layouts of its own.                                                 *)
(*                                                                         *)
(* The data of an account is a set of written segments.  Packing writes one *)
(* segment per field and leaves every other byte as it was: the padding,    *)
(* and in an obligation whatever lies behind the last entry.  Deposits and  *)
(* borrows have different sizes and share one area, so that removing an     *)
(* entry moves all later ones across the bytes of their predecessors.       *)
(***************************************************************************)
EXTENDS Naturals, Sequences, FiniteSets, SequencesExt

CONSTANTS
  MAX_OBLIGATION_RESERVES,  (* deposits and borrows of an obligation.       *)
  Reserves,                 (* reserves an obligation may use, numbers.     *)
  Slots                     (* values of the clock, none of them zero.      *)

ASSUME LayoutAssumption ==
  /\ MAX_OBLIGATION_RESERVES \in Nat \ {0}
  /\ Reserves \subseteq Nat
  /\ Slots \subseteq Nat \ {0}

VARIABLES
  kind,     (* what the account holds.                                      *)
  mem,      (* its data: segments [at, len, val].                           *)
  meant,    (* the state the instructions have built up, or Nothing.        *)
  abort     (* why the last instruction panicked, or "none".                *)

vars == <<kind, mem, meant, abort>>

PUBKEY_BYTES == 32
PROGRAM_VERSION == 1
UNINITIALIZED_VERSION == 0

Num(n) == <<"num", n>>
Garbage == <<"garbage", 0>>
Nothing == [fields |-> <<>>, deposits |-> <<>>, borrows |-> <<>>]

(***************************************************************************)
(* Layouts: sequences of <<field, width>>.  "_padding" is never written.    *)
(***************************************************************************)
MarketLayout ==
  <<<<"version", 1>>, <<"bump_seed", 1>>, <<"owner", PUBKEY_BYTES>>,
    <<"quote_currency", 32>>, <<"token_program_id", PUBKEY_BYTES>>,
    <<"oracle_program_id", PUBKEY_BYTES>>,
    <<"switchboard_oracle_program_id", PUBKEY_BYTES>>, <<"_padding", 128>>>>

ReservePackLayout ==
  <<<<"version", 1>>, <<"slot", 8>>, <<"stale", 1>>, <<"lending_market", PUBKEY_BYTES>>,
    <<"liquidity_mint", PUBKEY_BYTES>>, <<"mint_decimals", 1>>,
    <<"liquidity_supply", PUBKEY_BYTES>>, <<"pyth_oracle", PUBKEY_BYTES>>,
    <<"switchboard_oracle", PUBKEY_BYTES>>, <<"available_amount", 8>>,
    <<"borrowed_amount_wads", 16>>, <<"cumulative_borrow_rate_wads", 16>>,
    <<"market_price", 16>>, <<"collateral_mint", PUBKEY_BYTES>>,
    <<"mint_total_supply", 8>>, <<"collateral_supply", PUBKEY_BYTES>>,
    <<"optimal_utilization_rate", 1>>, <<"loan_to_value_ratio", 1>>,
    <<"liquidation_bonus", 1>>, <<"liquidation_threshold", 1>>,
    <<"min_borrow_rate", 1>>, <<"optimal_borrow_rate", 1>>, <<"max_borrow_rate", 1>>,
    <<"borrow_fee_wad", 8>>, <<"flash_loan_fee_wad", 8>>, <<"host_fee_percentage", 1>>,
    <<"deposit_limit", 8>>, <<"borrow_limit", 8>>, <<"fee_receiver", PUBKEY_BYTES>>,
    <<"protocol_liquidation_fee", 1>>, <<"protocol_take_rate", 1>>,
    <<"accumulated_protocol_fees_wads", 16>>, <<"_padding", 230>>>>

\* Variant: the accumulated fees are read from next to the other wads, where the
\* struct declares them.
ReserveUnpackByStruct ==
  SubSeq(ReservePackLayout, 1, 12)
    \o <<<<"accumulated_protocol_fees_wads", 16>>>>
    \o SubSeq(ReservePackLayout, 13, 31) \o <<<<"_padding", 230>>>>

\* unpack_from_slice has its own copy of the widths.
ReserveUnpackLayout ==
  <<<<"version", 1>>, <<"slot", 8>>, <<"stale", 1>>, <<"lending_market", PUBKEY_BYTES>>,
    <<"liquidity_mint", PUBKEY_BYTES>>, <<"mint_decimals", 1>>,
    <<"liquidity_supply", PUBKEY_BYTES>>, <<"pyth_oracle", PUBKEY_BYTES>>,
    <<"switchboard_oracle", PUBKEY_BYTES>>, <<"available_amount", 8>>,
    <<"borrowed_amount_wads", 16>>, <<"cumulative_borrow_rate_wads", 16>>,
    <<"market_price", 16>>, <<"collateral_mint", PUBKEY_BYTES>>,
    <<"mint_total_supply", 8>>, <<"collateral_supply", PUBKEY_BYTES>>,
    <<"optimal_utilization_rate", 1>>, <<"loan_to_value_ratio", 1>>,
    <<"liquidation_bonus", 1>>, <<"liquidation_threshold", 1>>,
    <<"min_borrow_rate", 1>>, <<"optimal_borrow_rate", 1>>, <<"max_borrow_rate", 1>>,
    <<"borrow_fee_wad", 8>>, <<"flash_loan_fee_wad", 8>>, <<"host_fee_percentage", 1>>,
    <<"deposit_limit", 8>>, <<"borrow_limit", 8>>, <<"fee_receiver", PUBKEY_BYTES>>,
    <<"protocol_liquidation_fee", 1>>, <<"protocol_take_rate", 1>>,
    <<"accumulated_protocol_fees_wads", 16>>, <<"_padding", 230>>>>

ObligationHeader ==
  <<<<"version", 1>>, <<"slot", 8>>, <<"stale", 1>>, <<"lending_market", PUBKEY_BYTES>>,
    <<"owner", PUBKEY_BYTES>>, <<"deposited_value", 16>>, <<"borrowed_value", 16>>,
    <<"allowed_borrow_value", 16>>, <<"unhealthy_borrow_value", 16>>,
    <<"_padding", 64>>, <<"deposits_len", 1>>, <<"borrows_len", 1>>>>

CollateralLayout ==
  <<<<"deposit_reserve", PUBKEY_BYTES>>, <<"deposited_amount", 8>>,
    <<"market_value", 16>>, <<"_padding", 32>>>>

LiquidityLayout ==
  <<<<"borrow_reserve", PUBKEY_BYTES>>, <<"cumulative_borrow_rate_wads", 16>>,
    <<"borrowed_amount_wads", 16>>, <<"market_value", 16>>, <<"_padding", 32>>>>

OBLIGATION_COLLATERAL_LEN == 88
OBLIGATION_LIQUIDITY_LEN == 112

\* The area behind the header: one deposit, and borrows for the rest.
FlatLen ==
  OBLIGATION_COLLATERAL_LEN + OBLIGATION_LIQUIDITY_LEN * (MAX_OBLIGATION_RESERVES - 1)

FlatUsed(deposits, borrows) ==
  OBLIGATION_COLLATERAL_LEN * deposits + OBLIGATION_LIQUIDITY_LEN * borrows

OffsetOf(layout, i) == FoldLeft(LAMBDA n, f : n + f[2], 0, SubSeq(layout, 1, i - 1))
Span(layout) == OffsetOf(layout, Len(layout) + 1)

\* array_refs!: the fields of a layout with their places.
Cells(layout) ==
  {[f |-> layout[i][1], at |-> OffsetOf(layout, i), len |-> layout[i][2]] :
     i \in {i \in DOMAIN layout : layout[i][1] # "_padding"}}

MarketCells == Cells(MarketLayout)
ReservePacked == Cells(ReservePackLayout)
ReserveUnpacked == Cells(ReserveUnpackLayout)
HeaderCells == Cells(ObligationHeader)
CollateralCells == Cells(CollateralLayout)
LiquidityCells == Cells(LiquidityLayout)
HeaderLen == Span(ObligationHeader)

RESERVE_LEN == 619
LENDING_MARKET_LEN == 290

Decimals == {"borrowed_amount_wads", "cumulative_borrow_rate_wads", "market_price",
  "accumulated_protocol_fees_wads", "deposited_value", "borrowed_value",
  "allowed_borrow_value", "unhealthy_borrow_value", "market_value"}

\* Values of a field are <<field, 0>> and <<field, 1>>; a Decimal may also have grown
\* past the 128 bits it is stored in.
WIDE == 2

(***************************************************************************)
(* Bytes.                                                                   *)
(***************************************************************************)
Overlap(s, t) == s.at < t.at + t.len /\ t.at < s.at + s.len

\* Every pack writes all fields of the account, so bytes it leaves alone are padding
\* or remains of an earlier layout: what they hold no reader may rely on.
Overlay(old, new) ==
  new \cup {[s EXCEPT !.val = Garbage] :
              s \in {s \in old : ~\E n \in new : n.at = s.at /\ n.len = s.len}}

\* Accounts are created zeroed.
ReadAt(m, at, len) ==
  LET here == {s \in m : s.at = at /\ s.len = len /\ s.val # Garbage}
      touched == {s \in m : Overlap(s, [at |-> at, len |-> len])}
  IN  IF here # {} THEN (CHOOSE s \in here : TRUE).val
      ELSE IF touched = {} THEN Num(0) ELSE Garbage

WriteFields(base, cells, fields) ==
  {[at |-> base + c.at, len |-> c.len, val |-> fields[c.f]] : c \in cells}

ReadFields(m, base, cells) ==
  [f \in {c.f : c \in cells} |->
     LET c == CHOOSE c \in cells : c.f = f IN ReadAt(m, base + c.at, c.len)]

\* pack_decimal: to_scaled_val fails for a value of more than 128 bits, and the
\* expect turns that into a panic.
CannotPack(fields) == \E f \in DOMAIN fields \cap Decimals : fields[f] = <<f, WIDE>>

Stored(fields) ==
  [f \in DOMAIN fields |->
     IF f \in Decimals /\ fields[f] = <<f, WIDE>> THEN Garbage ELSE fields[f]]

(***************************************************************************)
(* pack_into_slice and unpack_from_slice of the three accounts.             *)
(***************************************************************************)
BorrowBase(o) == HeaderLen + OBLIGATION_COLLATERAL_LEN * Len(o.deposits)

WithLengths(o) ==
  [f \in DOMAIN o.fields \cup {"deposits_len", "borrows_len"} |->
     CASE f = "deposits_len" -> Num(Len(o.deposits))
       [] f = "borrows_len" -> Num(Len(o.borrows))
       [] OTHER -> o.fields[f]]

ObligationWrites(o) ==
  WriteFields(0, HeaderCells, Stored(WithLengths(o)))
    \cup UNION {WriteFields(HeaderLen + OBLIGATION_COLLATERAL_LEN * (i - 1),
                            CollateralCells, Stored(o.deposits[i])) : i \in DOMAIN o.deposits}
    \cup UNION {WriteFields(BorrowBase(o) + OBLIGATION_LIQUIDITY_LEN * (i - 1),
                            LiquidityCells, Stored(o.borrows[i])) : i \in DOMAIN o.borrows}

Pack(m, o) ==
  Overlay(m, CASE kind = "market" -> WriteFields(0, MarketCells, o.fields)
               [] kind = "reserve" -> WriteFields(0, ReservePacked, Stored(o.fields))
               [] kind = "obligation" -> ObligationWrites(o))

UnpackObligation(m) ==
  LET header == ReadFields(m, 0, HeaderCells)
      nd == header["deposits_len"][2]
      nb == header["borrows_len"][2]
      start == HeaderLen
  IN  [fields |-> [f \in {c.f : c \in HeaderCells} \ {"deposits_len", "borrows_len"} |-> header[f]],
       deposits |-> [i \in 1..nd |->
         ReadFields(m, start + OBLIGATION_COLLATERAL_LEN * (i - 1), CollateralCells)],
       borrows |-> [i \in 1..nb |->
         ReadFields(m, start + OBLIGATION_COLLATERAL_LEN * nd
                       + OBLIGATION_LIQUIDITY_LEN * (i - 1), LiquidityCells)]]

Plain(fields) == [fields |-> fields, deposits |-> <<>>, borrows |-> <<>>]

UnpackUnchecked(m) ==
  CASE kind = "market" -> Plain(ReadFields(m, 0, MarketCells))
    [] kind = "reserve" -> Plain(ReadFields(m, 0, ReserveUnpacked))
    [] kind = "obligation" -> UnpackObligation(m)

\* Pack::unpack: the version is one the program knows and not the uninitialized one,
\* and the stale mark is a bool.
Readable(o) ==
  /\ o.fields["version"] = Num(PROGRAM_VERSION)
  /\ kind # "market" => o.fields["stale"] \in {Num(0), Num(1)}

(***************************************************************************)
(* Instructions.  Each one unpacks, changes and packs.                      *)
(***************************************************************************)
Fields(o, S, n) == [o EXCEPT !.fields = [f \in DOMAIN @ |-> IF f \in S THEN <<f, n>> ELSE @[f]]]
MarkStale(o) == [o EXCEPT !.fields["stale"] = Num(1)]
UpdateSlot(o, t) == [o EXCEPT !.fields["slot"] = Num(t), !.fields["stale"] = Num(0)]

EntryFields(o) == {o.fields} \cup ToSet(o.deposits) \cup ToSet(o.borrows)

Panic(o) ==
  IF \E e \in EntryFields(o) : CannotPack(e) THEN "wide"
  ELSE IF kind = "obligation" /\ FlatUsed(Len(o.deposits), Len(o.borrows)) > FlatLen
  THEN "overrun" ELSE "none"

\* An instruction that panics is undone as a whole.
Instruction(Change(_)) ==
  LET o == UnpackUnchecked(mem)
      why == Panic(Change(o))
  IN  /\ Readable(o)
      /\ abort' = why
      /\ IF why = "none"
         THEN mem' = Pack(mem, Change(o)) /\ meant' = Change(meant)
         ELSE UNCHANGED <<mem, meant>>
      /\ UNCHANGED kind

LayoutOf == CASE kind = "market" -> MarketCells
              [] kind = "reserve" -> ReservePacked
              [] kind = "obligation" -> HeaderCells

Fresh(t) ==
  LET names == {c.f : c \in LayoutOf} \ {"deposits_len", "borrows_len"}
  IN  Plain([f \in names |-> CASE f = "version" -> Num(PROGRAM_VERSION)
                               [] f = "slot" -> Num(t)
                               [] f = "stale" -> Num(1)
                               [] OTHER -> <<f, 0>>])

\* assert_uninitialized.
Uninitialized(o) == o.fields["version"] = Num(UNINITIALIZED_VERSION)

\* init_lending_market, init_reserve and init_obligation.
InitAccount(t) ==
  /\ Uninitialized(UnpackUnchecked(mem))
  /\ mem' = Pack(mem, Fresh(t))
  /\ meant' = Fresh(t)
  /\ abort' = "none"
  /\ UNCHANGED kind

SetLendingMarketOwner(n) ==
  kind = "market" /\ Instruction(LAMBDA o : Fields(o, {"owner"}, n))

\* Interest and price of a reserve.
RefreshReserve(n, t) ==
  /\ kind = "reserve"
  /\ Instruction(LAMBDA o : UpdateSlot(Fields(o,
       {"cumulative_borrow_rate_wads", "borrowed_amount_wads",
        "accumulated_protocol_fees_wads", "market_price"}, n), t))

\* Deposit, redeem, borrow, repay, liquidate and redeem_fees move its amounts.
MoveLiquidity(n) ==
  /\ kind = "reserve"
  /\ Instruction(LAMBDA o : MarkStale(Fields(o,
       {"available_amount", "borrowed_amount_wads", "accumulated_protocol_fees_wads",
        "mint_total_supply"}, n)))

ConfigFields == {"optimal_utilization_rate", "loan_to_value_ratio", "liquidation_bonus",
  "liquidation_threshold", "min_borrow_rate", "optimal_borrow_rate", "max_borrow_rate",
  "borrow_fee_wad", "flash_loan_fee_wad", "host_fee_percentage", "deposit_limit",
  "borrow_limit", "fee_receiver", "protocol_liquidation_fee", "protocol_take_rate"}

UpdateReserveConfig(n) ==
  /\ kind = "reserve"
  /\ Instruction(LAMBDA o :
       Fields(o, ConfigFields \cup {"pyth_oracle", "switchboard_oracle"}, n))

NewCollateral(r) == [deposit_reserve |-> <<"reserve", r>>,
  deposited_amount |-> <<"deposited_amount", 0>>, market_value |-> <<"market_value", 0>>]

NewLiquidity(r) == [borrow_reserve |-> <<"reserve", r>>,
  cumulative_borrow_rate_wads |-> <<"cumulative_borrow_rate_wads", 0>>,
  borrowed_amount_wads |-> <<"borrowed_amount_wads", 0>>,
  market_value |-> <<"market_value", 0>>]

DepositIndex(o, r) ==
  SelectInSeq(o.deposits, LAMBDA e : e["deposit_reserve"] = <<"reserve", r>>)
BorrowIndex(o, r) ==
  SelectInSeq(o.borrows, LAMBDA e : e["borrow_reserve"] = <<"reserve", r>>)

HasRoom(o) == Len(o.deposits) + Len(o.borrows) < MAX_OBLIGATION_RESERVES

\* find_or_add_collateral_to_deposits, and the amount put into the entry.
DepositCollateral(r) ==
  /\ kind = "obligation"
  /\ LET o == UnpackUnchecked(mem) IN DepositIndex(o, r) = 0 => HasRoom(o)
  /\ Instruction(LAMBDA o : MarkStale(
       LET i == DepositIndex(o, r)
       IN  IF i # 0 THEN [o EXCEPT !.deposits[i]["deposited_amount"] = <<"deposited_amount", 1>>]
           ELSE [o EXCEPT !.deposits = Append(@, NewCollateral(r))]))

\* withdraw, by the owner or a liquidator: an entry that is emptied is removed.
WithdrawAll(i) ==
  /\ kind = "obligation"
  /\ i \in DOMAIN UnpackUnchecked(mem).deposits
  /\ Instruction(LAMBDA o : MarkStale([o EXCEPT !.deposits = RemoveAt(@, i)]))

\* Variant: an owner without collateral may borrow.
MayBorrowBare(o) == TRUE

\* process_borrow_obligation_liquidity refuses an obligation without deposits.
MayBorrow(o) == o.deposits # <<>>

\* find_or_add_liquidity_to_borrows, and the debt booked in the entry.
BorrowLiquidity(r, n) ==
  /\ kind = "obligation"
  /\ LET o == UnpackUnchecked(mem) IN MayBorrow(o) /\ (BorrowIndex(o, r) = 0 => HasRoom(o))
  /\ Instruction(LAMBDA o : MarkStale(
       LET i == BorrowIndex(o, r)
       IN  IF i # 0 THEN [o EXCEPT !.borrows[i]["borrowed_amount_wads"] = <<"borrowed_amount_wads", n>>]
           ELSE [o EXCEPT !.borrows = Append(@, NewLiquidity(r))]))

\* repay, by the owner or a liquidator: a debt that is settled is removed.
RepayAll(i) ==
  /\ kind = "obligation"
  /\ i \in DOMAIN UnpackUnchecked(mem).borrows
  /\ Instruction(LAMBDA o : MarkStale([o EXCEPT !.borrows = RemoveAt(@, i)]))

Revalued(entries, n) ==
  [i \in DOMAIN entries |-> [entries[i] EXCEPT !["market_value"] = <<"market_value", n>>]]

\* Values of the obligation and of each entry.
RefreshObligation(n, t) ==
  /\ kind = "obligation"
  /\ Instruction(LAMBDA o : UpdateSlot([Fields(o,
       {"deposited_value", "borrowed_value", "allowed_borrow_value",
        "unhealthy_borrow_value"}, n) EXCEPT
       !.deposits = Revalued(o.deposits, n), !.borrows = Revalued(o.borrows, n)], t))

(***************************************************************************)
(* The TypeScript bot.                                                      *)
(***************************************************************************)
LastUpdateLayout == <<<<"slot", 8>>, <<"stale", 1>>>>

TsReserveLayout ==
  <<<<"version", 1>>>> \o LastUpdateLayout \o
  <<<<"lending_market", PUBKEY_BYTES>>,
    <<"liquidity_mint", PUBKEY_BYTES>>, <<"mint_decimals", 1>>,
    <<"liquidity_supply", PUBKEY_BYTES>>, <<"pyth_oracle", PUBKEY_BYTES>>,
    <<"switchboard_oracle", PUBKEY_BYTES>>, <<"available_amount", 8>>,
    <<"borrowed_amount_wads", 16>>, <<"cumulative_borrow_rate_wads", 16>>,
    <<"market_price", 16>>, <<"collateral_mint", PUBKEY_BYTES>>,
    <<"mint_total_supply", 8>>, <<"collateral_supply", PUBKEY_BYTES>>,
    <<"optimal_utilization_rate", 1>>, <<"loan_to_value_ratio", 1>>,
    <<"liquidation_bonus", 1>>, <<"liquidation_threshold", 1>>,
    <<"min_borrow_rate", 1>>, <<"optimal_borrow_rate", 1>>, <<"max_borrow_rate", 1>>,
    <<"borrow_fee_wad", 8>>, <<"flash_loan_fee_wad", 8>>, <<"host_fee_percentage", 1>>,
    <<"deposit_limit", 8>>, <<"borrow_limit", 8>>, <<"fee_receiver", PUBKEY_BYTES>>,
    <<"_padding", 256>>>>

TsObligationLayout ==
  <<<<"version", 1>>>> \o LastUpdateLayout \o
  <<<<"lending_market", PUBKEY_BYTES>>, <<"owner", PUBKEY_BYTES>>,
    <<"deposited_value", 16>>, <<"borrowed_value", 16>>,
    <<"allowed_borrow_value", 16>>, <<"unhealthy_borrow_value", 16>>,
    <<"_padding", 64>>, <<"deposits_len", 1>>, <<"borrows_len", 1>>>>

TsCollateralLayout ==
  <<<<"deposit_reserve", PUBKEY_BYTES>>, <<"deposited_amount", 8>>,
    <<"market_value", 16>>, <<"_padding", 32>>>>

TsLiquidityLayout ==
  <<<<"borrow_reserve", PUBKEY_BYTES>>, <<"cumulative_borrow_rate_wads", 16>>,
    <<"borrowed_amount_wads", 16>>, <<"market_value", 16>>, <<"_padding", 32>>>>

TsReserveCells == Cells(TsReserveLayout)
TsObligationCells == Cells(TsObligationLayout)
TsCollateralCells == Cells(TsCollateralLayout)
TsLiquidityCells == Cells(TsLiquidityLayout)
TsHeaderLen == Span(TsObligationLayout)
TsCollateralLen == Span(TsCollateralLayout)
TsLiquidityLen == Span(TsLiquidityLayout)

\* Variant: the borrows are sought behind a full set of deposits.
BorrowsBehindAll(d) == TsHeaderLen + TsCollateralLen * (d + 1)

\* dataFlat.slice(depositsBuffer.length, ...).
TsBorrowsBuffer(d) == TsHeaderLen + TsCollateralLen * d

\* ReserveParser and ObligationParser: null for an account whose slot is zero.
TsParse(m) ==
  LET fields == ReadFields(m, 0, IF kind = "reserve" THEN TsReserveCells ELSE TsObligationCells)
      d == fields["deposits_len"][2]
      b == fields["borrows_len"][2]
  IN  IF fields["slot"] = Num(0) THEN Nothing
      ELSE IF kind = "reserve" THEN Plain(fields)
      ELSE [fields |-> [f \in DOMAIN fields \ {"deposits_len", "borrows_len"} |-> fields[f]],
            deposits |-> [i \in 1..d |->
              ReadFields(m, TsHeaderLen + TsCollateralLen * (i - 1),
                         TsCollateralCells)],
            borrows |-> [i \in 1..b |->
              ReadFields(m, TsBorrowsBuffer(d) + TsLiquidityLen * (i - 1),
                         TsLiquidityCells)]]

(***************************************************************************)
(* Specification.                                                           *)
(***************************************************************************)
Init ==
  /\ kind \in {"market", "reserve", "obligation"}
  /\ mem = {}
  /\ meant = Nothing
  /\ abort = "none"

Next ==
  \/ \E t \in Slots : InitAccount(t)
  \/ \E n \in 0..1 : SetLendingMarketOwner(n) \/ UpdateReserveConfig(n)
  \/ \E n \in 0..WIDE, t \in Slots : RefreshReserve(n, t)
  \/ \E n \in 0..WIDE : MoveLiquidity(n)
  \/ \E n \in {1, WIDE}, t \in Slots : RefreshObligation(n, t)
  \/ \E r \in Reserves : DepositCollateral(r)
  \/ \E r \in Reserves, n \in {1, WIDE} : BorrowLiquidity(r, n)
  \/ \E i \in 1..MAX_OBLIGATION_RESERVES : WithdrawAll(i) \/ RepayAll(i)

Spec == Init /\ [][Next]_vars

(***************************************************************************)
(* Properties.                                                              *)
(***************************************************************************)
AccountLen == CASE kind = "market" -> LENDING_MARKET_LEN
                [] kind = "reserve" -> RESERVE_LEN
                [] kind = "obligation" -> HeaderLen + FlatLen

\* Whatever sequence of instructions an account has been through, entries added,
\* removed and moved, values too wide to store, packing it stays within the account
\* and the next instruction unpacks exactly what the earlier ones meant to leave:
\* nothing of a removed entry comes back, no field is read where another was written,
\* and array_mut_ref! never panics, which would lock an obligation out of the
\* instructions that repay or liquidate it (pack_into_slice and unpack_from_slice of
\* reserve.rs, obligation.rs and lending_market.rs).
RoundTrip ==
  /\ abort # "overrun"
  /\ \A s \in mem : s.at + s.len <= AccountLen
  /\ meant # Nothing => UnpackUnchecked(mem) = meant

Room == INSTANCE ObligationSlots WITH
          deposits <- Len(meant.deposits), borrows <- Len(meant.borrows)

\* Every instruction on an obligation changes the number of its entries as the
\* abstract specification of them allows, or not at all; there the area is proved
\* large enough for every limit (obligation.rs find_or_add_*, withdraw, repay).
ImplementsSlots == Room!Spec

\* The layouts of the TypeScript bot give the same value as the program for every
\* field they have, for every entry, and null only for an account that was never
\* initialised (ReserveParser and ObligationParser).
TsAgrees ==
  (kind # "market" /\ meant # Nothing) =>
    LET p == TsParse(mem)
    IN  /\ p # Nothing
        /\ \A f \in DOMAIN p.fields : p.fields[f] = meant.fields[f]
        /\ p.deposits = meant.deposits
        /\ p.borrows = meant.borrows

=============================================================================
