--------------------------- MODULE AnchorAccounts ---------------------------
(***************************************************************************)
(* What Anchor does with the accounts of an instruction: the generated     *)
(* try_accounts deserialises them, creates the ones to initialise and      *)
(* checks the constraints; the program's handler works on copies; the      *)
(* generated exit writes the copies back or closes accounts.               *)
(*                                                                         *)
(* The program has accounts of two types: User, a Borsh struct behind      *)
(* Account<User>, and Book, a zero-copy struct behind AccountLoader<Book>; *)
(* each holds an authority and a value.  Its instructions, one for each    *)
(* way the constraints are used together, stand for any program's.         *)
(* A transaction is a sequence of instructions of the program and of the   *)
(* system program; if one fails, all are undone.                           *)
(***************************************************************************)
EXTENDS Naturals, Sequences, FiniteSets

CONSTANTS Wallets,    \* keys of people: system accounts with lamports
          Data,       \* keys at which accounts of the program are made
          Purse,      \* the lamports a wallet starts with
          RENT,       \* Rent::minimum_balance of an account of the program
          MaxVal,     \* the largest value of an account
          MaxIxs,     \* instructions in a transaction
          MaxTxs      \* transactions

None == "none"         \* Pubkey::default(), a key nobody holds

ASSUME AccountsAssumption ==
  /\ Wallets \cap Data = {} /\ None \notin Wallets
  /\ Purse \in Nat /\ RENT \in Nat \ {0} /\ MaxVal \in Nat \ {0}
  /\ MaxIxs \in Nat /\ MaxTxs \in Nat

Keys == Wallets \cup Data
System == "system"     \* owner of what no program has been assigned
Program == "program"

Types == {"User", "Book"}
Zero == "zero"         \* a discriminator of eight zeros: data never written
Closed == "closed"     \* CLOSED_ACCOUNT_DISCRIMINATOR

VARIABLES ledger,      \* the accounts as the last transaction left them
          bank,        \* the accounts as the current transaction sees them
          phase,       \* "idle", or "tx" within a transaction
          signers, readonly,   \* of the current transaction
          closed,      \* the keys it has closed
          saved,       \* what the last handler left in the program's accounts
          ixs, txs

vars == <<ledger, bank, phase, signers, readonly, closed, saved, ixs, txs>>

Empty == [owner |-> System, lamports |-> 0, disc |-> Zero, authority |-> None, val |-> 0]
Content(a) == [authority |-> a.authority, val |-> a.val]

-----------------------------------------------------------------------------
(* The Accounts structs. *)

\* Variant: exit leaves accounts alone whose constraints do not say mut.
SaysMut(f) == f.mut

\* init and zero imply mut (ConstraintGroupBuilder::build).
IsMutable(f) == f.mut \/ f.init # "no" \/ f.zero

Wrapper(T) == IF T = "User" THEN "Account" ELSE "AccountLoader"

Field(name, ty, of) ==
  [name |-> name, ty |-> ty, of |-> of, init |-> "no", zero |-> FALSE, mut |-> FALSE,
   has_one |-> FALSE, close |-> FALSE]

\* has_one = authority, close = receiver and payer = payer, by name.
Struct(shape, T) ==
  LET account == Field("account", Wrapper(T), T)
      owned == [account EXCEPT !.mut = TRUE, !.has_one = TRUE]
      authority == Field("authority", "Signer", None)
      payer == [Field("payer", "Signer", None) EXCEPT !.mut = TRUE]
      receiver == [Field("receiver", "SystemAccount", None) EXCEPT !.mut = TRUE]
      other == [Field("other", Wrapper(T), T) EXCEPT !.mut = TRUE]
  IN CASE shape = "create" -> <<[account EXCEPT !.init = "init"], payer>>
       [] shape = "ensure" -> <<[account EXCEPT !.init = "if_needed"], payer>>
       [] shape = "adopt" -> <<[account EXCEPT !.zero = TRUE], authority>>
       [] shape = "update" -> <<owned, authority>>
       [] shape = "move" -> <<owned, other, authority>>
       [] shape = "shut" -> <<[owned EXCEPT !.close = TRUE], authority, receiver>>

-----------------------------------------------------------------------------
(* The types of fields. *)

\* AccountDeserialize::try_deserialize
TryDeserialize(a, T) == a.disc = T

\* Account::try_from
AccountTryFrom(a, T) ==
  /\ ~(a.owner = System /\ a.lamports = 0)
  /\ a.owner = Program
  /\ TryDeserialize(a, T)

\* Account::try_from_unchecked and AccountLoader::try_from_unchecked
TryFromUnchecked(a) == a.owner = Program

\* AccountLoader::try_from
LoaderTryFrom(a, T) == a.owner = Program /\ a.disc = T

\* Field::from_account_info: how init and zero fields are deserialised
FromAccountInfo(a, f, checked) ==
  IF checked THEN CASE f.ty = "Account" -> AccountTryFrom(a, f.of)
                    [] f.ty = "AccountLoader" -> LoaderTryFrom(a, f.of)
  ELSE TryFromUnchecked(a)

\* AccountLoader::load and load_mut
Load(a, T) == a.disc = T
LoadMut(a, T, k) == k \notin readonly /\ Load(a, T)

\* AccountLoader::load_init
LoadInit(a, k) == k \notin readonly /\ a.disc = Zero

\* Signer::try_from and SystemAccount::try_from
SignerTryFrom(k) == k \in signers
SystemAccountTryFrom(a) == a.owner = System

\* Accounts::try_accounts of a field: init and zero fields are only taken out.
Deserialises(b, f, k) ==
  \/ f.init # "no" \/ f.zero
  \/ CASE f.ty = "Account" -> AccountTryFrom(b[k], f.of)
       [] f.ty = "AccountLoader" -> LoaderTryFrom(b[k], f.of)
       [] f.ty = "Signer" -> SignerTryFrom(k)
       [] f.ty = "SystemAccount" -> SystemAccountTryFrom(b[k])

-----------------------------------------------------------------------------
(* Creating an account. *)

Paid(b, from, to, n) == [b EXCEPT ![from].lamports = @ - n, ![to].lamports = @ + n]

\* The system program: who can transfer, and what can be given space and an owner.
CanPay(b, from, n) == from \in signers /\ b[from].owner = System /\ b[from].lamports >= n
CanAllocate(b, k) == k \in signers /\ b[k].owner = System

\* generate_create_account: with lamports already there, only what is missing is paid.
Missing(b, k) == IF b[k].lamports >= RENT THEN 0 ELSE RENT - b[k].lamports

CreateAccount(b, k, payer) ==
  [ok |-> CanPay(b, payer, Missing(b, k)) /\ CanAllocate(b, k),
   bank |-> [Paid(b, payer, k, Missing(b, k)) EXCEPT ![k].owner = Program]]

Creates(b, f, k) == f.init = "init" \/ (f.init = "if_needed" /\ b[k].owner = System)

\* generate_constraint_init_group, for accounts of the program.  What already exists is
\* deserialised with its discriminator checked.
InitField(b, f, k, payer) ==
  LET made == CreateAccount(b, k, payer)
      after == IF Creates(b, f, k) THEN made.bank ELSE b
  IN [ok |-> /\ Creates(b, f, k) => made.ok
             /\ FromAccountInfo(after[k], f, ~Creates(b, f, k))
             /\ f.init = "if_needed" => after[k].owner = Program /\ after[k].lamports >= RENT,
      bank |-> after]

-----------------------------------------------------------------------------
(* The constraints. *)

\* generate_constraint_zeroed
Zeroed(a, f) == a.disc = Zero /\ FromAccountInfo(a, f, FALSE)

\* Variant: any authority that signs will do.
HasSome(a, f, target) == f.ty = "AccountLoader" => Load(a, f.of)

\* generate_constraint_has_one
HasOne(a, f, target) ==
  /\ f.ty = "AccountLoader" => Load(a, f.of)
  /\ a.authority = target

\* generate_constraint_rent_exempt
RentExempt(a) == a.lamports >= RENT

\* generate_constraint, for the constraints of a field in the order of linearize.
\* init implies signer where no seeds are given; zero implies rent_exempt = enforce.
Satisfied(b, f, keys) ==
  LET k == keys[f.name] IN
  /\ f.zero => Zeroed(b[k], f)
  /\ IsMutable(f) => k \notin readonly
  /\ f.init # "no" => k \in signers
  /\ f.has_one => HasOne(b[k], f, keys["authority"])
  /\ f.zero => RentExempt(b[k])
  /\ f.close => k # keys["receiver"]

Fields(s) == {s[i] : i \in DOMAIN s}

\* try_accounts: deserialise, create, check.  A struct here has at most one init field.
TryAccounts(b, s, keys) ==
  LET inits == {f \in Fields(s) : f.init # "no"}
      init == CHOOSE f \in inits : TRUE
      made == IF inits = {} THEN [ok |-> TRUE, bank |-> b]
              ELSE InitField(b, init, keys[init.name], keys["payer"])
  IN [ok |-> /\ \A f \in Fields(s) : Deserialises(b, f, keys[f.name])
             /\ made.ok
             /\ \A f \in Fields(s) : Satisfied(made.bank, f, keys),
      bank |-> made.bank]

-----------------------------------------------------------------------------
(* The end of an instruction. *)

\* Variant: the lamports go, the data stays.
DefundOnly(b, k, to) == Paid(b, k, to, b[k].lamports)

\* common::close
Close(b, k, to) == [Paid(b, k, to, b[k].lamports) EXCEPT ![k].disc = Closed]

\* Account::exit writes the copy; AccountLoader::exit the discriminator.
ExitField(b, f, k, copy) ==
  IF f.ty = "Account"
  THEN [b EXCEPT ![k].disc = f.of, ![k].authority = copy.authority, ![k].val = copy.val]
  ELSE IF f.ty = "AccountLoader" THEN [b EXCEPT ![k].disc = f.of]
  ELSE b

\* The generated exit, field by field in the order of the struct.
ExitStep(b, f, keys, copies) ==
  IF f.close THEN Close(b, keys[f.name], keys["receiver"])
  ELSE IF IsMutable(f) THEN ExitField(b, f, keys[f.name], copies[f.name])
  ELSE b

Exit(b, s, keys, copies) ==
  LET after[i \in 0..Len(s)] ==
        IF i = 0 THEN b ELSE ExitStep(after[i - 1], s[i], keys, copies)
  IN after[Len(s)]

-----------------------------------------------------------------------------
(* An instruction of the program.  The handler turns the copies of the accounts into
   new ones; behind an AccountLoader it works on the account itself. *)

Names(s) == {f.name : f \in Fields(s)}

LoadsForHandler(b, s, keys) ==
  \A f \in Fields(s) : f.ty = "AccountLoader" =>
    IF f.init # "no" \/ f.zero THEN LoadInit(b[keys[f.name]], keys[f.name])
    ELSE f.close \/ LoadMut(b[keys[f.name]], f.of, keys[f.name])

InPlaceStep(b, f, keys, copies) ==
  IF f.ty # "AccountLoader" THEN b
  ELSE [b EXCEPT ![keys[f.name]].authority = copies[f.name].authority,
                 ![keys[f.name]].val = copies[f.name].val]

InPlace(b, s, keys, copies) ==
  LET after[i \in 0..Len(s)] ==
        IF i = 0 THEN b ELSE InPlaceStep(after[i - 1], s[i], keys, copies)
  IN after[Len(s)]

Fails ==
  /\ bank' = ledger /\ phase' = "idle" /\ closed' = {} /\ saved' = {}
  /\ signers' = {} /\ readonly' = {}
  /\ UNCHANGED <<ledger, ixs, txs>>

\* The wrapper around a handler: accounts, handler, exit; an error anywhere is the
\* transaction's.
Instruction(shape, T, keys, Handler(_), refuses(_)) ==
  LET s == Struct(shape, T)
      accounts == TryAccounts(bank, s, keys)
      copies == [n \in Names(s) |-> Content(accounts.bank[keys[n]])]
      changed == Handler(copies)
      touched == {f \in Fields(s) : f.of \in Types /\ ~f.close}
  IN /\ phase = "tx" /\ ixs < MaxIxs
     /\ IF /\ accounts.ok
           /\ LoadsForHandler(accounts.bank, s, keys)
           /\ ~refuses(copies)
        THEN /\ bank' = Exit(InPlace(accounts.bank, s, keys, changed), s, keys, changed)
             /\ closed' = closed \cup {keys[f.name] : f \in {g \in Fields(s) : g.close}}
             /\ saved' = {[field |-> f.name, key |-> keys[f.name], content |-> changed[f.name]] :
                            f \in touched}
             /\ ixs' = ixs + 1
             /\ UNCHANGED <<ledger, phase, signers, readonly, txs>>
        ELSE Fails

\* The instructions of the program; their handlers are the user's (external).
Keeps(copies) == copies
Accepts(copies) == FALSE

Create(T, k, payer, a) ==
  LET Handler(copies) == [copies EXCEPT !["account"] = [authority |-> a, val |-> 0]]
  IN Instruction("create", T, [account |-> k, payer |-> payer], Handler, Accepts)

Ensure(k, payer, a) ==
  LET Handler(copies) ==
        [copies EXCEPT !["account"].authority = IF @ = None THEN a ELSE @]
  IN Instruction("ensure", "User", [account |-> k, payer |-> payer], Handler, Accepts)

Adopt(T, k, a) ==
  LET Handler(copies) == [copies EXCEPT !["account"] = [authority |-> a, val |-> 0]]
  IN Instruction("adopt", T, [account |-> k, authority |-> a], Handler, Accepts)

Update(T, k, a, new) ==
  LET Handler(copies) == [copies EXCEPT !["account"] = new]
  IN Instruction("update", T, [account |-> k, authority |-> a], Handler, Accepts)

\* Moves one unit between two accounts, with checked arithmetic.
Move(k, o, a) ==
  LET Handler(copies) == [copies EXCEPT !["account"].val = @ - 1, !["other"].val = @ + 1]
      Refuses(copies) == copies["account"].val = 0 \/ copies["other"].val = MaxVal
  IN Instruction("move", "User", [account |-> k, other |-> o, authority |-> a],
                 Handler, Refuses)

Shut(T, k, a, r) ==
  Instruction("shut", T, [account |-> k, authority |-> a, receiver |-> r], Keeps, Accepts)

-----------------------------------------------------------------------------
(* Transactions, and the instructions of the system program that people send. *)

Init ==
  /\ ledger = [k \in Keys |-> IF k \in Wallets THEN [Empty EXCEPT !.lamports = Purse] ELSE Empty]
  /\ bank = ledger
  /\ phase = "idle" /\ signers = {} /\ readonly = {} /\ closed = {} /\ saved = {}
  /\ ixs = 0 /\ txs = 0

BeginTx(signing, reading) ==
  /\ phase = "idle" /\ txs < MaxTxs
  /\ phase' = "tx" /\ txs' = txs + 1 /\ ixs' = 0
  /\ signers' = signing /\ readonly' = reading
  /\ UNCHANGED <<ledger, bank, closed, saved>>

SystemInstruction(able, after) ==
  /\ phase = "tx" /\ ixs < MaxIxs
  /\ IF able THEN /\ bank' = after /\ saved' = {} /\ ixs' = ixs + 1
                  /\ UNCHANGED <<ledger, phase, signers, readonly, closed, txs>>
     ELSE Fails

SystemTransfer(from, to, n) ==
  SystemInstruction(CanPay(bank, from, n), Paid(bank, from, to, n))

\* An account made for the program beforehand, as zero expects it.
SystemCreate(from, k, n) ==
  SystemInstruction(CanPay(bank, from, n) /\ CanAllocate(bank, k) /\ bank[k].lamports = 0,
                    [Paid(bank, from, k, n) EXCEPT ![k].owner = Program])

\* An account without lamports ceases to exist with the transaction.
Settled(b) == [k \in Keys |-> IF b[k].lamports = 0 THEN Empty ELSE b[k]]

EndTx ==
  /\ phase = "tx" /\ ixs > 0
  /\ ledger' = Settled(bank) /\ bank' = ledger'
  /\ phase' = "idle" /\ closed' = {} /\ saved' = {}
  /\ signers' = {} /\ readonly' = {}
  /\ UNCHANGED <<ixs, txs>>

Next ==
  \/ \E signing \in SUBSET Keys, reading \in {{}} \cup {{k} : k \in Data} : BeginTx(signing, reading)
  \/ \E T \in Types, k \in Data, p, a \in Wallets : Create(T, k, p, a)
  \/ \E k \in Data, p, a \in Wallets : Ensure(k, p, a)
  \/ \E T \in Types, k \in Data, a \in Wallets : Adopt(T, k, a)
  \/ \E T \in Types, k \in Data, a, b \in Wallets, v \in 0..MaxVal :
       Update(T, k, a, [authority |-> b, val |-> v])
  \/ \E k, o \in Data, a \in Wallets : Move(k, o, a)
  \/ \E T \in Types, k \in Data, a \in Wallets, r \in Keys : Shut(T, k, a, r)
  \/ \E from \in Wallets, to \in Data, n \in {1, RENT + 1} : SystemTransfer(from, to, n)
  \/ \E from \in Wallets, k \in Data, n \in {1, RENT} : SystemCreate(from, k, n)
  \/ EndTx

Spec == Init /\ [][Next]_vars

-----------------------------------------------------------------------------
(* Properties *)

Initialised(a) == a.disc \in Types

\* has_one with Signer (generate_constraint_has_one): an account keeps its authority and
\* what it holds unless its authority signed the transaction.  An account may change hands
\* within a transaction, and be the other account of a move.
OnlyTheAuthority ==
  [][\A k \in Data :
       Initialised(ledger[k]) /\ ledger[k].authority \notin signers =>
         /\ Initialised(ledger'[k])
         /\ ledger'[k].authority = ledger[k].authority
         /\ ledger'[k].val >= ledger[k].val
         /\ ledger'[k].lamports >= ledger[k].lamports]_vars

\* common::close: an account that was closed and then given lamports again in the same
\* transaction is of no use to any instruction, in that transaction or later.
NoRevival == \A k \in closed : ~Initialised(bank[k])

\* generate_create_account and rent_exempt: between transactions every initialised account
\* can pay for its place, whichever way it came to be.
StaysRentExempt == \A k \in Data : Initialised(ledger[k]) => ledger[k].lamports >= RENT

\* An account lives on its rent and dies for good: close, init and init_if_needed leave no
\* account that could not pay for its place and none that comes back (common::close,
\* generate_create_account).
SoundLifetimes == NoRevival /\ StaysRentExempt

HoldsWhat(e) == Content(bank[e.key]) = e.content /\ Initialised(bank[e.key])

\* AccountsExit: an instruction leaves in the program's accounts what its handler made of
\* them, unless it was given the same account twice.
Persisted ==
  \A e \in saved : (\A g \in saved : g.key = e.key => g = e) => HoldsWhat(e)

=============================================================================
