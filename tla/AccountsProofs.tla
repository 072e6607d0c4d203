--------------------------- MODULE AccountsProofs ---------------------------
(***************************************************************************)
(* The lifetimes, the persistence and the ownership of the accounts of an  *)
(* Anchor program, for any number of wallets and accounts, any rent, and   *)
(* transactions of any length.                                             *)
(***************************************************************************)
EXTENDS AnchorAccounts, TLAPS

Holdings == [authority : Wallets \cup {None}, val : 0..MaxVal]

Account == [owner : {System, Program}, lamports : Nat, disc : Types \cup {Zero, Closed},
            authority : Wallets \cup {None}, val : 0..MaxVal]

Bank == [Keys -> Account]

(* Every variable has its type. *)
TypeOK ==
  /\ ledger \in Bank /\ bank \in Bank
  /\ phase \in {"idle", "tx"} /\ signers \subseteq Keys /\ readonly \subseteq Data
  /\ closed \subseteq Data /\ ixs \in Nat /\ txs \in Nat

(* What no program owns was never written; what is initialised is the      *)
(* program's, can pay for its place and has an authority.                  *)
Sound(b) ==
  /\ \A k \in Keys : b[k].owner = System => b[k].disc = Zero
  /\ \A k \in Data : Initialised(b[k]) =>
        b[k].owner = Program /\ b[k].lamports >= RENT /\ b[k].authority \in Wallets

(* What the transaction closed keeps the discriminator of closed accounts. *)
ClosedStay == \A k \in closed : bank[k].disc = Closed

(* Between transactions there is nothing but the ledger. *)
Idle == phase = "idle" => bank = ledger /\ closed = {}

(* c is a later state of a, as those other than its authority may make it. *)
Later(a, c) ==
  /\ Initialised(c) /\ c.authority = a.authority
  /\ c.val >= a.val /\ c.lamports >= a.lamports

(* Within a transaction too, an account whose authority does not sign it    *)
(* keeps what it has.                                                       *)
Untouched ==
  \A k \in Data : Initialised(ledger[k]) /\ ledger[k].authority \notin signers
     => Later(ledger[k], bank[k])

IInv == TypeOK /\ Sound(ledger) /\ Sound(bank) /\ ClosedStay /\ Idle /\ Untouched

-----------------------------------------------------------------------------
(* The instruction's struct, field by field. *)

LEMMA ExitTwo ==
  ASSUME NEW b, NEW f, NEW g, NEW keys, NEW copies
  PROVE  Exit(b, <<f, g>>, keys, copies)
           = ExitStep(ExitStep(b, f, keys, copies), g, keys, copies)
  <1> DEFINE s == <<f, g>>
             one == ExitStep(b, f, keys, copies)
             two == ExitStep(one, g, keys, copies)
             Step(h) == [i \in 0..Len(s) |->
                           IF i = 0 THEN b ELSE ExitStep(h[i - 1], s[i], keys, copies)]
             w == [i \in 0..Len(s) |-> IF i = 0 THEN b ELSE IF i = 1 THEN one ELSE two]
             after == CHOOSE h : h = Step(h)
  <1>1. Len(s) = 2 /\ s[1] = f /\ s[2] = g
    OBVIOUS
  <1>2. w[0] = b /\ w[1] = one /\ w[2] = two
    BY <1>1
  <1>3. w = Step(w)
    BY <1>1, <1>2
  <1>4. after = Step(after)
    BY <1>3
  <1> HIDE DEF after
  <1>5. after[0] = b /\ after[1] = ExitStep(after[0], f, keys, copies)
        /\ after[2] = ExitStep(after[1], g, keys, copies)
    BY <1>4, <1>1
  <1>6. Exit(b, s, keys, copies) = after[2]
    BY <1>1 DEF Exit, after
  <1> QED
    BY <1>5, <1>6

LEMMA ExitThree ==
  ASSUME NEW b, NEW f, NEW g, NEW h, NEW keys, NEW copies
  PROVE  Exit(b, <<f, g, h>>, keys, copies)
           = ExitStep(ExitStep(ExitStep(b, f, keys, copies), g, keys, copies), h, keys, copies)
  <1> DEFINE s == <<f, g, h>>
             one == ExitStep(b, f, keys, copies)
             two == ExitStep(one, g, keys, copies)
             three == ExitStep(two, h, keys, copies)
             Step(x) == [i \in 0..Len(s) |->
                           IF i = 0 THEN b ELSE ExitStep(x[i - 1], s[i], keys, copies)]
             w == [i \in 0..Len(s) |-> IF i = 0 THEN b ELSE IF i = 1 THEN one
                                       ELSE IF i = 2 THEN two ELSE three]
             after == CHOOSE x : x = Step(x)
  <1>1. Len(s) = 3 /\ s[1] = f /\ s[2] = g /\ s[3] = h
    OBVIOUS
  <1>2. w[0] = b /\ w[1] = one /\ w[2] = two /\ w[3] = three
    BY <1>1
  <1>3. w = Step(w)
    BY <1>1, <1>2
  <1>4. after = Step(after)
    BY <1>3
  <1> HIDE DEF after
  <1>5. /\ after[0] = b /\ after[1] = ExitStep(after[0], f, keys, copies)
        /\ after[2] = ExitStep(after[1], g, keys, copies)
        /\ after[3] = ExitStep(after[2], h, keys, copies)
    BY <1>4, <1>1
  <1>6. Exit(b, s, keys, copies) = after[3]
    BY <1>1 DEF Exit, after
  <1> QED
    BY <1>5, <1>6

LEMMA InPlaceTwo ==
  ASSUME NEW b, NEW f, NEW g, NEW keys, NEW copies
  PROVE  InPlace(b, <<f, g>>, keys, copies)
           = InPlaceStep(InPlaceStep(b, f, keys, copies), g, keys, copies)
  <1> DEFINE s == <<f, g>>
             one == InPlaceStep(b, f, keys, copies)
             two == InPlaceStep(one, g, keys, copies)
             Step(h) == [i \in 0..Len(s) |->
                           IF i = 0 THEN b ELSE InPlaceStep(h[i - 1], s[i], keys, copies)]
             w == [i \in 0..Len(s) |-> IF i = 0 THEN b ELSE IF i = 1 THEN one ELSE two]
             after == CHOOSE h : h = Step(h)
  <1>1. Len(s) = 2 /\ s[1] = f /\ s[2] = g
    OBVIOUS
  <1>2. w[0] = b /\ w[1] = one /\ w[2] = two
    BY <1>1
  <1>3. w = Step(w)
    BY <1>1, <1>2
  <1>4. after = Step(after)
    BY <1>3
  <1> HIDE DEF after
  <1>5. after[0] = b /\ after[1] = InPlaceStep(after[0], f, keys, copies)
        /\ after[2] = InPlaceStep(after[1], g, keys, copies)
    BY <1>4, <1>1
  <1>6. InPlace(b, s, keys, copies) = after[2]
    BY <1>1 DEF InPlace, after
  <1> QED
    BY <1>5, <1>6

LEMMA InPlaceThree ==
  ASSUME NEW b, NEW f, NEW g, NEW h, NEW keys, NEW copies
  PROVE  InPlace(b, <<f, g, h>>, keys, copies)
           = InPlaceStep(InPlaceStep(InPlaceStep(b, f, keys, copies), g, keys, copies),
                         h, keys, copies)
  <1> DEFINE s == <<f, g, h>>
             one == InPlaceStep(b, f, keys, copies)
             two == InPlaceStep(one, g, keys, copies)
             three == InPlaceStep(two, h, keys, copies)
             Step(x) == [i \in 0..Len(s) |->
                           IF i = 0 THEN b ELSE InPlaceStep(x[i - 1], s[i], keys, copies)]
             w == [i \in 0..Len(s) |-> IF i = 0 THEN b ELSE IF i = 1 THEN one
                                       ELSE IF i = 2 THEN two ELSE three]
             after == CHOOSE x : x = Step(x)
  <1>1. Len(s) = 3 /\ s[1] = f /\ s[2] = g /\ s[3] = h
    OBVIOUS
  <1>2. w[0] = b /\ w[1] = one /\ w[2] = two /\ w[3] = three
    BY <1>1
  <1>3. w = Step(w)
    BY <1>1, <1>2
  <1>4. after = Step(after)
    BY <1>3
  <1> HIDE DEF after
  <1>5. /\ after[0] = b /\ after[1] = InPlaceStep(after[0], f, keys, copies)
        /\ after[2] = InPlaceStep(after[1], g, keys, copies)
        /\ after[3] = InPlaceStep(after[2], h, keys, copies)
    BY <1>4, <1>1
  <1>6. InPlace(b, s, keys, copies) = after[3]
    BY <1>1 DEF InPlace, after
  <1> QED
    BY <1>5, <1>6
-----------------------------------------------------------------------------
(* What is done to an account. *)

(* The account as a handler leaves it, for either wrapper. *)
Write(b, k, T, c) ==
  [b EXCEPT ![k] = [owner |-> b[k].owner, lamports |-> b[k].lamports, disc |-> T,
                    authority |-> c.authority, val |-> c.val]]

LEMMA WriteType ==
  ASSUME NEW b \in Bank, NEW k \in Keys, NEW T \in Types, NEW c \in Holdings
  PROVE  /\ Write(b, k, T, c) \in Bank
         /\ \A j \in Keys : j # k => Write(b, k, T, c)[j] = b[j]
         /\ Write(b, k, T, c)[k].owner = b[k].owner
         /\ Write(b, k, T, c)[k].lamports = b[k].lamports
         /\ Write(b, k, T, c)[k].disc = T
         /\ Write(b, k, T, c)[k].authority = c.authority
         /\ Write(b, k, T, c)[k].val = c.val
  BY DEF Write, Bank, Account, Holdings

LEMMA PaidType ==
  ASSUME NEW b \in Bank, NEW from \in Keys, NEW to \in Keys, from # to,
         NEW n \in Nat, n <= b[from].lamports
  PROVE  LET c == Paid(b, from, to, n)
         IN  /\ c \in Bank
             /\ \A j \in Keys : /\ c[j].owner = b[j].owner /\ c[j].disc = b[j].disc
                                /\ c[j].authority = b[j].authority /\ c[j].val = b[j].val
             /\ \A j \in Keys \ {from, to} : c[j] = b[j]
             /\ c[from].lamports = b[from].lamports - n
             /\ c[to].lamports = b[to].lamports + n
  BY DEF Paid, Bank, Account

Owned(b, k) == [b EXCEPT ![k].owner = Program]

LEMMA OwnedType ==
  ASSUME NEW b \in Bank, NEW k \in Keys
  PROVE  LET c == Owned(b, k)
         IN  /\ c \in Bank
             /\ \A j \in Keys : /\ c[j].disc = b[j].disc /\ c[j].lamports = b[j].lamports
                                /\ c[j].authority = b[j].authority /\ c[j].val = b[j].val
             /\ \A j \in Keys \ {k} : c[j] = b[j]
             /\ c[k].owner = Program
  BY DEF Owned, Bank, Account

LEMMA CloseType ==
  ASSUME NEW b \in Bank, NEW k \in Keys, NEW to \in Keys, k # to
  PROVE  LET c == Close(b, k, to)
         IN  /\ c \in Bank
             /\ \A j \in Keys : /\ c[j].owner = b[j].owner
                                /\ c[j].authority = b[j].authority /\ c[j].val = b[j].val
             /\ \A j \in Keys \ {k} : c[j].disc = b[j].disc /\ c[j].lamports >= b[j].lamports
             /\ \A j \in Keys \ {k, to} : c[j] = b[j]
             /\ c[k].disc = Closed
  <1> DEFINE d == Paid(b, k, to, b[k].lamports)
             c == [d EXCEPT ![k].disc = Closed]
  <1>1. b[k].lamports \in Nat
    BY DEF Bank, Account
  <1>2. /\ d \in Bank
        /\ \A j \in Keys : /\ d[j].owner = b[j].owner /\ d[j].disc = b[j].disc
                           /\ d[j].authority = b[j].authority /\ d[j].val = b[j].val
        /\ \A j \in Keys \ {k, to} : d[j] = b[j]
        /\ d[to].lamports = b[to].lamports + b[k].lamports
    BY <1>1, PaidType
  <1>3. \A j \in Keys : b[j].lamports \in Nat /\ d[j].lamports \in Nat
    BY <1>2 DEF Bank, Account
  <1>4. \A j \in Keys \ {k} : d[j].lamports >= b[j].lamports
    BY <1>1, <1>2, <1>3
  <1> HIDE DEF d
  <1>5. /\ c \in Bank
        /\ \A j \in Keys : /\ c[j].owner = d[j].owner /\ c[j].lamports = d[j].lamports
                           /\ c[j].authority = d[j].authority /\ c[j].val = d[j].val
        /\ \A j \in Keys \ {k} : c[j] = d[j]
        /\ c[k].disc = Closed
    BY <1>2 DEF Bank, Account
  <1>6. Close(b, k, to) = c
    BY DEF Close, d
  <1> HIDE DEF c
  <1> QED
    BY <1>2, <1>4, <1>5, <1>6

Remade(a, x, y, z) == [a EXCEPT !.disc = x, !.authority = y, !.val = z]

LEMMA ExceptMade ==
  ASSUME NEW a \in Account, NEW x, NEW y, NEW z
  PROVE  Remade(a, x, y, z)
           = [owner |-> a.owner, lamports |-> a.lamports, disc |-> x, authority |-> y, val |-> z]
  <1> DEFINE e == [a EXCEPT !.disc = x, !.authority = y, !.val = z]
             Only == [owner : {a.owner}, lamports : {a.lamports}, disc : {x},
                      authority : {y}, val : {z}]
  <1>1. e \in Only
    BY DEF Account
  <1> HIDE DEF e
  <1>2. e = [owner |-> a.owner, lamports |-> a.lamports, disc |-> x, authority |-> y, val |-> z]
    BY <1>1
  <1> QED
    BY <1>2 DEF e, Remade

(* A handler's copy of an account: behind Account it is written by exit, behind   *)
(* AccountLoader in place, and exit writes the discriminator.                     *)
LEMMA WrittenBack ==
  ASSUME NEW b \in Bank, NEW T \in Types, NEW f, NEW keys, NEW copies,
         f.ty = Wrapper(T), f.of = T, ~f.close, IsMutable(f),
         keys[f.name] \in Keys, copies[f.name] \in Holdings
  PROVE  ExitStep(InPlaceStep(b, f, keys, copies), f, keys, copies)
           = Write(b, keys[f.name], T, copies[f.name])
  <1> DEFINE k == keys[f.name]
             c == copies[f.name]
             d == [b EXCEPT ![k].authority = c.authority, ![k].val = c.val]
             made == [owner |-> b[k].owner, lamports |-> b[k].lamports, disc |-> T,
                      authority |-> c.authority, val |-> c.val]
  <1>3. Remade(b[k], T, c.authority, c.val) = made
    <2>1. b[k] \in Account
      BY DEF Bank
    <2> HIDE DEF k, c
    <2> QED
      BY <2>1, ExceptMade
  <1>1. CASE T = "User"
    <2>1. InPlaceStep(b, f, keys, copies) = b
      BY <1>1 DEF InPlaceStep, Wrapper
    <2>2. ExitStep(b, f, keys, copies)
            = [b EXCEPT ![k].disc = T, ![k].authority = c.authority, ![k].val = c.val]
      BY <1>1 DEF ExitStep, ExitField, Wrapper
    <2> DEFINE e == [b EXCEPT ![k].disc = T, ![k].authority = c.authority, ![k].val = c.val]
    <2>3. e[k] = [b[k] EXCEPT !.disc = T, !.authority = c.authority, !.val = c.val]
      BY DEF Bank, Account
    <2>4. e[k] = made
      BY <2>3, <1>3 DEF Remade
    <2>5. e = [b EXCEPT ![k] = made]
      BY <2>4 DEF Bank, Account
    <2> QED
      BY <2>1, <2>2, <2>5 DEF Write
  <1>2. CASE T = "Book"
    <2>1. InPlaceStep(b, f, keys, copies) = d
      BY <1>2 DEF InPlaceStep, Wrapper
    <2>2. ExitStep(d, f, keys, copies) = [d EXCEPT ![k].disc = T]
      BY <1>2 DEF ExitStep, ExitField, Wrapper
    <2> DEFINE e == [d EXCEPT ![k].disc = T]
    <2>3. e[k] = [b[k] EXCEPT !.disc = T, !.authority = c.authority, !.val = c.val]
      BY DEF Bank, Account
    <2>4. e[k] = made
      BY <2>3, <1>3 DEF Remade
    <2>5. e = [b EXCEPT ![k] = made]
      BY <2>4 DEF Bank, Account
    <2> QED
      BY <2>1, <2>2, <2>5 DEF Write
  <1> QED
    BY <1>1, <1>2 DEF Types

(* Fields of other types are left alone. *)
LEMMA LeftAlone ==
  ASSUME NEW b, NEW f, NEW keys, NEW copies, f.ty \in {"Signer", "SystemAccount"}, ~f.close
  PROVE  /\ InPlaceStep(b, f, keys, copies) = b
         /\ ExitStep(b, f, keys, copies) = b
  BY DEF InPlaceStep, ExitStep, ExitField

-----------------------------------------------------------------------------
(* What each instruction does when it does not fail. *)

Ran ==
  /\ phase = "tx" /\ ixs' = ixs + 1
  /\ UNCHANGED <<ledger, phase, signers, readonly, txs>>

Runs(s, keys, changed) ==
  LET accounts == TryAccounts(bank, s, keys)
  IN  /\ Ran
      /\ accounts.ok /\ LoadsForHandler(accounts.bank, s, keys)
      /\ bank' = Exit(InPlace(accounts.bank, s, keys, changed), s, keys, changed)
      /\ closed' = closed \cup {keys[f.name] : f \in {g \in Fields(s) : g.close}}
      /\ saved' = {[field |-> f.name, key |-> keys[f.name], content |-> changed[f.name]] :
                      f \in {g \in Fields(s) : g.of \in Types /\ ~g.close}}

Entry(k, c) == [field |-> "account", key |-> k, content |-> c]

Copies(s, keys) ==
  [n \in {f.name : f \in Fields(s)} |-> Content(TryAccounts(bank, s, keys).bank[keys[n]])]

(* An account of the program and a signer: create, ensure, adopt and update. *)
LEMMA AccountAndSigner ==
  ASSUME NEW T \in Types, NEW f, NEW g, NEW keys, NEW changed,
         f.name = "account", f.ty = Wrapper(T), f.of = T, f.close = FALSE, IsMutable(f),
         g.ty = "Signer", g.of = None, g.close = FALSE,
         keys["account"] \in Keys, changed["account"] \in Holdings,
         TryAccounts(bank, <<f, g>>, keys).bank \in Bank,
         Runs(<<f, g>>, keys, changed)
  PROVE  /\ bank' = Write(TryAccounts(bank, <<f, g>>, keys).bank, keys["account"], T,
                          changed["account"])
         /\ closed' = closed
         /\ saved' = {Entry(keys["account"], changed["account"])}
  <1> DEFINE s == <<f, g>>
             b == TryAccounts(bank, s, keys).bank
  <1>1. Fields(s) = {f, g}
    <2>1. DOMAIN s = {1, 2} /\ s[1] = f /\ s[2] = g
      OBVIOUS
    <2> HIDE DEF s
    <2> QED
      BY <2>1 DEF Fields
  <1>2. bank' = Exit(InPlace(b, s, keys, changed), s, keys, changed)
    BY DEF Runs
  <1>3. b \in Bank
    OBVIOUS
  <1> HIDE DEF b
  <1>4. InPlace(b, s, keys, changed) = InPlaceStep(b, f, keys, changed)
    BY InPlaceTwo, LeftAlone
  <1>5. \A c : Exit(c, s, keys, changed) = ExitStep(c, f, keys, changed)
    BY ExitTwo, LeftAlone
  <1>6. bank' = Write(b, keys["account"], T, changed["account"])
    BY <1>2, <1>3, <1>4, <1>5, WrittenBack
  <1>7. {h \in Fields(s) : h.close} = {}
    BY <1>1
  <1>8. closed' = closed
    <2>1. closed' = closed \cup {keys[h.name] : h \in {j \in Fields(s) : j.close}}
      BY DEF Runs
    <2> HIDE DEF s
    <2> QED
      BY <2>1, <1>7
  <1>9. {h \in Fields(s) : h.of \in Types /\ ~h.close} = {f}
    BY <1>1 DEF Types, None
  <1>10. saved' = {Entry(keys["account"], changed["account"])}
    <2>1. saved' = {[field |-> h.name, key |-> keys[h.name], content |-> changed[h.name]] :
                      h \in {j \in Fields(s) : j.of \in Types /\ ~j.close}}
      BY DEF Runs
    <2> HIDE DEF s
    <2> QED
      BY <2>1, <1>9 DEF Entry
  <1> QED
    BY <1>6, <1>8, <1>10 DEF b

(* try_accounts of a struct without init, and of one with one init field. *)
LEMMA TryPlain ==
  ASSUME NEW s, NEW keys, \A f \in Fields(s) : f.init = "no"
  PROVE  LET t == TryAccounts(bank, s, keys)
         IN  /\ t.bank = bank
             /\ t.ok => \A f \in Fields(s) : /\ Deserialises(bank, f, keys[f.name])
                                             /\ Satisfied(bank, f, keys)
  BY DEF TryAccounts

LEMMA TryInit ==
  ASSUME NEW s, NEW keys, NEW f \in Fields(s),
         \A g \in Fields(s) : g.init # "no" <=> g = f
  PROVE  LET t == TryAccounts(bank, s, keys)
             made == InitField(bank, f, keys[f.name], keys["payer"])
         IN  /\ t.bank = made.bank
             /\ t.ok => made.ok /\ (\A g \in Fields(s) : Satisfied(made.bank, g, keys))
  <1> DEFINE inits == {g \in Fields(s) : g.init # "no"}
             init == CHOOSE g \in inits : TRUE
  <1>0. inits = {f}
    OBVIOUS
  <1>1. init = f /\ inits # {}
    BY <1>0
  <1> HIDE DEF init, inits
  <1> QED
    BY <1>1 DEF TryAccounts, init, inits

LEMMA CreateAccountType ==
  ASSUME bank \in Bank, NEW k \in Data, NEW p \in Wallets, CreateAccount(bank, k, p).ok
  PROVE  LET b == CreateAccount(bank, k, p).bank
         IN  /\ b \in Bank
             /\ \A j \in Keys : /\ b[j].disc = bank[j].disc
                                /\ b[j].authority = bank[j].authority /\ b[j].val = bank[j].val
             /\ \A j \in Keys \ {k, p} : b[j] = bank[j]
             /\ b[p].owner = bank[p].owner
             /\ b[k].owner = Program /\ b[k].lamports >= RENT
             /\ bank[k].owner = System /\ k \in signers /\ bank[p].owner = System
  <1> DEFINE n == Missing(bank, k)
             paid == Paid(bank, p, k, n)
             b == Owned(paid, k)
  <1>1. k \in Keys /\ p \in Keys /\ k # p
    BY AccountsAssumption DEF Keys
  <1>2. bank[k].lamports \in Nat /\ RENT \in Nat
    BY <1>1, AccountsAssumption DEF Bank, Account
  <1>3. n \in Nat /\ bank[k].lamports + n >= RENT
    BY <1>2 DEF Missing
  <1> HIDE DEF n
  <1>4. /\ n <= bank[p].lamports /\ bank[k].owner = System /\ k \in signers
        /\ bank[p].owner = System
    <2>1. CreateAccount(bank, k, p).ok = (CanPay(bank, p, n) /\ CanAllocate(bank, k))
      BY DEF CreateAccount, n
    <2>2. bank[p].lamports \in Nat
      BY <1>1 DEF Bank, Account
    <2> QED
      BY <2>1, <2>2, <1>3 DEF CanPay, CanAllocate
  <1>5. /\ paid \in Bank
        /\ \A j \in Keys : /\ paid[j].owner = bank[j].owner /\ paid[j].disc = bank[j].disc
                           /\ paid[j].authority = bank[j].authority /\ paid[j].val = bank[j].val
        /\ \A j \in Keys \ {p, k} : paid[j] = bank[j]
        /\ paid[k].lamports = bank[k].lamports + n
    BY <1>1, <1>3, <1>4, PaidType
  <1>6. CreateAccount(bank, k, p).bank = b
    BY DEF CreateAccount, n, Owned
  <1> HIDE DEF paid
  <1>7. /\ b \in Bank
        /\ \A j \in Keys : /\ b[j].disc = paid[j].disc /\ b[j].lamports = paid[j].lamports
                           /\ b[j].authority = paid[j].authority /\ b[j].val = paid[j].val
        /\ \A j \in Keys \ {k} : b[j] = paid[j]
        /\ b[k].owner = Program
    BY <1>1, <1>5, OwnedType
  <1> HIDE DEF b
  <1> QED
    BY <1>1, <1>3, <1>4, <1>5, <1>6, <1>7

LEMMA CreateEffect ==
  ASSUME bank \in Bank, NEW T \in Types, NEW k \in Data, NEW p \in Wallets, NEW a \in Wallets,
         Create(T, k, p, a)
  PROVE  \/ Fails
         \/ /\ Ran /\ closed' = closed
            /\ saved' = {Entry(k, [authority |-> a, val |-> 0])}
            /\ CreateAccount(bank, k, p).ok
            /\ bank' = Write(CreateAccount(bank, k, p).bank, k, T, [authority |-> a, val |-> 0])
  <1> DEFINE s == Struct("create", T)
             keys == [account |-> k, payer |-> p]
             c == [authority |-> a, val |-> 0]
             changed == [Copies(s, keys) EXCEPT !["account"] = c]
             f == [Field("account", Wrapper(T), T) EXCEPT !.init = "init"]
             g == [Field("payer", "Signer", None) EXCEPT !.mut = TRUE]
             made == CreateAccount(bank, k, p)
  <1> SUFFICES ASSUME ~Fails
               PROVE  /\ Ran /\ closed' = closed /\ saved' = {Entry(k, c)}
                      /\ made.ok /\ bank' = Write(made.bank, k, T, c)
    OBVIOUS
  <1>1. Runs(s, keys, changed)
    BY DEF Create, Instruction, Runs, Ran, Copies, Names
  <1>2. s = <<f, g>>
    BY DEF Struct
  <1>3. /\ f.name = "account" /\ f.ty = Wrapper(T) /\ f.of = T /\ f.init = "init"
        /\ f.zero = FALSE /\ f.mut = FALSE /\ f.has_one = FALSE /\ f.close = FALSE
    BY DEF Field
  <1>4. /\ g.name = "payer" /\ g.ty = "Signer" /\ g.of = None /\ g.init = "no"
        /\ g.zero = FALSE /\ g.mut = TRUE /\ g.has_one = FALSE /\ g.close = FALSE
    BY DEF Field
  <1> HIDE DEF f, g
  <1>5. Fields(s) = {f, g}
    <2>1. DOMAIN <<f, g>> = {1, 2} /\ <<f, g>>[1] = f /\ <<f, g>>[2] = g
      OBVIOUS
    <2> QED
      BY <2>1, <1>2 DEF Fields
  <1>6. f \in Fields(s) /\ \A h \in Fields(s) : h.init # "no" <=> h = f
    BY <1>3, <1>4, <1>5
  <1>7. keys["account"] = k /\ keys["payer"] = p
    OBVIOUS
  <1>8. InitField(bank, f, k, p).bank = made.bank /\ (InitField(bank, f, k, p).ok => made.ok)
    BY <1>3 DEF InitField, Creates
  <1>9. changed["account"] = c /\ c \in Holdings
    <2>1. "account" \in DOMAIN Copies(s, keys)
      BY <1>3, <1>5 DEF Copies
    <2>2. c \in Holdings
      BY AccountsAssumption DEF Holdings
    <2> QED
      BY <2>1, <2>2
  <1> HIDE DEF made, changed, keys, c, s
  <1>10. TryAccounts(bank, s, keys).ok
    BY <1>1 DEF Runs
  <1>11. TryAccounts(bank, s, keys).bank = made.bank /\ made.ok
    BY <1>3, <1>6, <1>7, <1>8, <1>10, TryInit
  <1>12. made.bank \in Bank
    BY <1>11, CreateAccountType DEF made
  <1>13. IsMutable(f) /\ k \in Keys
    BY <1>3 DEF IsMutable, Keys
  <1>14. /\ bank' = Write(made.bank, k, T, c) /\ closed' = closed /\ saved' = {Entry(k, c)}
    <2>1. /\ f.name = "account" /\ f.ty = Wrapper(T) /\ f.of = T /\ f.close = FALSE
          /\ g.ty = "Signer" /\ g.of = None /\ g.close = FALSE
      BY <1>3, <1>4
    <2>2. TryAccounts(bank, <<f, g>>, keys).bank = made.bank /\ Runs(<<f, g>>, keys, changed)
      BY <1>1, <1>2, <1>11
    <2>3. TryAccounts(bank, <<f, g>>, keys).bank \in Bank
      BY <2>2, <1>12
    <2> QED
      BY <2>1, <2>2, <2>3, <1>7, <1>9, <1>13, AccountAndSigner
  <1> QED
    BY <1>1, <1>11, <1>14 DEF Runs

(* What the handler of Ensure makes of the account. *)
Claimed(x, a) == [authority |-> IF x.authority = None THEN a ELSE x.authority, val |-> x.val]

LEMMA EnsureEffect ==
  ASSUME bank \in Bank, NEW k \in Data, NEW p \in Wallets, NEW a \in Wallets, Ensure(k, p, a)
  PROVE  \/ Fails
         \/ /\ Ran /\ closed' = closed
            /\ Claimed(bank[k], a) \in Holdings
            /\ saved' = {Entry(k, Claimed(bank[k], a))}
            /\ \/ /\ CreateAccount(bank, k, p).ok
                  /\ bank' = Write(CreateAccount(bank, k, p).bank, k, "User", Claimed(bank[k], a))
               \/ /\ bank[k].disc = "User"
                  /\ bank' = Write(bank, k, "User", Claimed(bank[k], a))
  <1> DEFINE s == Struct("ensure", "User")
             keys == [account |-> k, payer |-> p]
             t == TryAccounts(bank, s, keys)
             c == Claimed(bank[k], a)
             changed == [Copies(s, keys) EXCEPT !["account"].authority = IF @ = None THEN a ELSE @]
             f == [Field("account", Wrapper("User"), "User") EXCEPT !.init = "if_needed"]
             g == [Field("payer", "Signer", None) EXCEPT !.mut = TRUE]
             made == CreateAccount(bank, k, p)
  <1> SUFFICES ASSUME ~Fails
               PROVE  /\ Ran /\ closed' = closed /\ c \in Holdings /\ saved' = {Entry(k, c)}
                      /\ \/ made.ok /\ bank' = Write(made.bank, k, "User", c)
                         \/ bank[k].disc = "User" /\ bank' = Write(bank, k, "User", c)
    OBVIOUS
  <1>1. Runs(s, keys, changed)
    BY DEF Ensure, Instruction, Runs, Ran, Copies, Names
  <1>2. s = <<f, g>>
    BY DEF Struct
  <1>3. /\ f.name = "account" /\ f.ty = "Account" /\ f.of = "User" /\ f.init = "if_needed"
        /\ f.zero = FALSE /\ f.mut = FALSE /\ f.has_one = FALSE /\ f.close = FALSE
    BY DEF Field, Wrapper
  <1>4. /\ g.name = "payer" /\ g.ty = "Signer" /\ g.of = None /\ g.init = "no"
        /\ g.zero = FALSE /\ g.mut = TRUE /\ g.has_one = FALSE /\ g.close = FALSE
    BY DEF Field
  <1> HIDE DEF f, g
  <1>5. Fields(s) = {f, g}
    <2>1. DOMAIN <<f, g>> = {1, 2} /\ <<f, g>>[1] = f /\ <<f, g>>[2] = g
      OBVIOUS
    <2> QED
      BY <2>1, <1>2 DEF Fields
  <1>6. f \in Fields(s) /\ \A h \in Fields(s) : h.init # "no" <=> h = f
    BY <1>3, <1>4, <1>5
  <1>7. keys["account"] = k /\ keys["payer"] = p
    OBVIOUS
  <1>8. \/ InitField(bank, f, k, p).bank = made.bank /\ (InitField(bank, f, k, p).ok => made.ok)
        \/ /\ InitField(bank, f, k, p).bank = bank
           /\ InitField(bank, f, k, p).ok => bank[k].disc = "User"
    BY <1>3 DEF InitField, Creates, FromAccountInfo, AccountTryFrom, TryDeserialize
  <1>9. /\ "account" \in DOMAIN Copies(s, keys)
        /\ Copies(s, keys)["account"] = Content(t.bank[k])
    BY <1>3, <1>5, <1>7 DEF Copies
  <1>10. changed["account"] = Claimed(t.bank[k], a)
    BY <1>9 DEF Claimed, Content
  <1> HIDE DEF made, changed, keys, s
  <1>11. t.ok
    BY <1>1 DEF Runs
  <1>12. t.bank = InitField(bank, f, k, p).bank /\ InitField(bank, f, k, p).ok
    BY <1>3, <1>6, <1>7, <1>11, TryInit
  <1>13. IsMutable(f) /\ k \in Keys
    BY <1>3 DEF IsMutable, Keys
  <1>14. \/ made.ok /\ t.bank = made.bank
         \/ bank[k].disc = "User" /\ t.bank = bank
    BY <1>8, <1>12
  <1>15. /\ t.bank \in Bank
         /\ t.bank[k].authority = bank[k].authority /\ t.bank[k].val = bank[k].val
    BY <1>13, <1>14, CreateAccountType DEF made
  <1> HIDE DEF t
  <1>16. c = Claimed(t.bank[k], a) /\ c \in Holdings
    BY <1>13, <1>15 DEF Claimed, Bank, Account, Holdings
  <1> HIDE DEF c
  <1>17. bank' = Write(t.bank, k, "User", c) /\ closed' = closed /\ saved' = {Entry(k, c)}
    <2>1. "User" \in Types /\ Wrapper("User") = "Account"
      BY DEF Types, Wrapper
    <2>2. /\ f.name = "account" /\ f.ty = Wrapper("User") /\ f.of = "User" /\ f.close = FALSE
          /\ g.ty = "Signer" /\ g.of = None /\ g.close = FALSE
      BY <1>3, <1>4, <2>1
    <2>3. TryAccounts(bank, <<f, g>>, keys).bank = t.bank /\ Runs(<<f, g>>, keys, changed)
      BY <1>1, <1>2 DEF t
    <2>4. changed["account"] = c /\ c \in Holdings /\ t.bank \in Bank
      BY <1>10, <1>15, <1>16
    <2> QED
      BY <2>1, <2>2, <2>3, <2>4, <1>7, <1>13, AccountAndSigner
  <1> QED
    BY <1>1, <1>14, <1>16, <1>17 DEF Runs

LEMMA AdoptEffect ==
  ASSUME bank \in Bank, NEW T \in Types, NEW k \in Data, NEW a \in Wallets, Adopt(T, k, a)
  PROVE  \/ Fails
         \/ /\ Ran /\ closed' = closed
            /\ saved' = {Entry(k, [authority |-> a, val |-> 0])}
            /\ bank[k].disc = Zero /\ bank[k].owner = Program /\ bank[k].lamports >= RENT
            /\ bank' = Write(bank, k, T, [authority |-> a, val |-> 0])
  <1> DEFINE s == Struct("adopt", T)
             keys == [account |-> k, authority |-> a]
             c == [authority |-> a, val |-> 0]
             changed == [Copies(s, keys) EXCEPT !["account"] = c]
             f == [Field("account", Wrapper(T), T) EXCEPT !.zero = TRUE]
             g == Field("authority", "Signer", None)
  <1> SUFFICES ASSUME ~Fails
               PROVE  /\ Ran /\ closed' = closed /\ saved' = {Entry(k, c)}
                      /\ bank[k].disc = Zero /\ bank[k].owner = Program /\ bank[k].lamports >= RENT
                      /\ bank' = Write(bank, k, T, c)
    OBVIOUS
  <1>1. Runs(s, keys, changed)
    BY DEF Adopt, Instruction, Runs, Ran, Copies, Names
  <1>2. s = <<f, g>>
    BY DEF Struct
  <1>3. /\ f.name = "account" /\ f.ty = Wrapper(T) /\ f.of = T /\ f.init = "no"
        /\ f.zero = TRUE /\ f.mut = FALSE /\ f.has_one = FALSE /\ f.close = FALSE
    BY DEF Field
  <1>4. /\ g.name = "authority" /\ g.ty = "Signer" /\ g.of = None /\ g.init = "no"
        /\ g.zero = FALSE /\ g.mut = FALSE /\ g.has_one = FALSE /\ g.close = FALSE
    BY DEF Field
  <1> HIDE DEF f, g
  <1>5. Fields(s) = {f, g}
    <2>1. DOMAIN <<f, g>> = {1, 2} /\ <<f, g>>[1] = f /\ <<f, g>>[2] = g
      OBVIOUS
    <2> QED
      BY <2>1, <1>2 DEF Fields
  <1>6. f \in Fields(s) /\ \A h \in Fields(s) : h.init = "no"
    BY <1>3, <1>4, <1>5
  <1>7. keys["account"] = k
    OBVIOUS
  <1>8. changed["account"] = c /\ c \in Holdings
    <2>1. "account" \in DOMAIN Copies(s, keys)
      BY <1>3, <1>5 DEF Copies
    <2>2. c \in Holdings
      BY AccountsAssumption DEF Holdings
    <2> QED
      BY <2>1, <2>2
  <1> HIDE DEF changed, keys, c, s
  <1>9. TryAccounts(bank, s, keys).ok
    BY <1>1 DEF Runs
  <1>10. TryAccounts(bank, s, keys).bank = bank /\ Satisfied(bank, f, keys)
    BY <1>6, <1>9, TryPlain
  <1>11. bank[k].disc = Zero /\ bank[k].owner = Program /\ bank[k].lamports >= RENT
    <2>1. f.zero /\ keys[f.name] = k
      BY <1>3, <1>7
    <2>2. Zeroed(bank[k], f) /\ RentExempt(bank[k])
      BY <2>1, <1>10, Zenon DEF Satisfied
    <2>3. bank[k].disc = Zero /\ FromAccountInfo(bank[k], f, FALSE) /\ bank[k].lamports >= RENT
      BY <2>2 DEF Zeroed, RentExempt
    <2>4. FromAccountInfo(bank[k], f, FALSE) = (bank[k].owner = Program)
      BY DEF FromAccountInfo, TryFromUnchecked
    <2> QED
      BY <2>3, <2>4
  <1>12. IsMutable(f) /\ k \in Keys
    BY <1>3 DEF IsMutable, Keys
  <1>13. bank' = Write(bank, k, T, c) /\ closed' = closed /\ saved' = {Entry(k, c)}
    <2>1. /\ f.name = "account" /\ f.ty = Wrapper(T) /\ f.of = T /\ f.close = FALSE
          /\ g.ty = "Signer" /\ g.of = None /\ g.close = FALSE
      BY <1>3, <1>4
    <2>2. TryAccounts(bank, <<f, g>>, keys).bank = bank /\ Runs(<<f, g>>, keys, changed)
      BY <1>1, <1>2, <1>10
    <2>3. TryAccounts(bank, <<f, g>>, keys).bank \in Bank
      BY <2>2
    <2> QED
      BY <2>1, <2>2, <2>3, <1>7, <1>8, <1>12, AccountAndSigner
  <1> QED
    BY <1>1, <1>11, <1>13 DEF Runs

LEMMA UpdateEffect ==
  ASSUME bank \in Bank, NEW T \in Types, NEW k \in Data, NEW a \in Wallets, NEW c \in Holdings,
         Update(T, k, a, c)
  PROVE  \/ Fails
         \/ /\ Ran /\ closed' = closed /\ saved' = {Entry(k, c)}
            /\ a \in signers /\ bank[k].disc = T /\ bank[k].authority = a
            /\ bank' = Write(bank, k, T, c)
  <1> DEFINE s == Struct("update", T)
             keys == [account |-> k, authority |-> a]
             changed == [Copies(s, keys) EXCEPT !["account"] = c]
             f == [Field("account", Wrapper(T), T) EXCEPT !.mut = TRUE, !.has_one = TRUE]
             g == Field("authority", "Signer", None)
  <1> SUFFICES ASSUME ~Fails
               PROVE  /\ Ran /\ closed' = closed /\ saved' = {Entry(k, c)}
                      /\ a \in signers /\ bank[k].disc = T /\ bank[k].authority = a
                      /\ bank' = Write(bank, k, T, c)
    OBVIOUS
  <1>1. Runs(s, keys, changed)
    BY DEF Update, Instruction, Runs, Ran, Copies, Names
  <1>2. s = <<f, g>>
    BY DEF Struct
  <1>3. /\ f.name = "account" /\ f.ty = Wrapper(T) /\ f.of = T /\ f.init = "no"
        /\ f.zero = FALSE /\ f.mut = TRUE /\ f.has_one = TRUE /\ f.close = FALSE
    BY DEF Field
  <1>4. /\ g.name = "authority" /\ g.ty = "Signer" /\ g.of = None /\ g.init = "no"
        /\ g.zero = FALSE /\ g.mut = FALSE /\ g.has_one = FALSE /\ g.close = FALSE
    BY DEF Field
  <1> HIDE DEF f, g
  <1>5. Fields(s) = {f, g}
    <2>1. DOMAIN <<f, g>> = {1, 2} /\ <<f, g>>[1] = f /\ <<f, g>>[2] = g
      OBVIOUS
    <2> QED
      BY <2>1, <1>2 DEF Fields
  <1>6. f \in Fields(s) /\ g \in Fields(s) /\ \A h \in Fields(s) : h.init = "no"
    BY <1>3, <1>4, <1>5
  <1>7. keys["account"] = k /\ keys["authority"] = a
    OBVIOUS
  <1>8. changed["account"] = c
    <2>1. "account" \in DOMAIN Copies(s, keys)
      BY <1>3, <1>5 DEF Copies
    <2> QED
      BY <2>1
  <1> HIDE DEF changed, keys, s
  <1>9. TryAccounts(bank, s, keys).ok
    BY <1>1 DEF Runs
  <1>10. /\ TryAccounts(bank, s, keys).bank = bank /\ Satisfied(bank, f, keys)
         /\ Deserialises(bank, f, k) /\ Deserialises(bank, g, a)
    BY <1>3, <1>4, <1>6, <1>7, <1>9, TryPlain
  <1>11. a \in signers /\ bank[k].authority = a
    BY <1>3, <1>4, <1>7, <1>10 DEF Satisfied, HasOne, Deserialises, SignerTryFrom
  <1>12. bank[k].disc = T
    BY <1>3, <1>10 DEF Deserialises, Wrapper, AccountTryFrom, LoaderTryFrom, TryDeserialize
  <1>13. IsMutable(f) /\ k \in Keys
    BY <1>3 DEF IsMutable, Keys
  <1>14. bank' = Write(bank, k, T, c) /\ closed' = closed /\ saved' = {Entry(k, c)}
    <2>1. /\ f.name = "account" /\ f.ty = Wrapper(T) /\ f.of = T /\ f.close = FALSE
          /\ g.ty = "Signer" /\ g.of = None /\ g.close = FALSE
      BY <1>3, <1>4
    <2>2. TryAccounts(bank, <<f, g>>, keys).bank = bank /\ Runs(<<f, g>>, keys, changed)
      BY <1>1, <1>2, <1>10
    <2>3. TryAccounts(bank, <<f, g>>, keys).bank \in Bank
      BY <2>2
    <2> QED
      BY <2>1, <2>2, <2>3, <1>7, <1>8, <1>13, AccountAndSigner
  <1> QED
    BY <1>1, <1>11, <1>12, <1>14 DEF Runs

(* Behind Account nothing is done in place. *)
LEMMA AccountWritten ==
  ASSUME NEW b \in Bank, NEW f, NEW keys, NEW copies,
         f.ty = "Account", f.of = "User", f.close = FALSE, IsMutable(f),
         keys[f.name] \in Keys, copies[f.name] \in Holdings
  PROVE  /\ InPlaceStep(b, f, keys, copies) = b
         /\ ExitStep(b, f, keys, copies) = Write(b, keys[f.name], "User", copies[f.name])
  <1>1. InPlaceStep(b, f, keys, copies) = b
    BY DEF InPlaceStep
  <1>2. "User" \in Types /\ f.ty = Wrapper("User")
    BY DEF Types, Wrapper
  <1> QED
    BY <1>1, <1>2, WrittenBack

Other(k, c) == [field |-> "other", key |-> k, content |-> c]

LEMMA MoveEffect ==
  ASSUME bank \in Bank, NEW k \in Data, NEW o \in Data, NEW a \in Wallets, Move(k, o, a)
  PROVE  LET c == [authority |-> bank[k].authority, val |-> bank[k].val - 1]
             d == [authority |-> bank[o].authority, val |-> bank[o].val + 1]
         IN  \/ Fails
             \/ /\ Ran /\ closed' = closed /\ c \in Holdings /\ d \in Holdings
                /\ saved' = {Entry(k, c), Other(o, d)}
                /\ a \in signers /\ bank[k].authority = a
                /\ bank[k].disc = "User" /\ bank[o].disc = "User"
                /\ bank' = Write(Write(bank, k, "User", c), o, "User", d)
  <1> DEFINE s == Struct("move", "User")
             keys == [account |-> k, other |-> o, authority |-> a]
             copies == Copies(s, keys)
             c == [authority |-> bank[k].authority, val |-> bank[k].val - 1]
             d == [authority |-> bank[o].authority, val |-> bank[o].val + 1]
             changed == [copies EXCEPT !["account"].val = @ - 1, !["other"].val = @ + 1]
             f == [Field("account", Wrapper("User"), "User") EXCEPT !.mut = TRUE, !.has_one = TRUE]
             g == [Field("other", Wrapper("User"), "User") EXCEPT !.mut = TRUE]
             h == Field("authority", "Signer", None)
  <1> SUFFICES ASSUME ~Fails
               PROVE  /\ Ran /\ closed' = closed /\ c \in Holdings /\ d \in Holdings
                      /\ saved' = {Entry(k, c), Other(o, d)}
                      /\ a \in signers /\ bank[k].authority = a
                      /\ bank[k].disc = "User" /\ bank[o].disc = "User"
                      /\ bank' = Write(Write(bank, k, "User", c), o, "User", d)
    OBVIOUS
  <1>1. Runs(s, keys, changed) /\ copies["account"].val # 0 /\ copies["other"].val # MaxVal
    BY DEF Move, Instruction, Runs, Ran, Copies, Names
  <1>2. s = <<f, g, h>>
    BY DEF Struct
  <1>3. /\ f.name = "account" /\ f.ty = "Account" /\ f.of = "User" /\ f.init = "no"
        /\ f.zero = FALSE /\ f.mut = TRUE /\ f.has_one = TRUE /\ f.close = FALSE
    BY DEF Field, Wrapper
  <1>4. /\ g.name = "other" /\ g.ty = "Account" /\ g.of = "User" /\ g.init = "no"
        /\ g.zero = FALSE /\ g.mut = TRUE /\ g.has_one = FALSE /\ g.close = FALSE
    BY DEF Field, Wrapper
  <1>5. /\ h.name = "authority" /\ h.ty = "Signer" /\ h.of = None /\ h.init = "no"
        /\ h.zero = FALSE /\ h.mut = FALSE /\ h.has_one = FALSE /\ h.close = FALSE
    BY DEF Field
  <1> HIDE DEF f, g, h
  <1>6. Fields(s) = {f, g, h}
    <2>1. /\ DOMAIN <<f, g, h>> = {1, 2, 3}
          /\ <<f, g, h>>[1] = f /\ <<f, g, h>>[2] = g /\ <<f, g, h>>[3] = h
      OBVIOUS
    <2> QED
      BY <2>1, <1>2 DEF Fields
  <1>7. \A x \in Fields(s) : x.init = "no"
    BY <1>3, <1>4, <1>5, <1>6
  <1>8. keys["account"] = k /\ keys["other"] = o /\ keys["authority"] = a
    OBVIOUS
  <1>9. TryAccounts(bank, s, keys).ok
    BY <1>1 DEF Runs
  <1>10. /\ TryAccounts(bank, s, keys).bank = bank /\ Satisfied(bank, f, keys)
         /\ Deserialises(bank, f, k) /\ Deserialises(bank, g, o) /\ Deserialises(bank, h, a)
    <2> HIDE DEF keys, s
    <2> QED
      BY <1>3, <1>4, <1>5, <1>6, <1>7, <1>8, <1>9, TryPlain
  <1>11. /\ "account" \in DOMAIN copies /\ "other" \in DOMAIN copies
         /\ copies["account"] = Content(bank[k]) /\ copies["other"] = Content(bank[o])
    <2>1. {x.name : x \in Fields(s)} = {"account", "other", "authority"}
      BY <1>3, <1>4, <1>5, <1>6
    <2> QED
      BY <2>1, <1>8, <1>10 DEF Copies
  <1>12. k \in Keys /\ o \in Keys
    BY DEF Keys
  <1>13. bank[k].val \in 0..MaxVal /\ bank[o].val \in 0..MaxVal
    BY <1>12 DEF Bank, Account
  <1>14. bank[k].val # 0 /\ bank[o].val # MaxVal
    BY <1>1, <1>11 DEF Content
  <1>15. bank[k].val - 1 \in 0..MaxVal /\ bank[o].val + 1 \in 0..MaxVal
    BY <1>13, <1>14, AccountsAssumption
  <1>16. c \in Holdings /\ d \in Holdings
    BY <1>12, <1>15 DEF Holdings, Bank, Account
  <1>17. changed["account"] = c /\ changed["other"] = d
    BY <1>11 DEF Content
  <1> HIDE DEF changed, copies, keys, c, d, s
  <1>18. a \in signers /\ bank[k].authority = a
    BY <1>3, <1>5, <1>8, <1>10 DEF Satisfied, HasOne, Deserialises, SignerTryFrom
  <1>19. bank[k].disc = "User" /\ bank[o].disc = "User"
    BY <1>3, <1>4, <1>10 DEF Deserialises, AccountTryFrom, TryDeserialize
  <1>20. IsMutable(f) /\ IsMutable(g)
    BY <1>3, <1>4 DEF IsMutable
  <1>21. bank' = Exit(InPlace(bank, s, keys, changed), s, keys, changed)
    BY <1>1, <1>10 DEF Runs
  <1>22. /\ keys[f.name] = k /\ changed[f.name] = c
         /\ keys[g.name] = o /\ changed[g.name] = d
    BY <1>3, <1>4, <1>8, <1>17
  <1>23. \A b \in Bank : /\ InPlaceStep(b, f, keys, changed) = b
                         /\ ExitStep(b, f, keys, changed) = Write(b, k, "User", c)
    BY <1>3, <1>12, <1>16, <1>20, <1>22, AccountWritten
  <1>24. \A b \in Bank : /\ InPlaceStep(b, g, keys, changed) = b
                         /\ ExitStep(b, g, keys, changed) = Write(b, o, "User", d)
    BY <1>4, <1>12, <1>16, <1>20, <1>22, AccountWritten
  <1>25. \A b : InPlaceStep(b, h, keys, changed) = b /\ ExitStep(b, h, keys, changed) = b
    BY <1>5, LeftAlone
  <1>26. InPlace(bank, s, keys, changed) = bank
    BY <1>2, <1>23, <1>24, <1>25, InPlaceThree
  <1>27. Write(bank, k, "User", c) \in Bank
    BY <1>12, <1>16, WriteType DEF Types
  <1>28. bank' = Write(Write(bank, k, "User", c), o, "User", d)
    BY <1>2, <1>21, <1>23, <1>24, <1>25, <1>26, <1>27, ExitThree
  <1>29. closed' = closed
    <2>1. {x \in Fields(s) : x.close} = {}
      BY <1>3, <1>4, <1>5, <1>6
    <2>2. closed' = closed \cup {keys[x.name] : x \in {y \in Fields(s) : y.close}}
      BY <1>1 DEF Runs
    <2> QED
      BY <2>1, <2>2
  <1>30. saved' = {Entry(k, c), Other(o, d)}
    <2>1. {x \in Fields(s) : x.of \in Types /\ ~x.close} = {f, g}
      BY <1>3, <1>4, <1>5, <1>6 DEF Types, None
    <2>2. saved' = {[field |-> x.name, key |-> keys[x.name], content |-> changed[x.name]] :
                      x \in {y \in Fields(s) : y.of \in Types /\ ~y.close}}
      BY <1>1 DEF Runs
    <2> QED
      BY <2>1, <2>2, <1>3, <1>4, <1>22 DEF Entry, Other
  <1> QED
    BY <1>1, <1>16, <1>18, <1>19, <1>28, <1>29, <1>30 DEF Runs

LEMMA ShutEffect ==
  ASSUME bank \in Bank, NEW T \in Types, NEW k \in Data, NEW a \in Wallets, NEW r \in Keys,
         Shut(T, k, a, r)
  PROVE  \/ Fails
         \/ /\ Ran /\ closed' = closed \cup {k} /\ saved' = {}
            /\ a \in signers /\ bank[k].authority = a /\ bank[k].disc = T
            /\ r # k /\ bank[k].owner = Program /\ bank[r].owner = System
            /\ bank' = Close(bank, k, r)
  <1> DEFINE s == Struct("shut", T)
             keys == [account |-> k, authority |-> a, receiver |-> r]
             copies == Copies(s, keys)
             f == [Field("account", Wrapper(T), T) EXCEPT !.mut = TRUE, !.has_one = TRUE,
                                                          !.close = TRUE]
             g == Field("authority", "Signer", None)
             h == [Field("receiver", "SystemAccount", None) EXCEPT !.mut = TRUE]
  <1> SUFFICES ASSUME ~Fails
               PROVE  /\ Ran /\ closed' = closed \cup {k} /\ saved' = {}
                      /\ a \in signers /\ bank[k].authority = a /\ bank[k].disc = T
                      /\ r # k /\ bank[k].owner = Program /\ bank[r].owner = System
                      /\ bank' = Close(bank, k, r)
    OBVIOUS
  <1>1. Runs(s, keys, copies)
    BY DEF Shut, Instruction, Runs, Ran, Copies, Names, Keeps
  <1>2. s = <<f, g, h>>
    BY DEF Struct
  <1>3. /\ f.name = "account" /\ f.ty = Wrapper(T) /\ f.of = T /\ f.init = "no"
        /\ f.zero = FALSE /\ f.mut = TRUE /\ f.has_one = TRUE /\ f.close = TRUE
    BY DEF Field
  <1>4. /\ g.name = "authority" /\ g.ty = "Signer" /\ g.of = None /\ g.init = "no"
        /\ g.zero = FALSE /\ g.mut = FALSE /\ g.has_one = FALSE /\ g.close = FALSE
    BY DEF Field
  <1>5. /\ h.name = "receiver" /\ h.ty = "SystemAccount" /\ h.of = None /\ h.init = "no"
        /\ h.zero = FALSE /\ h.mut = TRUE /\ h.has_one = FALSE /\ h.close = FALSE
    BY DEF Field
  <1> HIDE DEF f, g, h
  <1>6. Fields(s) = {f, g, h}
    <2>1. /\ DOMAIN <<f, g, h>> = {1, 2, 3}
          /\ <<f, g, h>>[1] = f /\ <<f, g, h>>[2] = g /\ <<f, g, h>>[3] = h
      OBVIOUS
    <2> QED
      BY <2>1, <1>2 DEF Fields
  <1>7. \A x \in Fields(s) : x.init = "no"
    BY <1>3, <1>4, <1>5, <1>6
  <1>8. keys["account"] = k /\ keys["receiver"] = r /\ keys["authority"] = a
    OBVIOUS
  <1>9. TryAccounts(bank, s, keys).ok
    BY <1>1 DEF Runs
  <1>10. /\ TryAccounts(bank, s, keys).bank = bank /\ Satisfied(bank, f, keys)
         /\ Deserialises(bank, f, k) /\ Deserialises(bank, g, a) /\ Deserialises(bank, h, r)
    <2> HIDE DEF keys, s
    <2> QED
      BY <1>3, <1>4, <1>5, <1>6, <1>7, <1>8, <1>9, TryPlain
  <1>11. copies["account"] = Content(bank[k])
    <2>1. "account" \in {x.name : x \in Fields(s)}
      BY <1>3, <1>6
    <2> QED
      BY <2>1, <1>8, <1>10 DEF Copies
  <1> HIDE DEF copies, keys, s
  <1>12. k \in Keys
    BY DEF Keys
  <1>13. a \in signers /\ bank[k].authority = a
    BY <1>3, <1>4, <1>8, <1>10 DEF Satisfied, HasOne, Deserialises, SignerTryFrom
  <1>14. bank[k].disc = T /\ bank[k].owner = Program
    BY <1>3, <1>10 DEF Deserialises, Wrapper, AccountTryFrom, LoaderTryFrom, TryDeserialize
  <1>15. bank[r].owner = System
    BY <1>5, <1>10 DEF Deserialises, SystemAccountTryFrom
  <1>16. r # k
    BY <1>14, <1>15 DEF System, Program
  <1>17. bank' = Exit(InPlace(bank, s, keys, copies), s, keys, copies)
    BY <1>1, <1>10 DEF Runs
  <1>18. InPlaceStep(bank, f, keys, copies) = bank
    <2>1. keys[f.name] = k /\ copies[f.name].authority = bank[k].authority
          /\ copies[f.name].val = bank[k].val
      BY <1>3, <1>8, <1>11 DEF Content
    <2>2. [bank EXCEPT ![k].authority = bank[k].authority, ![k].val = bank[k].val] = bank
      BY <1>12 DEF Bank, Account
    <2> QED
      BY <2>1, <2>2 DEF InPlaceStep
  <1>19. \A b : /\ InPlaceStep(b, g, keys, copies) = b /\ ExitStep(b, g, keys, copies) = b
               /\ InPlaceStep(b, h, keys, copies) = b /\ ExitStep(b, h, keys, copies) = b
    BY <1>4, <1>5, LeftAlone
  <1>20. InPlace(bank, s, keys, copies) = bank
    BY <1>2, <1>18, <1>19, InPlaceThree
  <1>21. ExitStep(bank, f, keys, copies) = Close(bank, k, r)
    BY <1>3, <1>8 DEF ExitStep
  <1>22. bank' = Close(bank, k, r)
    BY <1>2, <1>17, <1>19, <1>20, <1>21, ExitThree
  <1>23. closed' = closed \cup {k}
    <2>1. {x \in Fields(s) : x.close} = {f}
      BY <1>3, <1>4, <1>5, <1>6
    <2>2. closed' = closed \cup {keys[x.name] : x \in {y \in Fields(s) : y.close}}
      BY <1>1 DEF Runs
    <2> QED
      BY <2>1, <2>2, <1>3, <1>8
  <1>24. saved' = {}
    <2>1. {x \in Fields(s) : x.of \in Types /\ ~x.close} = {}
      BY <1>3, <1>4, <1>5, <1>6 DEF Types, None
    <2>2. saved' = {[field |-> x.name, key |-> keys[x.name], content |-> copies[x.name]] :
                      x \in {y \in Fields(s) : y.of \in Types /\ ~y.close}}
      BY <1>1 DEF Runs
    <2> QED
      BY <2>1, <2>2
  <1> QED
    BY <1>1, <1>13, <1>14, <1>15, <1>16, <1>22, <1>23, <1>24 DEF Runs

-----------------------------------------------------------------------------
(* The invariant. *)

LEMMA Discriminators ==
  /\ Zero \notin Types /\ Closed \notin Types /\ Zero # Closed /\ System # Program
  BY DEF Zero, Closed, Types, System, Program

LEMMA InitIInv == Init => IInv
  <1> SUFFICES ASSUME Init PROVE IInv
    OBVIOUS
  <1>1. 0 \in 0..MaxVal /\ Purse \in Nat
    BY AccountsAssumption
  <1>2. Empty \in Account /\ [Empty EXCEPT !.lamports = Purse] \in Account
    BY <1>1 DEF Empty, Account
  <1>3. ledger \in Bank
    BY <1>2 DEF Init, Bank
  <1>4. \A k \in Keys : ledger[k].owner = System /\ ledger[k].disc = Zero
    BY DEF Init, Empty
  <1>5. Sound(ledger)
    BY <1>4, Discriminators DEF Sound, Initialised, Keys
  <1>6. Untouched
    BY <1>4, Discriminators DEF Untouched, Initialised, Keys
  <1> QED
    BY <1>3, <1>5, <1>6 DEF Init, IInv, TypeOK, ClosedStay, Idle

(* What fails leaves the ledger. *)
LEMMA FailsIInv ==
  ASSUME IInv, Fails PROVE IInv'
  <1>1. \A k \in Data : ledger[k].val \in Nat /\ ledger[k].lamports \in Nat
    BY AccountsAssumption DEF IInv, TypeOK, Bank, Account, Keys
  <1>2. Untouched'
    BY <1>1 DEF Fails, Untouched, Later
  <1> QED
    BY <1>2 DEF Fails, IInv, TypeOK, Sound, ClosedStay, Idle

(* An instruction that runs: what it has to respect. *)
LEMMA RanIInv ==
  ASSUME IInv, Ran, bank' \in Bank, Sound(bank'), closed' \subseteq Data, ClosedStay',
         \A k \in Data : Initialised(bank[k]) /\ bank[k].authority \notin signers
                           => Later(bank[k], bank'[k])
  PROVE  IInv'
  <1>1. Untouched'
    <2> SUFFICES ASSUME NEW k \in Data, Initialised(ledger[k]), ledger[k].authority \notin signers
                 PROVE  Later(ledger[k], bank'[k])
      BY DEF Ran, Untouched
    <2>1. Later(ledger[k], bank[k])
      BY DEF IInv, Untouched
    <2>2. Later(bank[k], bank'[k])
      BY <2>1 DEF Later
    <2>3. /\ ledger[k].val \in Nat /\ bank[k].val \in Nat /\ bank'[k].val \in Nat
          /\ ledger[k].lamports \in Nat /\ bank[k].lamports \in Nat /\ bank'[k].lamports \in Nat
      BY AccountsAssumption DEF IInv, TypeOK, Bank, Account, Keys
    <2> QED
      BY <2>1, <2>2, <2>3 DEF Later
  <1>2. (TypeOK /\ Sound(ledger) /\ Idle)'
    BY DEF Ran, IInv, TypeOK, Sound, Idle
  <1>3. Sound(bank)'
    BY DEF Sound
  <1> QED
    BY <1>1, <1>2, <1>3 DEF IInv

(* Writing an account that was initialised by its authority, or was not. *)
LEMMA WriteIInv ==
  ASSUME IInv, Ran, closed' = closed,
         NEW b \in Bank, NEW k \in Data, NEW T \in Types, NEW c \in Holdings,
         bank' = Write(b, k, T, c), c.authority \in Wallets,
         b[k].owner = Program, b[k].lamports >= RENT, bank[k].disc # Closed,
         \A j \in Keys : b[j].disc = bank[j].disc,
         \A j \in Keys \ {k} : b[j].owner = bank[j].owner,
         \A j \in Data \ {k} : b[j] = bank[j],
         Initialised(bank[k]) /\ bank[k].authority \notin signers =>
           /\ c.authority = bank[k].authority /\ c.val >= bank[k].val
           /\ b[k].lamports >= bank[k].lamports
  PROVE  IInv'
  <1>1. k \in Keys
    BY DEF Keys
  <1>2. /\ bank' \in Bank
        /\ \A j \in Keys : j # k => bank'[j] = b[j]
        /\ bank'[k].owner = b[k].owner /\ bank'[k].lamports = b[k].lamports
        /\ bank'[k].disc = T /\ bank'[k].authority = c.authority /\ bank'[k].val = c.val
    BY <1>1, WriteType
  <1>3. Sound(bank')
    BY <1>1, <1>2, Discriminators DEF IInv, Sound, Initialised, Keys
  <1>4. ClosedStay'
    BY <1>1, <1>2 DEF IInv, TypeOK, ClosedStay, Keys
  <1>5. ASSUME NEW j \in Data, Initialised(bank[j]), bank[j].authority \notin signers
        PROVE  Later(bank[j], bank'[j])
    <2>1. CASE j = k
      BY <2>1, <1>2, <1>5 DEF Later, Initialised
    <2>2. CASE j # k
      <3>1. bank'[j] = bank[j]
        BY <2>2, <1>2 DEF Keys
      <3>2. bank[j].val \in Nat /\ bank[j].lamports \in Nat
        BY AccountsAssumption DEF IInv, TypeOK, Bank, Account, Keys
      <3> QED
        BY <3>1, <3>2, <1>5 DEF Later
    <2> QED
      BY <2>1, <2>2
  <1> QED
    BY <1>2, <1>3, <1>4, <1>5, RanIInv DEF IInv, TypeOK

LEMMA WritePersisted ==
  ASSUME NEW b \in Bank, NEW k \in Data, NEW T \in Types, NEW c \in Holdings,
         bank' = Write(b, k, T, c), saved' = {Entry(k, c)}
  PROVE  Persisted'
  <1>1. k \in Keys
    BY DEF Keys
  <1>2. bank'[k].disc = T /\ bank'[k].authority = c.authority /\ bank'[k].val = c.val
    BY <1>1, WriteType
  <1>3. Content(bank'[k]) = c
    BY <1>2 DEF Content, Holdings
  <1>4. \A e \in saved' : e.key = k /\ e.content = c
    BY DEF Entry
  <1> QED
    BY <1>2, <1>3, <1>4 DEF Persisted, HoldsWhat, Initialised

LEMMA CreateStep ==
  ASSUME IInv, NEW T \in Types, NEW k \in Data, NEW p \in Wallets, NEW a \in Wallets,
         Create(T, k, p, a)
  PROVE  IInv' /\ Persisted' /\ ledger' = ledger
  <1> DEFINE c == [authority |-> a, val |-> 0]
             b == CreateAccount(bank, k, p).bank
  <1>1. bank \in Bank /\ k \in Keys /\ p \in Keys /\ p \notin Data
    BY AccountsAssumption DEF IInv, TypeOK, Keys
  <1>2. CASE Fails
    BY <1>2, FailsIInv DEF Fails, Persisted
  <1>3. CASE /\ Ran /\ closed' = closed /\ saved' = {Entry(k, c)}
             /\ CreateAccount(bank, k, p).ok
             /\ bank' = Write(b, k, T, c)
    <2>1. /\ b \in Bank
          /\ \A j \in Keys : b[j].disc = bank[j].disc
          /\ \A j \in Keys \ {k, p} : b[j] = bank[j]
          /\ b[p].owner = bank[p].owner
          /\ b[k].owner = Program /\ b[k].lamports >= RENT
          /\ bank[k].owner = System
      BY <1>1, <1>3, CreateAccountType
    <2> HIDE DEF b
    <2>2. bank[k].disc = Zero /\ ~Initialised(bank[k]) /\ bank[k].disc # Closed
      BY <1>1, <2>1, Discriminators DEF IInv, Sound, Initialised
    <2>3. c \in Holdings /\ c.authority \in Wallets
      BY AccountsAssumption DEF Holdings
    <2> HIDE DEF c
    <2>4. /\ \A j \in Keys \ {k} : b[j].owner = bank[j].owner
          /\ \A j \in Data \ {k} : b[j] = bank[j]
      BY <1>1, <2>1 DEF Keys
    <2>5. IInv'
      BY <1>3, <2>1, <2>2, <2>3, <2>4, WriteIInv
    <2>6. Persisted'
      BY <1>3, <2>1, <2>3, WritePersisted
    <2> QED
      BY <1>3, <2>5, <2>6 DEF Ran
  <1> QED
    BY <1>1, <1>2, <1>3, CreateEffect

LEMMA EnsureStep ==
  ASSUME IInv, NEW k \in Data, NEW p \in Wallets, NEW a \in Wallets, Ensure(k, p, a)
  PROVE  IInv' /\ Persisted' /\ ledger' = ledger
  <1> DEFINE c == Claimed(bank[k], a)
             b == CreateAccount(bank, k, p).bank
  <1>1. bank \in Bank /\ k \in Keys /\ p \in Keys /\ p \notin Data /\ "User" \in Types
    BY AccountsAssumption DEF IInv, TypeOK, Keys, Types
  <1>2. CASE Fails
    BY <1>2, FailsIInv DEF Fails, Persisted
  <1>3. c.authority = (IF bank[k].authority = None THEN a ELSE bank[k].authority)
        /\ c.val = bank[k].val
    BY DEF Claimed
  <1>4. /\ bank[k].authority \in Wallets \cup {None} /\ bank[k].val \in Nat
        /\ bank[k].lamports \in Nat
    BY <1>1, AccountsAssumption DEF Bank, Account
  <1>5. c.authority \in Wallets
    BY <1>3, <1>4
  <1> HIDE DEF c
  <1>6. CASE /\ Ran /\ closed' = closed /\ c \in Holdings /\ saved' = {Entry(k, c)}
             /\ CreateAccount(bank, k, p).ok
             /\ bank' = Write(b, k, "User", c)
    <2>1. /\ b \in Bank
          /\ \A j \in Keys : b[j].disc = bank[j].disc
          /\ \A j \in Keys \ {k, p} : b[j] = bank[j]
          /\ b[p].owner = bank[p].owner
          /\ b[k].owner = Program /\ b[k].lamports >= RENT
          /\ bank[k].owner = System
      BY <1>1, <1>6, CreateAccountType
    <2> HIDE DEF b
    <2>2. bank[k].disc = Zero /\ ~Initialised(bank[k]) /\ bank[k].disc # Closed
      BY <1>1, <2>1, Discriminators DEF IInv, Sound, Initialised
    <2>4. /\ \A j \in Keys \ {k} : b[j].owner = bank[j].owner
          /\ \A j \in Data \ {k} : b[j] = bank[j]
      BY <1>1, <2>1 DEF Keys
    <2>5. IInv'
      BY <1>1, <1>5, <1>6, <2>1, <2>2, <2>4, WriteIInv
    <2>6. Persisted'
      BY <1>1, <1>6, <2>1, WritePersisted
    <2> QED
      BY <1>6, <2>5, <2>6 DEF Ran
  <1>7. CASE /\ Ran /\ closed' = closed /\ c \in Holdings /\ saved' = {Entry(k, c)}
             /\ bank[k].disc = "User" /\ bank' = Write(bank, k, "User", c)
    <2>1. Initialised(bank[k]) /\ bank[k].disc # Closed
      BY <1>1, <1>7, Discriminators DEF Initialised
    <2>2. bank[k].owner = Program /\ bank[k].lamports >= RENT /\ bank[k].authority \in Wallets
      BY <2>1 DEF IInv, Sound
    <2>3. c.authority = bank[k].authority
      BY <1>3, <2>2, AccountsAssumption
    <2>4. IInv'
      BY <1>1, <1>3, <1>4, <1>5, <1>7, <2>1, <2>2, <2>3, WriteIInv
    <2>5. Persisted'
      BY <1>1, <1>7, WritePersisted
    <2> QED
      BY <1>7, <2>4, <2>5 DEF Ran
  <1> QED
    BY <1>1, <1>2, <1>6, <1>7, EnsureEffect DEF c

LEMMA AdoptStep ==
  ASSUME IInv, NEW T \in Types, NEW k \in Data, NEW a \in Wallets, Adopt(T, k, a)
  PROVE  IInv' /\ Persisted' /\ ledger' = ledger
  <1> DEFINE c == [authority |-> a, val |-> 0]
  <1>1. bank \in Bank
    BY DEF IInv, TypeOK
  <1>2. CASE Fails
    BY <1>2, FailsIInv DEF Fails, Persisted
  <1>3. CASE /\ Ran /\ closed' = closed /\ saved' = {Entry(k, c)}
             /\ bank[k].disc = Zero /\ bank[k].owner = Program /\ bank[k].lamports >= RENT
             /\ bank' = Write(bank, k, T, c)
    <2>1. ~Initialised(bank[k]) /\ bank[k].disc # Closed
      BY <1>3, Discriminators DEF Initialised
    <2>2. c \in Holdings /\ c.authority \in Wallets
      BY AccountsAssumption DEF Holdings
    <2> HIDE DEF c
    <2>3. IInv'
      BY <1>1, <1>3, <2>1, <2>2, WriteIInv
    <2>4. Persisted'
      BY <1>1, <1>3, <2>2, WritePersisted
    <2> QED
      BY <1>3, <2>3, <2>4 DEF Ran
  <1> QED
    BY <1>1, <1>2, <1>3, AdoptEffect

LEMMA UpdateStep ==
  ASSUME IInv, NEW T \in Types, NEW k \in Data, NEW a \in Wallets, NEW c \in Holdings,
         c.authority \in Wallets, Update(T, k, a, c)
  PROVE  IInv' /\ Persisted' /\ ledger' = ledger
  <1>1. bank \in Bank
    BY DEF IInv, TypeOK
  <1>2. CASE Fails
    BY <1>2, FailsIInv DEF Fails, Persisted
  <1>3. CASE /\ Ran /\ closed' = closed /\ saved' = {Entry(k, c)}
             /\ a \in signers /\ bank[k].disc = T /\ bank[k].authority = a
             /\ bank' = Write(bank, k, T, c)
    <2>1. Initialised(bank[k]) /\ bank[k].disc # Closed
      BY <1>3, Discriminators DEF Initialised
    <2>2. bank[k].owner = Program /\ bank[k].lamports >= RENT
      BY <2>1 DEF IInv, Sound
    <2>3. IInv'
      BY <1>1, <1>3, <2>1, <2>2, WriteIInv
    <2>4. Persisted'
      BY <1>1, <1>3, WritePersisted
    <2> QED
      BY <1>3, <2>3, <2>4 DEF Ran
  <1> QED
    BY <1>1, <1>2, <1>3, UpdateEffect

LEMMA MoveStep ==
  ASSUME IInv, NEW k \in Data, NEW o \in Data, NEW a \in Wallets, Move(k, o, a)
  PROVE  IInv' /\ Persisted' /\ ledger' = ledger
  <1> DEFINE c == [authority |-> bank[k].authority, val |-> bank[k].val - 1]
             d == [authority |-> bank[o].authority, val |-> bank[o].val + 1]
             b == Write(bank, k, "User", c)
  <1>1. bank \in Bank /\ k \in Keys /\ o \in Keys /\ "User" \in Types
    BY DEF IInv, TypeOK, Keys, Types
  <1>2. CASE Fails
    BY <1>2, FailsIInv DEF Fails, Persisted
  <1>3. CASE /\ Ran /\ closed' = closed /\ c \in Holdings /\ d \in Holdings
             /\ saved' = {Entry(k, c), Other(o, d)}
             /\ a \in signers /\ bank[k].authority = a
             /\ bank[k].disc = "User" /\ bank[o].disc = "User"
             /\ bank' = Write(b, o, "User", d)
    <2>1. c.authority = bank[k].authority /\ d.authority = bank[o].authority
          /\ d.val = bank[o].val + 1
      OBVIOUS
    <2> HIDE DEF c, d
    <2>2. /\ b \in Bank /\ \A j \in Keys : j # k => b[j] = bank[j]
          /\ b[k].owner = bank[k].owner /\ b[k].lamports = bank[k].lamports
          /\ b[k].disc = "User" /\ b[k].authority = c.authority /\ b[k].val = c.val
      BY <1>1, <1>3, WriteType
    <2> HIDE DEF b
    <2>3. /\ bank' \in Bank /\ \A j \in Keys : j # o => bank'[j] = b[j]
          /\ bank'[o].owner = b[o].owner /\ bank'[o].lamports = b[o].lamports
          /\ bank'[o].disc = "User" /\ bank'[o].authority = d.authority /\ bank'[o].val = d.val
      BY <1>1, <1>3, <2>2, WriteType
    <2>4. \A j \in Keys : /\ bank'[j].owner = bank[j].owner /\ bank'[j].disc = bank[j].disc
                          /\ bank'[j].lamports = bank[j].lamports
                          /\ bank'[j].authority = bank[j].authority
      BY <1>1, <1>3, <2>1, <2>2, <2>3
    <2>5. \A j \in Keys : bank[j].val \in Nat /\ bank[j].lamports \in Nat
      BY <1>1, AccountsAssumption DEF Bank, Account
    <2>6. \A j \in Keys : j # k => bank'[j].val >= bank[j].val
      BY <1>1, <2>1, <2>2, <2>3, <2>5
    <2>7. Sound(bank')
      BY <2>4 DEF IInv, Sound, Initialised, Keys
    <2>8. ClosedStay'
      BY <1>3, <2>4 DEF IInv, TypeOK, ClosedStay, Keys
    <2>9. \A j \in Data : Initialised(bank[j]) /\ bank[j].authority \notin signers
                           => Later(bank[j], bank'[j])
      BY <1>3, <2>4, <2>5, <2>6 DEF Later, Initialised, Keys
    <2>10. closed' \subseteq Data
      BY <1>3 DEF IInv, TypeOK
    <2>11. IInv'
      BY <1>3, <2>3, <2>7, <2>8, <2>9, <2>10, RanIInv
    <2>12. Persisted'
      <3>1. /\ Entry(k, c).key = k /\ Entry(k, c).content = c /\ Entry(k, c).field = "account"
            /\ Other(o, d).key = o /\ Other(o, d).content = d /\ Other(o, d).field = "other"
        BY DEF Entry, Other
      <3>2. CASE k = o
        <4>1. Entry(k, c) # Other(o, d)
          BY <3>1
        <4> QED
          BY <1>3, <3>1, <3>2, <4>1 DEF Persisted
      <3>3. CASE k # o
        <4>1. Content(bank'[k]) = c /\ Content(bank'[o]) = d
          BY <1>1, <1>3, <2>2, <2>3, <3>3 DEF Content, Holdings
        <4>2. Initialised(bank'[k]) /\ Initialised(bank'[o])
          BY <1>1, <1>3, <2>4 DEF Initialised
        <4> QED
          BY <1>3, <3>1, <4>1, <4>2 DEF Persisted, HoldsWhat
      <3> QED
        BY <3>2, <3>3
    <2> QED
      BY <1>3, <2>11, <2>12 DEF Ran
  <1> QED
    BY <1>1, <1>2, <1>3, MoveEffect

LEMMA ShutStep ==
  ASSUME IInv, NEW T \in Types, NEW k \in Data, NEW a \in Wallets, NEW r \in Keys,
         Shut(T, k, a, r)
  PROVE  IInv' /\ Persisted' /\ ledger' = ledger
  <1>1. bank \in Bank /\ k \in Keys
    BY DEF IInv, TypeOK, Keys
  <1>2. CASE Fails
    BY <1>2, FailsIInv DEF Fails, Persisted
  <1>3. CASE /\ Ran /\ closed' = closed \cup {k} /\ saved' = {}
             /\ a \in signers /\ bank[k].authority = a /\ bank[k].disc = T
             /\ r # k /\ bank[k].owner = Program /\ bank[r].owner = System
             /\ bank' = Close(bank, k, r)
    <2>1. /\ bank' \in Bank
          /\ \A j \in Keys : /\ bank'[j].owner = bank[j].owner
                             /\ bank'[j].authority = bank[j].authority /\ bank'[j].val = bank[j].val
          /\ \A j \in Keys \ {k} : /\ bank'[j].disc = bank[j].disc
                                   /\ bank'[j].lamports >= bank[j].lamports
          /\ bank'[k].disc = Closed
      BY <1>1, <1>3, CloseType
    <2>2. \A j \in Keys : /\ bank[j].val \in Nat /\ bank[j].lamports \in Nat
                          /\ bank'[j].lamports \in Nat
      BY <1>1, <2>1, AccountsAssumption DEF Bank, Account
    <2>3. Sound(bank')
      <3>1. ASSUME NEW j \in Keys, bank'[j].owner = System PROVE bank'[j].disc = Zero
        <4>1. j # k
          BY <1>3, <2>1, <3>1, Discriminators
        <4> QED
          BY <2>1, <3>1, <4>1 DEF IInv, Sound
      <3>2. ASSUME NEW j \in Data, Initialised(bank'[j])
            PROVE  /\ bank'[j].owner = Program /\ bank'[j].lamports >= RENT
                   /\ bank'[j].authority \in Wallets
        <4>1. j \in Keys /\ j # k
          BY <2>1, <3>2, Discriminators DEF Initialised, Keys
        <4>2. Initialised(bank[j])
          BY <2>1, <3>2, <4>1 DEF Initialised
        <4> QED
          BY <2>1, <2>2, <4>1, <4>2, AccountsAssumption DEF IInv, Sound
      <3> QED
        BY <3>1, <3>2 DEF Sound
    <2>4. ClosedStay'
      <3> SUFFICES ASSUME NEW j \in closed' PROVE bank'[j].disc = Closed
        BY DEF ClosedStay
      <3>1. CASE j = k
        BY <3>1, <2>1
      <3>2. CASE j # k
        BY <3>2, <1>3, <2>1 DEF IInv, TypeOK, ClosedStay, Keys
      <3> QED
        BY <3>1, <3>2
    <2>5. \A j \in Data : Initialised(bank[j]) /\ bank[j].authority \notin signers
                           => Later(bank[j], bank'[j])
      BY <1>3, <2>1, <2>2 DEF Later, Initialised, Keys
    <2>6. closed' \subseteq Data
      BY <1>3 DEF IInv, TypeOK
    <2>7. IInv'
      BY <1>3, <2>1, <2>3, <2>4, <2>5, <2>6, RanIInv
    <2> QED
      BY <1>3, <2>7 DEF Ran, Persisted
  <1> QED
    BY <1>1, <1>2, <1>3, ShutEffect

LEMMA TransferStep ==
  ASSUME IInv, NEW from \in Wallets, NEW to \in Data, NEW n \in Nat, SystemTransfer(from, to, n)
  PROVE  IInv' /\ Persisted' /\ ledger' = ledger
  <1>1. bank \in Bank /\ from \in Keys /\ to \in Keys /\ from # to /\ from \notin Data
    BY AccountsAssumption DEF IInv, TypeOK, Keys
  <1>2. CASE Fails
    BY <1>2, FailsIInv DEF Fails, Persisted
  <1>3. CASE /\ Ran /\ CanPay(bank, from, n) /\ closed' = closed /\ saved' = {}
             /\ bank' = Paid(bank, from, to, n)
    <2>1. \A j \in Keys : bank[j].val \in Nat /\ bank[j].lamports \in Nat
      BY <1>1, AccountsAssumption DEF Bank, Account
    <2>2. /\ bank' \in Bank
          /\ \A j \in Keys : /\ bank'[j].owner = bank[j].owner /\ bank'[j].disc = bank[j].disc
                             /\ bank'[j].authority = bank[j].authority /\ bank'[j].val = bank[j].val
          /\ \A j \in Keys \ {from, to} : bank'[j] = bank[j]
          /\ bank'[to].lamports = bank[to].lamports + n
      BY <1>1, <1>3, <2>1, PaidType DEF CanPay
    <2>3. \A j \in Data : bank'[j].lamports >= bank[j].lamports /\ bank'[j].lamports \in Nat
      BY <1>1, <2>1, <2>2 DEF Keys
    <2>4. Sound(bank')
      BY <2>1, <2>2, <2>3, AccountsAssumption DEF IInv, Sound, Initialised, Keys
    <2>5. ClosedStay'
      BY <1>3, <2>2 DEF IInv, TypeOK, ClosedStay, Keys
    <2>6. \A j \in Data : Initialised(bank[j]) /\ bank[j].authority \notin signers
                           => Later(bank[j], bank'[j])
      BY <2>1, <2>2, <2>3 DEF Later, Initialised, Keys
    <2>7. IInv'
      BY <1>3, <2>2, <2>4, <2>5, <2>6, RanIInv DEF IInv, TypeOK
    <2> QED
      BY <1>3, <2>7 DEF Ran, Persisted
  <1> QED
    BY <1>2, <1>3 DEF SystemTransfer, SystemInstruction, Ran

LEMMA SystemCreateStep ==
  ASSUME IInv, NEW from \in Wallets, NEW k \in Data, NEW n \in Nat, SystemCreate(from, k, n)
  PROVE  IInv' /\ Persisted' /\ ledger' = ledger
  <1> DEFINE paid == Paid(bank, from, k, n)
  <1>1. bank \in Bank /\ from \in Keys /\ k \in Keys /\ from # k /\ from \notin Data
    BY AccountsAssumption DEF IInv, TypeOK, Keys
  <1>2. CASE Fails
    BY <1>2, FailsIInv DEF Fails, Persisted
  <1>3. CASE /\ Ran /\ CanPay(bank, from, n) /\ CanAllocate(bank, k)
             /\ closed' = closed /\ saved' = {}
             /\ bank' = Owned(paid, k)
    <2>1. \A j \in Keys : bank[j].val \in Nat /\ bank[j].lamports \in Nat
      BY <1>1, AccountsAssumption DEF Bank, Account
    <2>2. /\ paid \in Bank
          /\ \A j \in Keys : /\ paid[j].owner = bank[j].owner /\ paid[j].disc = bank[j].disc
                             /\ paid[j].authority = bank[j].authority /\ paid[j].val = bank[j].val
          /\ \A j \in Keys \ {from, k} : paid[j] = bank[j]
          /\ paid[k].lamports = bank[k].lamports + n
      BY <1>1, <1>3, <2>1, PaidType DEF CanPay
    <2> HIDE DEF paid
    <2>3. /\ bank' \in Bank
          /\ \A j \in Keys : /\ bank'[j].disc = paid[j].disc /\ bank'[j].lamports = paid[j].lamports
                             /\ bank'[j].authority = paid[j].authority /\ bank'[j].val = paid[j].val
          /\ \A j \in Keys \ {k} : bank'[j] = paid[j]
          /\ bank'[k].owner = Program
      <3> DEFINE c == Owned(paid, k)
      <3>1. /\ c \in Bank
            /\ \A j \in Keys : /\ c[j].disc = paid[j].disc /\ c[j].lamports = paid[j].lamports
                               /\ c[j].authority = paid[j].authority /\ c[j].val = paid[j].val
            /\ \A j \in Keys \ {k} : c[j] = paid[j]
            /\ c[k].owner = Program
        BY <1>1, <2>2, OwnedType
      <3>2. bank' = c
        BY <1>3
      <3> HIDE DEF c
      <3> QED
        BY <3>1, <3>2
    <2>4. bank[k].disc = Zero /\ ~Initialised(bank[k])
      BY <1>1, <1>3, Discriminators DEF CanAllocate, IInv, Sound, Initialised
    <2>5. \A j \in Data \ {k} : bank'[j] = bank[j]
      BY <1>1, <2>2, <2>3 DEF Keys
    <2>6. \A j \in Keys : /\ bank'[j].disc = bank[j].disc
                          /\ j # k => bank'[j].owner = bank[j].owner
      BY <1>1, <2>2, <2>3
    <2>7. Sound(bank')
      <3>1. \A j \in Keys : bank'[j].owner = System => bank'[j].disc = Zero
        BY <1>1, <2>3, <2>6, Discriminators DEF IInv, Sound
      <3>2. ASSUME NEW j \in Data, Initialised(bank'[j])
            PROVE  /\ bank'[j].owner = Program /\ bank'[j].lamports >= RENT
                   /\ bank'[j].authority \in Wallets
        <4>1. Initialised(bank[j]) /\ j # k
          BY <2>4, <2>6, <3>2 DEF Initialised, Keys
        <4>2. bank'[j] = bank[j]
          BY <2>5, <4>1
        <4> QED
          BY <4>1, <4>2 DEF IInv, Sound
      <3> QED
        BY <3>1, <3>2 DEF Sound
    <2>8. ClosedStay'
      BY <1>3, <2>6 DEF IInv, TypeOK, ClosedStay, Keys
    <2>9. \A j \in Data : Initialised(bank[j]) /\ bank[j].authority \notin signers
                           => Later(bank[j], bank'[j])
      BY <2>1, <2>4, <2>5 DEF Later, Initialised, Keys
    <2>10. IInv'
      BY <1>3, <2>3, <2>7, <2>8, <2>9, RanIInv DEF IInv, TypeOK
    <2> QED
      BY <1>3, <2>10 DEF Ran, Persisted
  <1> QED
    BY <1>2, <1>3 DEF SystemCreate, SystemInstruction, Ran, Owned

LEMMA BeginTxStep ==
  ASSUME IInv, Persisted, NEW signing \in SUBSET Keys,
         NEW reading \in {{}} \cup {{k} : k \in Data}, BeginTx(signing, reading)
  PROVE  IInv' /\ Persisted' /\ ledger' = ledger
  <1>1. reading \subseteq Data
    OBVIOUS
  <1>2. Untouched'
    <2>1. bank = ledger /\ bank' = bank /\ ledger' = ledger
      BY DEF BeginTx, IInv, Idle
    <2>2. \A k \in Data : ledger[k].val \in Nat /\ ledger[k].lamports \in Nat
      BY AccountsAssumption DEF IInv, TypeOK, Bank, Account, Keys
    <2> QED
      BY <2>1, <2>2 DEF Untouched, Later
  <1>3. (TypeOK /\ Sound(ledger) /\ Sound(bank) /\ ClosedStay /\ Idle)'
    BY <1>1 DEF BeginTx, IInv, TypeOK, Sound, ClosedStay, Idle
  <1>4. Persisted'
    BY DEF BeginTx, Persisted, HoldsWhat
  <1> QED
    BY <1>2, <1>3, <1>4 DEF IInv, BeginTx

(* The end of a transaction. *)
LEMMA EndTxStep ==
  ASSUME IInv, EndTx
  PROVE  /\ IInv' /\ Persisted'
         /\ \A k \in Data : Initialised(ledger[k]) /\ ledger[k].authority \notin signers
                             => Later(ledger[k], ledger'[k])
  <1>1. ledger' = Settled(bank) /\ bank' = ledger' /\ closed' = {} /\ saved' = {}
    BY DEF EndTx
  <1>2. Empty \in Account
    BY AccountsAssumption DEF Empty, Account
  <1>3. ledger' \in Bank
    BY <1>1, <1>2 DEF IInv, TypeOK, Settled, Bank
  <1>4. \A k \in Keys : ledger'[k] = bank[k] \/ (ledger'[k] = Empty /\ bank[k].lamports = 0)
    BY <1>1 DEF Settled
  <1>5. Empty.owner = System /\ Empty.disc = Zero
    BY DEF Empty
  <1>6. Sound(ledger')
    BY <1>4, <1>5, Discriminators DEF IInv, Sound, Initialised, Keys
  <1>7. ASSUME NEW k \in Data, Initialised(ledger[k]), ledger[k].authority \notin signers
        PROVE  Later(ledger[k], ledger'[k])
    <2>1. Later(ledger[k], bank[k])
      BY <1>7 DEF IInv, Untouched
    <2>2. bank[k].lamports >= RENT
      BY <2>1 DEF IInv, Sound, Later
    <2>3. bank[k].lamports # 0
      BY <2>2, AccountsAssumption
    <2> QED
      BY <1>4, <2>1, <2>3 DEF Keys
  <1>8. Untouched'
    <2>1. \A k \in Data : ledger'[k].val \in Nat /\ ledger'[k].lamports \in Nat
      BY <1>3, AccountsAssumption DEF Bank, Account, Keys
    <2> QED
      BY <1>1, <2>1 DEF Untouched, Later
  <1>9. (TypeOK /\ ClosedStay /\ Idle)'
    BY <1>1, <1>3 DEF EndTx, IInv, TypeOK, ClosedStay, Idle
  <1>10. (Sound(ledger) /\ Sound(bank))'
    BY <1>1, <1>6 DEF Sound
  <1>11. Persisted'
    BY <1>1 DEF Persisted
  <1> QED
    BY <1>7, <1>8, <1>9, <1>10, <1>11 DEF IInv

-----------------------------------------------------------------------------
(* The theorems. *)

(* What a step keeps from the authority of an account that did not sign. *)
Spared ==
  \A k \in Data : Initialised(ledger[k]) /\ ledger[k].authority \notin signers
                   => Later(ledger[k], ledger'[k])

LEMMA LedgerSpared ==
  ASSUME IInv, ledger' = ledger PROVE Spared
  <1>1. \A k \in Data : ledger[k].val \in Nat /\ ledger[k].lamports \in Nat
    BY AccountsAssumption DEF IInv, TypeOK, Bank, Account, Keys
  <1> QED
    BY <1>1 DEF Spared, Later

LEMMA NextIInv ==
  ASSUME IInv, Persisted, [Next]_vars
  PROVE  IInv' /\ Persisted' /\ Spared
  <1> DEFINE Kept == IInv' /\ Persisted' /\ ledger' = ledger
  <1>1. ASSUME NEW signing \in SUBSET Keys, NEW reading \in {{}} \cup {{k} : k \in Data},
               BeginTx(signing, reading)
        PROVE  Kept
    BY <1>1, BeginTxStep
  <1>2. ASSUME NEW T \in Types, NEW k \in Data, NEW p \in Wallets, NEW a \in Wallets,
               Create(T, k, p, a)
        PROVE  Kept
    BY <1>2, CreateStep
  <1>3. ASSUME NEW k \in Data, NEW p \in Wallets, NEW a \in Wallets, Ensure(k, p, a)
        PROVE  Kept
    BY <1>3, EnsureStep
  <1>4. ASSUME NEW T \in Types, NEW k \in Data, NEW a \in Wallets, Adopt(T, k, a)
        PROVE  Kept
    BY <1>4, AdoptStep
  <1>5. ASSUME NEW T \in Types, NEW k \in Data, NEW a \in Wallets, NEW b \in Wallets,
               NEW v \in 0..MaxVal, Update(T, k, a, [authority |-> b, val |-> v])
        PROVE  Kept
    <2> DEFINE c == [authority |-> b, val |-> v]
    <2>1. c \in Holdings /\ c.authority \in Wallets
      BY DEF Holdings
    <2>2. Update(T, k, a, c)
      BY <1>5
    <2> HIDE DEF c
    <2> QED
      BY <2>1, <2>2, UpdateStep
  <1>6. ASSUME NEW k \in Data, NEW o \in Data, NEW a \in Wallets, Move(k, o, a)
        PROVE  Kept
    BY <1>6, MoveStep
  <1>7. ASSUME NEW T \in Types, NEW k \in Data, NEW a \in Wallets, NEW r \in Keys, Shut(T, k, a, r)
        PROVE  Kept
    BY <1>7, ShutStep
  <1>8. ASSUME NEW from \in Wallets, NEW to \in Data, NEW n \in {1, RENT + 1},
               SystemTransfer(from, to, n)
        PROVE  Kept
    <2>1. n \in Nat
      BY AccountsAssumption
    <2> QED
      BY <1>8, <2>1, TransferStep
  <1>9. ASSUME NEW from \in Wallets, NEW k \in Data, NEW n \in {1, RENT}, SystemCreate(from, k, n)
        PROVE  Kept
    <2>1. n \in Nat
      BY AccountsAssumption
    <2> QED
      BY <1>9, <2>1, SystemCreateStep
  <1>10. CASE EndTx
    BY <1>10, EndTxStep DEF Spared
  <1>11. CASE UNCHANGED vars
    <2>1. IInv' /\ Persisted'
      BY <1>11 DEF vars, IInv, TypeOK, Sound, ClosedStay, Idle, Untouched, Persisted, HoldsWhat
    <2> QED
      BY <2>1, <1>11, LedgerSpared DEF vars
  <1>12. CASE Kept
    BY <1>12, LedgerSpared
  <1> HIDE DEF Kept
  <1> QED
    BY <1>1, <1>2, <1>3, <1>4, <1>5, <1>6, <1>7, <1>8, <1>9, <1>10, <1>11, <1>12 DEF Next

LEMMA InitPersisted == Init => Persisted
  BY DEF Init, Persisted

LEMMA Inductive == Spec => [](IInv /\ Persisted)
  <1>1. Init => IInv /\ Persisted
    BY InitIInv, InitPersisted
  <1>2. (IInv /\ Persisted) /\ [Next]_vars => (IInv /\ Persisted)'
    BY NextIInv
  <1> QED
    BY <1>1, <1>2, PTL DEF Spec

(* common::close and generate_create_account: what a transaction closes stays closed *)
(* whatever its later instructions pay in or ask for, and what is initialised when a  *)
(* transaction ends can pay for its place.                                            *)
THEOREM Lifetimes == Spec => []SoundLifetimes
  <1>1. IInv => SoundLifetimes
    BY Discriminators DEF IInv, ClosedStay, Sound, SoundLifetimes, NoRevival, StaysRentExempt, Initialised
  <1> QED
    BY <1>1, Inductive, PTL

(* AccountsExit: an instruction leaves in the accounts what its handler made of them, *)
(* behind Account and behind AccountLoader.                                           *)
THEOREM Persistence == Spec => []Persisted
  BY Inductive, PTL

(* has_one with Signer: over a whole transaction, through create, close and           *)
(* init_if_needed too, an account whose authority did not sign keeps its authority,   *)
(* its discriminator, its value and its lamports.                                     *)
THEOREM Authority == Spec => OnlyTheAuthority
  <1> DEFINE A == \A k \in Data :
                    Initialised(ledger[k]) /\ ledger[k].authority \notin signers =>
                      /\ Initialised(ledger'[k])
                      /\ ledger'[k].authority = ledger[k].authority
                      /\ ledger'[k].val >= ledger[k].val
                      /\ ledger'[k].lamports >= ledger[k].lamports
  <1>1. Spared => A
    BY DEF Spared, Later
  <1>2. (IInv /\ Persisted) /\ [Next]_vars => [A]_vars
    BY <1>1, NextIInv
  <1> QED
    BY <1>2, Inductive, PTL DEF Spec, OnlyTheAuthority
=============================================================================
