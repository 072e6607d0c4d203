----------------------------- MODULE IdlProofs -----------------------------
(* Why clients never fetch a torn IDL: what is copied to the canonical       *)
(* account is always a buffer that some session has filled, alone and in     *)
(* order.                                                                    *)
EXTENDS AnchorIdl, TLAPS

Chunk == Versions \X Nat
Owners == Wallets \cup {ERASED_AUTHORITY}

Account == [authority : Owners \cup {None}, data : Seq(Chunk), space : Nat]

Session ==
  [cmd : {None, "init", "write_buffer", "set_buffer", "upgrade", "set_authority", "erase",
          "fetch", "authority"},
   pc : {"idle", "create", "buffer", "write", "set", "auth"},
   sent : {"no", "yes", "ok", "err"}, version : Versions \cup {None}, addr : Addresses,
   offset : Nat, new : Owners \cup {None}, result : {None, "ok", "err"}]

Payload == Chunk \cup {<<>>}

Transaction ==
  [op : {"Create", "CreateBuffer", "Write", "SetAuthority", "SetBuffer"}, signer : Wallets,
   addr : Addresses, space : Nat, chunk : Payload, new : Owners \cup {None}]

(* The first n chunks of a version. *)
Start(v, n) == [i \in 1..n |-> <<v, i>>]

AcctOK ==
  /\ acct \in [Addresses -> Account]
  /\ \A a \in Addresses : ~Exists(acct[a]) => acct[a].data = <<>>

(* What a transaction carries; a buffer that is to be copied is whole. *)
Carries(tx) ==
  /\ tx \in Transaction
  /\ tx.op = "Write" => tx.chunk \in Chunk
  /\ tx.op = "SetAuthority" => tx.new \in Owners

Sound(tx) == Carries(tx) /\ (tx.op = "SetBuffer" => Whole(acct[tx.addr].data))

(* A session that writes a buffer of its own. *)
Filling(me) == me.pc \in {"buffer", "write"} /\ me.cmd \in {"write_buffer", "upgrade"}

(* What a command has at each of its steps. *)
InStep(me) ==
  /\ me.pc = "idle" => me.sent = "no"
  /\ me.pc \in {"create", "buffer"} => me.version \in Versions /\ me.offset = 1
  /\ me.pc = "create" => me.cmd = "init"
  /\ me.pc = "buffer" => me.cmd \in {"write_buffer", "upgrade"}
  /\ me.pc = "write" => /\ me.version \in Versions /\ me.offset \in 1..Size[me.version]
                        /\ me.cmd \in {"init", "write_buffer", "upgrade"}
  /\ me.pc = "auth" => me.new \in Owners /\ me.cmd \in {"set_authority", "erase"}
  /\ me.pc = "set" => me.cmd \in {"upgrade", "set_buffer"} /\ Whole(acct[me.addr].data)
  /\ Filling(me) => me.addr \in Buffers

SessionsOK ==
  /\ session \in [Sessions -> Session]
  /\ \A s \in Sessions : InStep(session[s])

FlightsOK ==
  /\ flight = [s \in Sessions |-> flight[s]]
  /\ \A s \in Sessions : session[s].sent = "yes" => flight[s] = Tx(s)

Written(me) ==
  IF me.pc = "buffer" THEN 0 ELSE IF me.sent = "ok" THEN me.offset ELSE me.offset - 1

(* A buffer that is being filled is nobody else's, and holds what was sent so far. *)
Filled(s) ==
  LET me == session[s]
  IN  Filling(me) =>
        /\ \A t \in Sessions \ {s} : session[t].addr # me.addr
        /\ \A tx \in late : tx.addr # me.addr
        /\ me.addr \notin known
        /\ acct[me.addr].data = Start(me.version, Written(me))

KnownWhole == known \subseteq Buffers /\ \A b \in known : Whole(acct[b].data)
LateSound == \A tx \in late : Sound(tx)

IdlInv ==
  /\ AcctOK /\ SessionsOK /\ FlightsOK /\ KnownWhole /\ LateSound
  /\ \A s \in Sessions : Filled(s)
-----------------------------------------------------------------------------
(* Sequences of chunks. *)

LEMMA BytesAre ==
  ASSUME NEW v \in Versions
  PROVE  /\ Bytes(v) \in Seq(Chunk) /\ Len(Bytes(v)) = Size[v] /\ Size[v] \in Nat /\ Size[v] > 0
         /\ Bytes(v) = Start(v, Size[v])
         /\ \A i \in 1..Size[v] : Bytes(v)[i] = <<v, i>> /\ <<v, i>> \in Chunk
  <1>1. Size[v] \in Nat /\ Size[v] > 0
    BY IdlAssumption
  <1> QED
    BY <1>1 DEF Bytes, Start, Chunk

LEMMA PrefixKept ==
  ASSUME NEW s \in Seq(Chunk), NEW t \in Seq(Chunk), NEW e \in Chunk, IsPrefix(s, t)
  PROVE  IsPrefix(s, Append(t, e))
  BY DEF IsPrefix

LEMMA WholeKept ==
  ASSUME NEW d \in Seq(Chunk), NEW e \in Chunk, Whole(d)
  PROVE  Whole(Append(d, e))
  BY BytesAre, PrefixKept DEF Whole, Decodes

LEMMA WholeNotEmpty == ~Whole(<<>>)
  BY BytesAre DEF Whole, Decodes, IsPrefix

LEMMA BytesWhole ==
  ASSUME NEW v \in Versions
  PROVE  Whole(Bytes(v))
  <1>1. IsPrefix(Bytes(v), Bytes(v))
    BY BytesAre DEF IsPrefix
  <1> QED
    BY <1>1 DEF Whole, Decodes

LEMMA StartGrows ==
  ASSUME NEW v, NEW n \in Nat
  PROVE  /\ Append(Start(v, n), <<v, n + 1>>) = Start(v, n + 1)
         /\ Start(v, 0) = <<>>
  BY DEF Start
-----------------------------------------------------------------------------
(* A transaction that succeeds replaces one account, by one that is no less  *)
(* whole.                                                                    *)
Replaces(tx, k, x) ==
  /\ k \in {tx.addr, Canonical} /\ x \in Account /\ Exists(x)
  /\ Whole(acct[k].data) => Whole(x.data)
  /\ Dispatch(acct, tx).acct = [acct EXCEPT ![k] = x]
  /\ tx.op = "Write" => k = tx.addr /\ x.data = Append(acct[k].data, tx.chunk)
  /\ tx.op = "CreateBuffer" => k = tx.addr /\ x.data = <<>>

LEMMA Outcomes ==
  ASSUME NEW tx
  PROVE  /\ IdlCreate(acct, tx).ok => ~Exists(acct[Canonical])
         /\ IdlCreateBuffer(acct, tx).ok => ~Exists(acct[tx.addr])
         /\ IdlWrite(acct, tx).ok => Exists(acct[tx.addr])
  <1>1. IdlCreate(acct, tx).ok => ~Exists(acct[Canonical])
    BY DEF IdlCreate, Exists
  <1>2. IdlCreateBuffer(acct, tx).ok => ~Exists(acct[tx.addr])
    BY DEF IdlCreateBuffer, Exists
  <1>3. IdlWrite(acct, tx).ok => Exists(acct[tx.addr])
    BY DEF IdlWrite, Authorised, Exists
  <1> QED
    BY <1>1, <1>2, <1>3

LEMMA Dispatched ==
  ASSUME AcctOK, NEW tx, Sound(tx), Dispatch(acct, tx).ok
  PROVE  \E k \in Addresses, x \in Account : Replaces(tx, k, x)
  <1> DEFINE op == tx.op
             k == tx.addr
  <1>1. /\ tx \in Transaction /\ k \in Addresses /\ Canonical \in Addresses /\ tx.signer \in Wallets
        /\ tx.space \in Nat /\ tx.signer \in Owners /\ <<>> \in Seq(Chunk)
    BY DEF Sound, Carries, Transaction, Owners, Addresses
  <1>2. None \notin Owners
    BY IdlAssumption DEF Owners, None, ERASED_AUTHORITY
  <1>3. \A a \in Addresses : /\ acct[a] \in Account /\ acct[a].data \in Seq(Chunk)
                             /\ acct[a].authority \in Owners \cup {None} /\ acct[a].space \in Nat
    BY DEF AcctOK, Account
  <1>n. \A a \in Addresses : ~Exists(acct[a]) => ~Whole(acct[a].data)
    BY WholeNotEmpty DEF AcctOK
  <1> DEFINE new == [authority |-> tx.signer, data |-> <<>>, space |-> tx.space]
  <1>4. new \in Account /\ Exists(new) /\ new.data = <<>>
    BY <1>1, <1>2 DEF Account, Exists
  <1> HIDE DEF new
  <1>5. CASE op = "Create"
    <2>1. Dispatch(acct, tx) = IdlCreate(acct, tx)
      BY <1>5 DEF Dispatch
    <2>2. ~Exists(acct[Canonical])
      BY <2>1, Outcomes
    <2>3. Dispatch(acct, tx).acct = [acct EXCEPT ![Canonical] = new]
      BY <2>1 DEF IdlCreate, new
    <2> QED
      BY <1>1, <1>4, <1>5, <1>n, <2>2, <2>3 DEF Replaces
  <1>6. CASE op = "CreateBuffer"
    <2>1. Dispatch(acct, tx) = IdlCreateBuffer(acct, tx)
      BY <1>6 DEF Dispatch
    <2>2. ~Exists(acct[k])
      BY <2>1, Outcomes
    <2>3. Dispatch(acct, tx).acct = [acct EXCEPT ![k] = new]
      BY <2>1 DEF IdlCreateBuffer, new
    <2> QED
      BY <1>1, <1>4, <1>6, <1>n, <2>2, <2>3 DEF Replaces
  <1>7. CASE op = "Write"
    <2> DEFINE x == [acct[k] EXCEPT !.data = Append(acct[k].data, tx.chunk)]
    <2>1. tx.chunk \in Chunk
      BY <1>7 DEF Sound, Carries
    <2>2. Append(acct[k].data, tx.chunk) \in Seq(Chunk)
      BY <1>1, <1>3, <2>1
    <2>3. x \in Account /\ x.data = Append(acct[k].data, tx.chunk) /\ x.authority = acct[k].authority
      BY <1>1, <1>3, <2>2 DEF Account
    <2>4. Dispatch(acct, tx) = IdlWrite(acct, tx)
      BY <1>7 DEF Dispatch
    <2>5. Dispatch(acct, tx).acct = [acct EXCEPT ![k] = x] /\ Exists(acct[k])
      <3>1. Exists(acct[k])
        BY <2>4, Outcomes
      <3>2. Dispatch(acct, tx).acct = [acct EXCEPT ![k] = x]
        BY <2>4 DEF IdlWrite
      <3> QED
        BY <3>1, <3>2
    <2> HIDE DEF x
    <2>6. Exists(x)
      BY <2>3, <2>5 DEF Exists
    <2>7. Whole(acct[k].data) => Whole(x.data)
      BY <1>1, <1>3, <2>1, <2>3, WholeKept
    <2> QED
      BY <1>1, <1>7, <2>3, <2>5, <2>6, <2>7 DEF Replaces
  <1>8. CASE op = "SetAuthority"
    <2> DEFINE x == [acct[k] EXCEPT !.authority = tx.new]
    <2>1. tx.new \in Owners
      BY <1>8 DEF Sound, Carries
    <2>2. x \in Account /\ x.data = acct[k].data /\ x.authority = tx.new
      BY <1>1, <1>3, <2>1 DEF Account
    <2>3. Dispatch(acct, tx) = IdlSetAuthority(acct, tx)
      BY <1>8 DEF Dispatch
    <2>4. Dispatch(acct, tx).acct = [acct EXCEPT ![k] = x]
      BY <1>1, <2>3 DEF IdlSetAuthority, AcctOK
    <2> HIDE DEF x
    <2>5. Exists(x)
      BY <1>2, <2>1, <2>2 DEF Exists
    <2> QED
      BY <1>1, <1>8, <2>2, <2>4, <2>5 DEF Replaces
  <1>9. CASE op = "SetBuffer"
    <2> DEFINE x == [acct[Canonical] EXCEPT !.data = acct[k].data]
    <2>1. x \in Account /\ x.data = acct[k].data /\ x.authority = acct[Canonical].authority
      BY <1>1, <1>3 DEF Account
    <2>2. Dispatch(acct, tx) = IdlSetBuffer(acct, tx)
      BY <1>9 DEF Dispatch
    <2>3. Exists(acct[Canonical]) /\ Dispatch(acct, tx).acct = [acct EXCEPT ![Canonical] = x]
      BY <2>2 DEF IdlSetBuffer, Authorised
    <2> HIDE DEF x
    <2>4. Exists(x) /\ Whole(x.data)
      BY <1>9, <2>1, <2>3 DEF Exists, Sound
    <2> QED
      BY <1>1, <1>9, <2>1, <2>3, <2>4 DEF Replaces
  <1> QED
    BY <1>1, <1>5, <1>6, <1>7, <1>8, <1>9 DEF Transaction

(* What a transaction, successful or not, leaves. *)
LEMMA ExecutedLeaves ==
  ASSUME AcctOK, NEW tx, Sound(tx), acct' = Executed(acct, tx)
  PROVE  /\ AcctOK'
         /\ \A a \in Addresses : Whole(acct[a].data) => Whole(acct'[a].data)
         /\ \A b \in Buffers \ {tx.addr} : acct'[b] = acct[b]
         /\ ~Dispatch(acct, tx).ok => acct' = acct
         /\ Dispatch(acct, tx).ok /\ tx.op = "Write" =>
              acct'[tx.addr].data = Append(acct[tx.addr].data, tx.chunk)
         /\ tx.op = "CreateBuffer" => acct'[tx.addr].data = acct[tx.addr].data
  <1>1. CASE ~Dispatch(acct, tx).ok
    BY <1>1 DEF Executed, AcctOK, Exists
  <1>2. CASE Dispatch(acct, tx).ok
    <2>1. PICK k \in Addresses, x \in Account : Replaces(tx, k, x)
      BY <1>2, Dispatched
    <2>2. acct' = [acct EXCEPT ![k] = x]
      BY <1>2, <2>1 DEF Executed, Replaces
    <2>3. /\ acct' \in [Addresses -> Account] /\ acct'[k] = x
          /\ \A a \in Addresses \ {k} : acct'[a] = acct[a]
      BY <2>2 DEF AcctOK
    <2>4. \A a \in Addresses : ~Exists(acct'[a]) => acct'[a].data = <<>>
      BY <2>1, <2>3 DEF AcctOK, Replaces
    <2>5. AcctOK'
      BY <2>3, <2>4 DEF AcctOK
    <2>6. \A a \in Addresses : Whole(acct[a].data) => Whole(acct'[a].data)
      BY <2>1, <2>3 DEF Replaces
    <2>7. \A b \in Buffers \ {tx.addr} : acct'[b] = acct[b]
      BY <2>1, <2>3, IdlAssumption DEF Replaces, Addresses
    <2>8. tx.op = "CreateBuffer" => acct[tx.addr].data = <<>>
      <3>1. SUFFICES ASSUME tx.op = "CreateBuffer" PROVE acct[tx.addr].data = <<>>
        OBVIOUS
      <3>2. Dispatch(acct, tx) = IdlCreateBuffer(acct, tx) /\ tx.addr \in Addresses
        BY <3>1 DEF Dispatch, Sound, Carries, Transaction
      <3> QED
        BY <1>2, <3>2, Outcomes DEF AcctOK
    <2>9. /\ tx.op = "Write" => acct'[tx.addr].data = Append(acct[tx.addr].data, tx.chunk)
          /\ tx.op = "CreateBuffer" => acct'[tx.addr].data = acct[tx.addr].data
      BY <2>1, <2>3, <2>8 DEF Replaces
    <2> QED
      BY <1>2, <2>5, <2>6, <2>7, <2>9
  <1> QED
    BY <1>1, <1>2

(* The transaction a session sends is one its step allows. *)
LEMMA TxSound ==
  ASSUME AcctOK, SessionsOK, NEW s \in Sessions, session[s].pc # "idle"
  PROVE  /\ Sound(Tx(s)) /\ Tx(s).addr = session[s].addr
         /\ session[s].pc = "buffer" => Tx(s).op = "CreateBuffer"
         /\ session[s].pc = "write" =>
              Tx(s).op = "Write" /\ Tx(s).chunk = <<session[s].version, session[s].offset>>
  <1> DEFINE me == session[s]
             signed == [NoTx EXCEPT !.signer = WalletOf[s], !.addr = me.addr]
  <1>1. me \in Session /\ InStep(me) /\ WalletOf[s] \in Wallets
    BY IdlAssumption DEF SessionsOK
  <1>2. /\ signed \in [op : {None}, signer : {WalletOf[s]}, addr : {me.addr}, space : {0},
                       chunk : {<<>>}, new : {None}]
    BY DEF NoTx
  <1>3. me.addr \in Addresses /\ <<>> \in Payload
    BY <1>1 DEF Session, Payload
  <1> HIDE DEF signed
  <1>4. CASE me.pc = "create"
    <2>1. Tx(s) = [signed EXCEPT !.op = "Create", !.space = 2 * Size[me.version]]
      BY <1>4 DEF Tx, signed
    <2>2. 2 * Size[me.version] \in Nat
      BY <1>1, <1>4, BytesAre DEF InStep
    <2> DEFINE n == 2 * Size[me.version]
    <2>3. Tx(s) = [signed EXCEPT !.op = "Create", !.space = n] /\ n \in Nat
      BY <2>1, <2>2
    <2> HIDE DEF n
    <2>4. Tx(s) \in [op : {"Create"}, signer : {WalletOf[s]}, addr : {me.addr}, space : {n},
                     chunk : {<<>>}, new : {None}]
      BY <1>2, <2>3
    <2>5. Tx(s) \in Transaction /\ Tx(s).op = "Create" /\ Tx(s).addr = me.addr
      BY <1>1, <1>3, <2>3, <2>4 DEF Transaction
    <2> QED
      BY <1>4, <2>5 DEF Sound, Carries
  <1>5. CASE me.pc = "buffer"
    <2>1. Tx(s) = [signed EXCEPT !.op = "CreateBuffer", !.space = Size[me.version]]
      BY <1>5 DEF Tx, signed
    <2>2. Size[me.version] \in Nat
      BY <1>1, <1>5, BytesAre DEF InStep
    <2> DEFINE n == Size[me.version]
    <2>3. Tx(s) = [signed EXCEPT !.op = "CreateBuffer", !.space = n] /\ n \in Nat
      BY <2>1, <2>2
    <2> HIDE DEF n
    <2>4. Tx(s) \in [op : {"CreateBuffer"}, signer : {WalletOf[s]}, addr : {me.addr}, space : {n},
                     chunk : {<<>>}, new : {None}]
      BY <1>2, <2>3
    <2>5. Tx(s) \in Transaction /\ Tx(s).op = "CreateBuffer" /\ Tx(s).addr = me.addr
      BY <1>1, <1>3, <2>3, <2>4 DEF Transaction
    <2> QED
      BY <1>5, <2>5 DEF Sound, Carries
  <1>6. CASE me.pc = "write"
    <2>1. Tx(s) = [signed EXCEPT !.op = "Write", !.chunk = Bytes(me.version)[me.offset]]
      BY <1>6 DEF Tx, signed
    <2>2. /\ Bytes(me.version)[me.offset] = <<me.version, me.offset>>
          /\ <<me.version, me.offset>> \in Chunk
      BY <1>1, <1>6, BytesAre DEF InStep
    <2> DEFINE e == <<me.version, me.offset>>
    <2>3. Tx(s) = [signed EXCEPT !.op = "Write", !.chunk = e] /\ e \in Chunk
      BY <2>1, <2>2
    <2> HIDE DEF e
    <2>4. Tx(s) \in [op : {"Write"}, signer : {WalletOf[s]}, addr : {me.addr}, space : {0},
                     chunk : {e}, new : {None}]
      BY <1>2, <2>3
    <2>6. e \in Payload
      BY <2>3 DEF Payload
    <2>5. Tx(s) \in Transaction /\ Tx(s).op = "Write" /\ Tx(s).chunk = e /\ Tx(s).addr = me.addr
      BY <1>1, <1>3, <2>4, <2>6 DEF Transaction
    <2> QED
      BY <1>6, <2>3, <2>5 DEF Sound, Carries, e
  <1>7. CASE me.pc = "set"
    <2>1. Tx(s) = [signed EXCEPT !.op = "SetBuffer"]
      BY <1>7 DEF Tx, signed
    <2> QED
      BY <1>1, <1>2, <1>3, <1>7, <2>1 DEF Sound, Carries, Transaction, InStep
  <1>8. CASE me.pc = "auth"
    <2>1. Tx(s) = [signed EXCEPT !.op = "SetAuthority", !.new = me.new]
      BY <1>8 DEF Tx, signed
    <2>2. me.new \in Owners
      BY <1>1, <1>8 DEF InStep
    <2>3. Tx(s) \in [op : {"SetAuthority"}, signer : {WalletOf[s]}, addr : {me.addr}, space : {0},
                     chunk : {<<>>}, new : {me.new}]
      BY <1>2, <2>1
    <2>4. Tx(s) \in Transaction /\ Tx(s).op = "SetAuthority" /\ Tx(s).new = me.new /\ Tx(s).addr = me.addr
      BY <1>1, <1>3, <2>2, <2>3 DEF Transaction
    <2> QED
      BY <1>8, <2>2, <2>4 DEF Sound, Carries
  <1> QED
    BY <1>1, <1>4, <1>5, <1>6, <1>7, <1>8 DEF Session
-----------------------------------------------------------------------------
(* The steps of sessions. *)

(* Nothing that happens concerns the buffer that t is filling. *)
Apart(t, addr) ==
  Filling(session[t]) => /\ session[t].addr # addr
                         /\ \A tx \in late' : tx.addr # session[t].addr
                         /\ session[t].addr \notin known'

(* The buffer that a session in state y fills is its own. *)
Owns(s, y) ==
  Filling(y) => /\ \A t \in Sessions \ {s} : session[t].addr # y.addr
                /\ \A tx \in late' : tx.addr # y.addr
                /\ y.addr \notin known'
                /\ acct[y.addr].data = Start(y.version, Written(y))

(* A step of one session, with the accounts as they are. *)
LEMMA SessionMoves ==
  ASSUME IdlInv, NEW s \in Sessions, NEW y \in Session, InStep(y),
         session' = [session EXCEPT ![s] = y], acct' = acct,
         flight' = [t \in Sessions |-> flight'[t]],
         \A t \in Sessions \ {s} : flight'[t] = flight[t],
         y.sent = "yes" => flight'[s] = Tx(s)',
         KnownWhole', LateSound', Owns(s, y), \A t \in Sessions \ {s} : Apart(t, y.addr)
  PROVE  IdlInv'
  <1>1. session' \in [Sessions -> Session] /\ session'[s] = y /\ \A t \in Sessions \ {s} : session'[t] = session[t]
    BY DEF IdlInv, SessionsOK
  <1>2. AcctOK'
    BY DEF IdlInv, AcctOK, Exists
  <1>4. SessionsOK'
    <2>1. ASSUME NEW t \in Sessions PROVE InStep(session[t])'
      <3>1. InStep(session'[t])
        BY <1>1 DEF IdlInv, SessionsOK
      <3> QED
        BY <3>1 DEF InStep, Filling
    <2> QED
      BY <1>1, <2>1 DEF SessionsOK
  <1>5. FlightsOK'
    <2>1. ASSUME NEW t \in Sessions, session'[t].sent = "yes" PROVE flight'[t] = Tx(t)'
      <3>1. CASE t = s
        BY <1>1, <2>1, <3>1
      <3>2. CASE t # s
        <4>1. flight[t] = Tx(t)
          BY <1>1, <2>1, <3>2 DEF IdlInv, FlightsOK
        <4>2. Tx(t)' = Tx(t)
          BY <1>1, <3>2 DEF Tx
        <4> QED
          BY <3>2, <4>1, <4>2
      <3> QED
        BY <3>1, <3>2
    <2> QED
      BY <2>1 DEF FlightsOK
  <1>6. ASSUME NEW t \in Sessions PROVE Filled(t)'
    <2>1. CASE t = s
      BY <1>1, <2>1 DEF Filled, Owns, Filling, Written
    <2>2. CASE t # s
      <3>1. Filled(t) /\ Apart(t, y.addr) /\ session'[t] = session[t]
        BY <1>1, <2>2 DEF IdlInv
      <3>2. SUFFICES ASSUME Filling(session[t])
                     PROVE  /\ \A r \in Sessions \ {t} : session'[r].addr # session[t].addr
                            /\ \A tx \in late' : tx.addr # session[t].addr
                            /\ session[t].addr \notin known'
                            /\ acct[session[t].addr].data = Start(session[t].version, Written(session[t]))
        BY <3>1 DEF Filled, Filling, Written
      <3> QED
        BY <1>1, <3>1, <3>2 DEF Filled, Apart
    <2> QED
      BY <2>1, <2>2
  <1> QED
    BY <1>2, <1>4, <1>5, <1>6 DEF IdlInv

(* What does not change stays as it was. *)
LEMMA StillWhole ==
  ASSUME IdlInv, acct' = acct
  PROVE  /\ known' = known => KnownWhole'
         /\ late' \subseteq late => LateSound'
  BY DEF IdlInv, KnownWhole, LateSound, Sound, Carries

(* A command that begins. *)
LEMMA Begins ==
  ASSUME IdlInv, NEW s \in Sessions, NEW y \in Session, Starts(s, y), InStep(y), y.sent = "no",
         \/ y.addr \in known \cup {Canonical} /\ ~Filling(y)
         \/ y.pc = "buffer" /\ y.addr \in Buffers /\ FreshBuffer(y.addr)
  PROVE  IdlInv'
  <1>1. /\ session' = [session EXCEPT ![s] = y] /\ acct' = acct /\ flight' = flight /\ late' = late
        /\ known' = known
    BY DEF Starts
  <1>2. flight = [t \in Sessions |-> flight[t]]
    BY DEF IdlInv, FlightsOK
  <1>3. KnownWhole' /\ LateSound'
    BY <1>1, StillWhole
  <1>4. ASSUME y.addr \in Buffers, FreshBuffer(y.addr)
        PROVE  acct[y.addr].data = <<>> /\ y.addr \notin known
    BY <1>4, WholeNotEmpty DEF FreshBuffer, IdlInv, AcctOK, KnownWhole, Addresses
  <1>5. Owns(s, y)
    <2>1. SUFFICES ASSUME Filling(y)
                   PROVE  /\ \A t \in Sessions \ {s} : session[t].addr # y.addr
                          /\ \A tx \in late : tx.addr # y.addr
                          /\ y.addr \notin known
                          /\ acct[y.addr].data = Start(y.version, Written(y))
      BY <1>1 DEF Owns
    <2>2. y.pc = "buffer" /\ y.addr \in Buffers /\ FreshBuffer(y.addr)
      BY <2>1
    <2>3. Start(y.version, Written(y)) = <<>>
      BY <2>2, StartGrows DEF Written
    <2> QED
      BY <1>4, <2>2, <2>3 DEF FreshBuffer
  <1>6. ASSUME NEW t \in Sessions \ {s} PROVE Apart(t, y.addr)
    <2>1. Filled(t) /\ InStep(session[t])
      BY DEF IdlInv, SessionsOK
    <2>2. Filling(session[t]) => session[t].addr # Canonical
      BY <2>1, IdlAssumption DEF InStep
    <2> QED
      BY <1>1, <2>1, <2>2 DEF Apart, Filled, FreshBuffer
  <1> QED
    BY <1>1, <1>2, <1>3, <1>5, <1>6, SessionMoves

LEMMA IdleIs ==
  /\ Idle \in Session /\ Idle.pc = "idle" /\ Idle.sent = "no" /\ Idle.addr = Canonical
  /\ Idle.cmd = None /\ Idle.offset = 1 /\ Idle.version = None /\ Idle.new = None
  BY DEF Idle, Session, Addresses, None

LEMMA CommandBegins ==
  ASSUME IdlInv, NEW s \in Sessions, Command(s)
  PROVE  IdlInv'
  <1>1. ASSUME NEW v \in Versions, IdlInit(s, v) PROVE IdlInv'
    <2> DEFINE y == [Idle EXCEPT !.cmd = "init", !.pc = "create", !.version = v]
    <2>1. /\ y \in Session /\ y.pc = "create" /\ y.cmd = "init" /\ y.version = v /\ y.sent = "no"
          /\ y.addr = Canonical /\ y.offset = 1
      BY IdleIs DEF Session
    <2> HIDE DEF y
    <2>2. InStep(y) /\ ~Filling(y)
      BY <2>1 DEF InStep, Filling
    <2>3. Starts(s, y)
      BY <1>1 DEF IdlInit, y
    <2> QED
      BY <2>1, <2>2, <2>3, Begins
  <1>2. ASSUME NEW v \in Versions, NEW b \in Buffers, NEW cmd \in {"write_buffer", "upgrade"}, FreshBuffer(b),
               Starts(s, [Idle EXCEPT !.cmd = cmd, !.pc = "buffer", !.version = v, !.addr = b])
        PROVE  IdlInv'
    <2> DEFINE y == [Idle EXCEPT !.cmd = cmd, !.pc = "buffer", !.version = v, !.addr = b]
    <2>1. b \in Addresses
      BY DEF Addresses
    <2>2. /\ y \in Session /\ y.pc = "buffer" /\ y.cmd = cmd /\ y.version = v /\ y.sent = "no"
          /\ y.addr = b /\ y.offset = 1
      BY <2>1, IdleIs DEF Session
    <2> HIDE DEF y
    <2>3. InStep(y)
      BY <2>2 DEF InStep, Filling
    <2>4. Starts(s, y)
      BY <1>2 DEF y
    <2> QED
      BY <1>2, <2>2, <2>3, <2>4, Begins
  <1>3. ASSUME NEW b \in Buffers, SetBuffer(s, b) PROVE IdlInv'
    <2> DEFINE y == [Idle EXCEPT !.cmd = "set_buffer", !.pc = "set", !.addr = b]
    <2>1. b \in Addresses /\ b \in known /\ Whole(acct[b].data)
      BY <1>3 DEF Addresses, SetBuffer, IdlInv, KnownWhole
    <2>2. y \in Session /\ y.pc = "set" /\ y.cmd = "set_buffer" /\ y.sent = "no" /\ y.addr = b
      BY <2>1, IdleIs DEF Session
    <2> HIDE DEF y
    <2>3. InStep(y) /\ ~Filling(y)
      BY <2>1, <2>2 DEF InStep, Filling
    <2>4. Starts(s, y)
      BY <1>3 DEF SetBuffer, y
    <2> QED
      BY <2>1, <2>2, <2>3, <2>4, Begins
  <1>4. ASSUME NEW a \in known \cup {Canonical}, NEW w \in Owners,
               Starts(s, [Idle EXCEPT !.cmd = "set_authority", !.pc = "auth", !.addr = a, !.new = w])
        PROVE  IdlInv'
    <2> DEFINE y == [Idle EXCEPT !.cmd = "set_authority", !.pc = "auth", !.addr = a, !.new = w]
    <2>1. a \in Addresses
      BY DEF Addresses, IdlInv, KnownWhole
    <2>2. y \in Session /\ y.pc = "auth" /\ y.cmd = "set_authority" /\ y.sent = "no" /\ y.addr = a /\ y.new = w
      BY <2>1, IdleIs DEF Session
    <2> HIDE DEF y
    <2>3. InStep(y) /\ ~Filling(y)
      BY <2>2 DEF InStep, Filling
    <2>4. Starts(s, y)
      BY <1>4 DEF y
    <2> QED
      BY <2>2, <2>3, <2>4, Begins
  <1>5. ASSUME NEW cmd \in {"erase", "fetch", "authority"}, NEW result \in {"ok", "err"},
               Starts(s, [Idle EXCEPT !.cmd = cmd, !.result = result])
        PROVE  IdlInv'
    <2> DEFINE y == [Idle EXCEPT !.cmd = cmd, !.result = result]
    <2>1. y \in Session /\ y.pc = "idle" /\ y.sent = "no" /\ y.addr = Canonical
      BY IdleIs DEF Session
    <2> HIDE DEF y
    <2>2. InStep(y) /\ ~Filling(y)
      BY <2>1 DEF InStep, Filling
    <2>3. Starts(s, y)
      BY <1>5 DEF y
    <2> QED
      BY <2>1, <2>2, <2>3, Begins
  <1>6. ASSUME NEW v \in Versions, NEW b \in Buffers, IdlWriteBuffer(s, v, b) \/ IdlUpgrade(s, v, b)
        PROVE  IdlInv'
    BY <1>2, <1>6 DEF IdlWriteBuffer, IdlUpgrade
  <1>7. ASSUME NEW a \in Addresses, NEW w \in Wallets, SetAuthority(s, a, w) PROVE IdlInv'
    BY <1>4, <1>7 DEF SetAuthority, Owners
  <1>8. ASSUME NEW yes \in BOOLEAN, EraseAuthority(s, yes) PROVE IdlInv'
    <2>1. CASE yes
      <3> DEFINE y == [Idle EXCEPT !.cmd = "erase", !.pc = "auth", !.new = ERASED_AUTHORITY]
      <3>1. /\ y \in Session /\ y.pc = "auth" /\ y.cmd = "erase" /\ y.sent = "no" /\ y.addr = Canonical
            /\ y.new \in Owners
        BY IdleIs DEF Session, Owners
      <3> HIDE DEF y
      <3>2. InStep(y) /\ ~Filling(y)
        BY <3>1 DEF InStep, Filling
      <3>3. Starts(s, y)
        BY <1>8, <2>1 DEF EraseAuthority, y
      <3> QED
        BY <3>1, <3>2, <3>3, Begins
    <2>2. CASE ~yes
      BY <1>5, <1>8, <2>2 DEF EraseAuthority
    <2> QED
      BY <2>1, <2>2
  <1>9. ASSUME Fetch(s) PROVE IdlInv'
    <2> DEFINE result == IF Exists(acct[Canonical]) /\ Whole(acct[Canonical].data) THEN "ok" ELSE "err"
    <2>1. result \in {"ok", "err"}
      OBVIOUS
    <2> HIDE DEF result
    <2>2. Starts(s, [Idle EXCEPT !.cmd = "fetch", !.result = result])
      BY <1>9 DEF Fetch, result
    <2> QED
      BY <1>5, <2>1, <2>2
  <1>10. ASSUME IdlAuthority(s) PROVE IdlInv'
    <2> DEFINE result == IF Exists(acct[Canonical]) THEN "ok" ELSE "err"
    <2>1. result \in {"ok", "err"}
      OBVIOUS
    <2> HIDE DEF result
    <2>2. Starts(s, [Idle EXCEPT !.cmd = "authority", !.result = result])
      BY <1>10 DEF IdlAuthority, result
    <2> QED
      BY <1>5, <2>1, <2>2
  <1> QED
    BY <1>1, <1>3, <1>6, <1>7, <1>8, <1>9, <1>10 DEF Command

LEMMA SendKeeps ==
  ASSUME IdlInv, NEW s \in Sessions, Send(s)
  PROVE  IdlInv'
  <1> DEFINE me == session[s]
             y == [me EXCEPT !.sent = "yes"]
  <1>1. me \in Session /\ InStep(me) /\ Filled(s) /\ me.pc # "idle" /\ me.sent = "no"
    BY DEF IdlInv, SessionsOK, Send
  <1>2. /\ y \in Session /\ y.sent = "yes" /\ y.cmd = me.cmd /\ y.pc = me.pc /\ y.version = me.version
        /\ y.addr = me.addr /\ y.offset = me.offset /\ y.new = me.new
    BY <1>1 DEF Session
  <1>3. session' = [session EXCEPT ![s] = y] /\ acct' = acct /\ late' = late /\ known' = known
    BY DEF Send, IdlInv, SessionsOK
  <1> HIDE DEF y
  <1>4. flight' = [flight EXCEPT ![s] = Tx(s)] /\ flight = [t \in Sessions |-> flight[t]]
    BY DEF Send, IdlInv, FlightsOK
  <1>5. /\ flight' = [t \in Sessions |-> flight'[t]] /\ flight'[s] = Tx(s)
        /\ \A t \in Sessions \ {s} : flight'[t] = flight[t]
    BY <1>4
  <1>6. session'[s] = y
    BY <1>3 DEF IdlInv, SessionsOK
  <1>7. Tx(s)' = Tx(s)
    BY <1>2, <1>6 DEF Tx
  <1>8. KnownWhole' /\ LateSound'
    BY <1>3, StillWhole
  <1>9. InStep(y)
    BY <1>1, <1>2 DEF InStep, Filling
  <1>10. Owns(s, y)
    BY <1>1, <1>2, <1>3 DEF Owns, Filled, Filling, Written
  <1>11. \A t \in Sessions \ {s} : Apart(t, y.addr)
    BY <1>2, <1>3 DEF Apart, IdlInv, Filled
  <1> QED
    BY <1>2, <1>3, <1>5, <1>7, <1>8, <1>9, <1>10, <1>11, SessionMoves

(* A command that ends. *)
LEMMA EndsKeeps ==
  ASSUME IdlInv, NEW s \in Sessions, NEW result \in {"ok", "err"}, Ends(s, result), acct' = acct,
         flight' = [t \in Sessions |-> flight'[t]],
         \A t \in Sessions \ {s} : flight'[t] = flight[t],
         KnownWhole', LateSound',
         \A t \in Sessions \ {s} : Filling(session[t]) =>
            /\ \A tx \in late' : tx.addr # session[t].addr
            /\ session[t].addr \notin known'
  PROVE  IdlInv'
  <1> DEFINE y == [Idle EXCEPT !.cmd = session[s].cmd, !.result = result]
  <1>1. session[s] \in Session
    BY DEF IdlInv, SessionsOK
  <1>2. y \in Session /\ y.pc = "idle" /\ y.sent = "no" /\ y.addr = Canonical
    BY <1>1, IdleIs DEF Session
  <1>3. session' = [session EXCEPT ![s] = y]
    BY DEF Ends
  <1> HIDE DEF y
  <1>4. InStep(y) /\ ~Filling(y)
    BY <1>2 DEF InStep, Filling
  <1>5. ASSUME NEW t \in Sessions \ {s} PROVE Apart(t, y.addr)
    <2>1. Filling(session[t]) => session[t].addr # Canonical
      BY IdlAssumption DEF IdlInv, SessionsOK, InStep
    <2> QED
      BY <1>2, <2>1 DEF Apart
  <1> QED
    BY <1>2, <1>3, <1>4, <1>5, SessionMoves DEF Owns

LEMMA FailureKeeps ==
  ASSUME IdlInv, NEW s \in Sessions, Abort(s) \/ CallFails(s) \/ GivesUp(s)
  PROVE  IdlInv'
  <1>1. acct' = acct /\ known' = known /\ Ends(s, "err")
    BY DEF Abort, CallFails, GivesUp, Fails
  <1>2. flight = [t \in Sessions |-> flight[t]]
    BY DEF IdlInv, FlightsOK
  <1>3. KnownWhole'
    BY <1>1, StillWhole
  <1>4. \A t \in Sessions \ {s} : Filled(t)
    BY DEF IdlInv
  <1>5. CASE Abort(s) \/ CallFails(s)
    <2>1. flight' = flight /\ late' = late
      BY <1>5 DEF Abort, CallFails
    <2>2. LateSound'
      BY <1>1, <2>1, StillWhole
    <2> QED
      BY <1>1, <1>2, <1>3, <1>4, <2>1, <2>2, EndsKeeps DEF Filled
  <1>6. CASE GivesUp(s)
    <2>1. /\ flight' = [flight EXCEPT ![s] = NoTx] /\ late' = late \cup {flight[s]}
          /\ session[s].sent = "yes"
      BY <1>6 DEF GivesUp
    <2>2. flight' = [t \in Sessions |-> flight'[t]] /\ \A t \in Sessions \ {s} : flight'[t] = flight[t]
      BY <1>2, <2>1
    <2>3. flight[s] = Tx(s) /\ session[s].pc # "idle"
      BY <2>1 DEF IdlInv, FlightsOK, SessionsOK, InStep
    <2>4. Sound(flight[s]) /\ flight[s].addr = session[s].addr
      BY <2>3, TxSound DEF IdlInv
    <2>5. LateSound'
      BY <1>1, <2>1, <2>4 DEF LateSound, Sound, Carries, IdlInv
    <2>6. \A t \in Sessions \ {s} : Filling(session[t]) =>
             /\ \A tx \in late' : tx.addr # session[t].addr
             /\ session[t].addr \notin known'
      BY <1>1, <1>4, <2>1, <2>4 DEF Filled
    <2> QED
      BY <1>1, <1>3, <2>2, <2>5, <2>6, EndsKeeps
  <1> QED
    BY <1>5, <1>6

(* A buffer whose last chunk was confirmed is whole. *)
LEMMA LastIsWhole ==
  ASSUME IdlInv, NEW s \in Sessions, session[s].pc = "write", session[s].sent = "ok",
         session[s].cmd \in {"write_buffer", "upgrade"}, LastChunk(session[s])
  PROVE  Whole(acct[session[s].addr].data) /\ session[s].addr \in Buffers
  <1> DEFINE me == session[s]
  <1>1. InStep(me) /\ Filling(me) /\ Filled(s)
    BY DEF IdlInv, SessionsOK, Filling
  <1>2. me.version \in Versions /\ me.offset \in 1..Size[me.version] /\ me.addr \in Buffers
    BY <1>1 DEF InStep
  <1>3. Size[me.version] \in Nat /\ Bytes(me.version) = Start(me.version, Size[me.version])
    BY <1>2, BytesAre
  <1>4. me.offset = Size[me.version]
    BY <1>2, <1>3 DEF LastChunk
  <1>5. acct[me.addr].data = Start(me.version, me.offset)
    BY <1>1 DEF Filled, Written
  <1> QED
    BY <1>2, <1>3, <1>4, <1>5, BytesWhole

(* A command whose transaction was confirmed goes on. *)
LEMMA ProceedKeeps ==
  ASSUME IdlInv, NEW s \in Sessions, Proceed(s)
  PROVE  IdlInv'
  <1> DEFINE me == session[s]
             goto(pc) == [me EXCEPT !.pc = pc, !.sent = "no"]
  <1>1. /\ me \in Session /\ InStep(me) /\ Filled(s) /\ me.sent = "ok" /\ me.pc # "idle"
        /\ acct' = acct /\ flight' = flight /\ late' = late
    BY DEF IdlInv, SessionsOK, InStep, Proceed
  <1>2. flight = [t \in Sessions |-> flight[t]]
    BY DEF IdlInv, FlightsOK
  <1>3. LateSound'
    BY <1>1, StillWhole
  <1>4. \A t \in Sessions \ {s} : Filled(t)
    BY DEF IdlInv
  <1>5. ASSUME NEW y \in Session, InStep(y), y.sent = "no", y.addr = me.addr, known' = known,
               session' = [session EXCEPT ![s] = y],
               Filling(y) => Filling(me) /\ y.version = me.version /\ Written(y) = Written(me)
        PROVE  IdlInv'
    <2>1. KnownWhole'
      BY <1>1, <1>5, StillWhole
    <2>2. Owns(s, y)
      BY <1>1, <1>5 DEF Owns, Filled
    <2>3. \A t \in Sessions \ {s} : Apart(t, y.addr)
      BY <1>1, <1>4, <1>5 DEF Apart, Filled
    <2> QED
      BY <1>1, <1>2, <1>3, <1>5, <2>1, <2>2, <2>3, SessionMoves
  <1>6. ASSUME NEW pc \in {"write", "set"}
        PROVE  /\ goto(pc) \in Session /\ goto(pc).pc = pc /\ goto(pc).sent = "no"
               /\ goto(pc).addr = me.addr /\ goto(pc).version = me.version
               /\ goto(pc).cmd = me.cmd /\ goto(pc).offset = me.offset
    BY <1>1 DEF Session
  <1>7. CASE me.pc \in {"create", "buffer"}
    <2> DEFINE y == goto("write")
    <2>1. session' = [session EXCEPT ![s] = y] /\ known' = known
      BY <1>7 DEF Proceed, Continues
    <2>2. /\ y \in Session /\ y.pc = "write" /\ y.sent = "no" /\ y.addr = me.addr
          /\ y.version = me.version /\ y.cmd = me.cmd /\ y.offset = me.offset
      BY <1>6
    <2> HIDE DEF y
    <2>3. me.version \in Versions /\ me.offset = 1 /\ 1 \in 1..Size[me.version]
      BY <1>1, <1>7, BytesAre DEF InStep
    <2>4. InStep(y)
      BY <1>1, <1>7, <2>2, <2>3 DEF InStep, Filling
    <2>5. Filling(y) => Filling(me) /\ Written(y) = Written(me)
      BY <1>1, <1>7, <2>2, <2>3 DEF InStep, Filling, Written
    <2> QED
      BY <1>5, <2>1, <2>2, <2>4, <2>5
  <1>8. CASE me.pc = "write" /\ ~LastChunk(me)
    <2> DEFINE y == [goto("write") EXCEPT !.offset = @ + 1]
    <2>1. session' = [session EXCEPT ![s] = y] /\ known' = known
      BY <1>8 DEF Proceed, Continues
    <2>2. /\ me.version \in Versions /\ me.offset \in 1..Size[me.version]
          /\ Size[me.version] \in Nat
      BY <1>1, <1>8, BytesAre DEF InStep
    <2>3. me.offset + 1 \in 1..Size[me.version] /\ me.offset \in Nat /\ me.offset + 1 \in Nat
      BY <1>8, <2>2 DEF LastChunk
    <2> DEFINE z == goto("write")
    <2>4. /\ z \in Session /\ z.pc = "write" /\ z.sent = "no" /\ z.addr = me.addr
          /\ z.version = me.version /\ z.cmd = me.cmd /\ z.offset = me.offset
      BY <1>6
    <2>5. y = [z EXCEPT !.offset = me.offset + 1]
      BY <2>4
    <2> HIDE DEF y, z
    <2>6. /\ y \in Session /\ y.pc = "write" /\ y.sent = "no" /\ y.addr = me.addr
          /\ y.version = me.version /\ y.cmd = me.cmd /\ y.offset = me.offset + 1
      BY <2>3, <2>4, <2>5 DEF Session
    <2>7. InStep(y)
      BY <1>1, <1>8, <2>2, <2>3, <2>6 DEF InStep, Filling
    <2>8. Filling(y) => Filling(me) /\ Written(y) = Written(me)
      BY <1>1, <1>8, <2>3, <2>6 DEF Filling, Written
    <2> QED
      BY <1>5, <2>1, <2>6, <2>7, <2>8
  <1>9. CASE me.pc = "write" /\ LastChunk(me) /\ me.cmd = "upgrade"
    <2> DEFINE y == goto("set")
    <2>1. session' = [session EXCEPT ![s] = y] /\ known' = known
      BY <1>9 DEF Proceed, Continues
    <2>2. /\ y \in Session /\ y.pc = "set" /\ y.sent = "no" /\ y.addr = me.addr
          /\ y.version = me.version /\ y.cmd = me.cmd /\ y.offset = me.offset
      BY <1>6
    <2> HIDE DEF y
    <2>3. Whole(acct[me.addr].data)
      BY <1>1, <1>9, LastIsWhole
    <2>4. InStep(y) /\ ~Filling(y)
      BY <1>9, <2>2, <2>3 DEF InStep, Filling
    <2> QED
      BY <1>5, <2>1, <2>2, <2>4
  <1>10. CASE /\ me.pc \notin {"create", "buffer"}
              /\ me.pc = "write" => LastChunk(me) /\ me.cmd # "upgrade"
    <2>1. /\ Ends(s, "ok")
          /\ known' = IF me.cmd = "write_buffer" THEN known \cup {me.addr} ELSE known
      BY <1>10 DEF Proceed, Continues
    <2>2. me.cmd = "write_buffer" => me.pc = "write" /\ LastChunk(me)
      BY <1>1, <1>10 DEF InStep, Session
    <2>3. me.cmd = "write_buffer" => Whole(acct[me.addr].data) /\ me.addr \in Buffers
      BY <1>1, <2>2, LastIsWhole
    <2>4. KnownWhole'
      BY <1>1, <2>1, <2>3 DEF KnownWhole, IdlInv
    <2>5. \A t \in Sessions \ {s} : Filling(session[t]) =>
             /\ \A tx \in late' : tx.addr # session[t].addr
             /\ session[t].addr \notin known'
      BY <1>1, <1>4, <2>1 DEF Filled
    <2> QED
      BY <1>1, <1>2, <1>3, <2>1, <2>4, <2>5, EndsKeeps
  <1> QED
    BY <1>7, <1>8, <1>9, <1>10
-----------------------------------------------------------------------------
(* The execution of transactions. *)

(* A buffer that is written to is written by the session that fills it. *)
LEMMA LandKeeps ==
  ASSUME IdlInv, NEW s \in Sessions, Land(s)
  PROVE  IdlInv'
  <1> DEFINE me == session[s]
             tx == flight[s]
             y == [me EXCEPT !.sent = IF Dispatch(acct, flight[s]).ok THEN "ok" ELSE "err"]
  <1>1. /\ me \in Session /\ InStep(me) /\ Filled(s) /\ me.sent = "yes" /\ me.pc # "idle"
        /\ tx = Tx(s) /\ AcctOK /\ SessionsOK
    BY DEF IdlInv, SessionsOK, FlightsOK, InStep, Land
  <1>2. /\ Sound(tx) /\ tx.addr = me.addr
        /\ me.pc = "buffer" => tx.op = "CreateBuffer"
        /\ me.pc = "write" => tx.op = "Write" /\ tx.chunk = <<me.version, me.offset>>
    BY <1>1, TxSound
  <1>3. /\ acct' = Executed(acct, tx) /\ session' = [session EXCEPT ![s] = y]
        /\ flight' = [flight EXCEPT ![s] = NoTx] /\ late' = late /\ known' = known
    BY DEF Land, IdlInv, SessionsOK
  <1>4. /\ AcctOK'
        /\ \A a \in Addresses : Whole(acct[a].data) => Whole(acct'[a].data)
        /\ \A b \in Buffers \ {tx.addr} : acct'[b] = acct[b]
        /\ ~Dispatch(acct, tx).ok => acct' = acct
        /\ Dispatch(acct, tx).ok /\ tx.op = "Write" =>
             acct'[tx.addr].data = Append(acct[tx.addr].data, tx.chunk)
        /\ tx.op = "CreateBuffer" => acct'[tx.addr].data = acct[tx.addr].data
    BY <1>1, <1>2, <1>3, ExecutedLeaves
  <1>5. /\ y \in Session /\ y.cmd = me.cmd /\ y.pc = me.pc /\ y.version = me.version
        /\ y.addr = me.addr /\ y.offset = me.offset /\ y.new = me.new
        /\ y.sent = IF Dispatch(acct, tx).ok THEN "ok" ELSE "err"
    <2> DEFINE r == IF Dispatch(acct, flight[s]).ok THEN "ok" ELSE "err"
    <2>1. r \in {"ok", "err"} /\ y = [me EXCEPT !.sent = r]
      OBVIOUS
    <2> HIDE DEF r, y
    <2>2. /\ y \in Session /\ y.cmd = me.cmd /\ y.pc = me.pc /\ y.version = me.version
          /\ y.addr = me.addr /\ y.offset = me.offset /\ y.new = me.new /\ y.sent = r
      BY <1>1, <2>1 DEF Session
    <2> QED
      BY <2>2 DEF r
  <1> HIDE DEF y
  <1>6. session' \in [Sessions -> Session] /\ session'[s] = y /\ \A t \in Sessions \ {s} : session'[t] = session[t]
    BY <1>1, <1>3, <1>5 DEF SessionsOK
  <1>7. SessionsOK'
    <2>1. ASSUME NEW t \in Sessions PROVE InStep(session[t])'
      <3>1. /\ session'[t].pc = session[t].pc /\ session'[t].cmd = session[t].cmd
            /\ session'[t].version = session[t].version /\ session'[t].offset = session[t].offset
            /\ session'[t].new = session[t].new /\ session'[t].addr = session[t].addr
            /\ (session'[t].pc = "idle" => session'[t].sent = "no")
            /\ session[t].addr \in Addresses /\ InStep(session[t])
        BY <1>1, <1>5, <1>6 DEF SessionsOK, InStep, Session
      <3>2. session[t].pc = "set" => Whole(acct'[session[t].addr].data)
        BY <1>4, <3>1 DEF InStep
      <3> QED
        BY <3>1, <3>2 DEF InStep, Filling
    <2> QED
      BY <1>6, <2>1 DEF SessionsOK
  <1>8. FlightsOK'
    <2>1. flight = [t \in Sessions |-> flight[t]]
      BY DEF IdlInv, FlightsOK
    <2>2. flight' = [t \in Sessions |-> flight'[t]] /\ \A t \in Sessions \ {s} : flight'[t] = flight[t]
      BY <1>3, <2>1
    <2>3. ASSUME NEW t \in Sessions, session'[t].sent = "yes" PROVE flight'[t] = Tx(t)'
      <3>1. t # s
        BY <1>5, <1>6, <2>3
      <3>2. flight[t] = Tx(t)
        BY <1>6, <2>3, <3>1 DEF IdlInv, FlightsOK
      <3>3. Tx(t)' = Tx(t)
        BY <1>6, <3>1 DEF Tx
      <3> QED
        BY <2>2, <3>1, <3>2, <3>3
    <2> QED
      BY <2>2, <2>3 DEF FlightsOK
  <1>9. KnownWhole'
    BY <1>3, <1>4 DEF KnownWhole, IdlInv, Addresses
  <1>10. LateSound'
    <2>1. ASSUME NEW r \in late PROVE Sound(r)'
      <3>1. Sound(r) /\ r.addr \in Addresses
        BY DEF IdlInv, LateSound, Sound, Carries, Transaction
      <3> QED
        BY <1>4, <3>1 DEF Sound, Carries
    <2> QED
      BY <1>3, <2>1 DEF LateSound
  <1>11. ASSUME NEW t \in Sessions PROVE Filled(t)'
    <2>1. CASE t = s
      <3>1. SUFFICES ASSUME Filling(y)
                     PROVE  acct'[y.addr].data = Start(y.version, Written(y))
        BY <1>1, <1>3, <1>5, <1>6, <2>1 DEF Filled, Filling, Written
      <3>2. Filling(me) /\ acct[me.addr].data = Start(me.version, Written(me))
        BY <1>1, <1>5, <3>1 DEF Filling, Filled
      <3>3. CASE me.pc = "buffer"
        BY <1>2, <1>4, <1>5, <3>2, <3>3 DEF Written
      <3>4. CASE me.pc = "write" /\ ~Dispatch(acct, tx).ok
        BY <1>1, <1>4, <1>5, <3>2, <3>4 DEF Written
      <3>5. CASE me.pc = "write" /\ Dispatch(acct, tx).ok
        <4>1. me.version \in Versions /\ me.offset \in 1..Size[me.version] /\ Size[me.version] \in Nat
          BY <1>1, <3>5, BytesAre DEF InStep
        <4> DEFINE n == me.offset - 1
        <4>2. n \in Nat /\ me.offset = n + 1
          BY <4>1
        <4>3. Written(me) = n /\ Written(y) = n + 1
          BY <1>1, <1>5, <3>5, <4>2 DEF Written
        <4> HIDE DEF n
        <4>4. acct'[me.addr].data = Append(Start(me.version, n), <<me.version, n + 1>>)
          BY <1>2, <1>4, <3>2, <3>5, <4>2, <4>3
        <4> QED
          BY <1>5, <4>2, <4>3, <4>4, StartGrows
      <3> QED
        BY <3>2, <3>3, <3>4, <3>5 DEF Filling
    <2>2. CASE t # s
      <3>1. Filled(t) /\ InStep(session[t]) /\ session'[t] = session[t]
        BY <1>1, <1>6, <2>2 DEF IdlInv, SessionsOK
      <3>2. SUFFICES ASSUME Filling(session[t])
                     PROVE  /\ \A r \in Sessions \ {t} : session'[r].addr # session[t].addr
                            /\ \A r \in late' : r.addr # session[t].addr
                            /\ session[t].addr \notin known'
                            /\ acct'[session[t].addr].data = Start(session[t].version, Written(session[t]))
        BY <3>1 DEF Filled, Filling, Written
      <3>3. session[t].addr \in Buffers /\ session[t].addr # me.addr
        BY <2>2, <3>1, <3>2 DEF InStep, Filled
      <3>4. acct'[session[t].addr] = acct[session[t].addr]
        BY <1>2, <1>4, <3>3
      <3> QED
        BY <1>3, <1>5, <1>6, <3>1, <3>2, <3>3, <3>4 DEF Filled
    <2> QED
      BY <2>1, <2>2
  <1> QED
    BY <1>4, <1>7, <1>8, <1>9, <1>10, <1>11 DEF IdlInv

(* A transaction nobody waits for concerns no buffer that is being filled. *)
LEMMA LateKeeps ==
  ASSUME IdlInv, NEW tx \in late, LandLate(tx) \/ Drop(tx)
  PROVE  IdlInv'
  <1>1. /\ session' = session /\ flight' = flight /\ known' = known /\ late' = late \ {tx}
        /\ acct' = Executed(acct, tx) \/ acct' = acct
    BY DEF LandLate, Drop
  <1>2. Sound(tx) /\ AcctOK
    BY DEF IdlInv, LateSound
  <1>3. /\ AcctOK'
        /\ \A a \in Addresses : Whole(acct[a].data) => Whole(acct'[a].data)
        /\ \A b \in Buffers \ {tx.addr} : acct'[b] = acct[b]
    <2>1. CASE acct' = acct
      BY <1>2, <2>1 DEF AcctOK, Exists
    <2>2. CASE acct' = Executed(acct, tx)
      BY <1>2, <2>2, ExecutedLeaves
    <2> QED
      BY <1>1, <2>1, <2>2
  <1>4. SessionsOK'
    <2>1. ASSUME NEW t \in Sessions PROVE InStep(session[t])'
      <3>1. InStep(session[t]) /\ session[t].addr \in Addresses
        BY DEF IdlInv, SessionsOK, Session
      <3> QED
        BY <1>1, <1>3, <3>1 DEF InStep, Filling
    <2> QED
      BY <1>1, <2>1 DEF SessionsOK, IdlInv
  <1>5. FlightsOK'
    BY <1>1 DEF FlightsOK, IdlInv, Tx
  <1>6. KnownWhole'
    BY <1>1, <1>3 DEF KnownWhole, IdlInv, Addresses
  <1>7. LateSound'
    <2>1. ASSUME NEW r \in late PROVE Sound(r)'
      <3>1. Sound(r) /\ r.addr \in Addresses
        BY DEF IdlInv, LateSound, Sound, Carries, Transaction
      <3> QED
        BY <1>3, <3>1 DEF Sound, Carries
    <2> QED
      BY <1>1, <2>1 DEF LateSound
  <1>8. ASSUME NEW t \in Sessions PROVE Filled(t)'
    <2>1. Filled(t) /\ InStep(session[t])
      BY DEF IdlInv, SessionsOK
    <2>2. SUFFICES ASSUME Filling(session[t])
                   PROVE  /\ \A r \in Sessions \ {t} : session'[r].addr # session[t].addr
                          /\ \A r \in late' : r.addr # session[t].addr
                          /\ session[t].addr \notin known'
                          /\ acct'[session[t].addr].data = Start(session[t].version, Written(session[t]))
      BY <1>1 DEF Filled, Filling, Written
    <2>3. session[t].addr \in Buffers /\ session[t].addr # tx.addr
      BY <2>1, <2>2 DEF InStep, Filled
    <2>4. acct'[session[t].addr] = acct[session[t].addr]
      BY <1>3, <2>3
    <2> QED
      BY <1>1, <2>1, <2>2, <2>4 DEF Filled
  <1> QED
    BY <1>3, <1>4, <1>5, <1>6, <1>7, <1>8 DEF IdlInv
-----------------------------------------------------------------------------
LEMMA InitOK == Init => IdlInv
  <1> SUFFICES ASSUME Init PROVE IdlInv
    OBVIOUS
  <1>1. NoAccount \in Account /\ NoAccount.data = <<>>
    BY DEF NoAccount, Account
  <1>2. AcctOK
    BY <1>1 DEF Init, AcctOK
  <1>3. \A s \in Sessions : session[s] = Idle /\ ~Filling(session[s])
    BY IdleIs DEF Init, Filling
  <1>4. InStep(Idle)
    BY IdleIs DEF InStep, Filling
  <1>5. SessionsOK
    BY <1>3, <1>4, IdleIs DEF Init, SessionsOK
  <1>6. FlightsOK
    BY <1>3, IdleIs DEF Init, FlightsOK
  <1>7. KnownWhole /\ LateSound
    BY DEF Init, KnownWhole, LateSound
  <1>8. \A s \in Sessions : Filled(s)
    BY <1>3 DEF Filled
  <1> QED
    BY <1>2, <1>5, <1>6, <1>7, <1>8 DEF IdlInv

LEMMA StepOK == IdlInv /\ [Next]_vars => IdlInv'
  <1> SUFFICES ASSUME IdlInv, [Next]_vars PROVE IdlInv'
    OBVIOUS
  <1>1. ASSUME NEW s \in Sessions,
               Command(s) \/ Step(s) \/ Land(s) \/ CallFails(s) \/ GivesUp(s)
        PROVE  IdlInv'
    BY <1>1, CommandBegins, SendKeeps, ProceedKeeps, FailureKeeps, LandKeeps DEF Step
  <1>2. ASSUME NEW tx \in late, LandLate(tx) \/ Drop(tx) PROVE IdlInv'
    BY <1>2, LateKeeps
  <1>3. CASE UNCHANGED vars
    BY <1>3 DEF vars, IdlInv, AcctOK, Exists, SessionsOK, InStep, Filling, FlightsOK, Tx, Filled, Written,
                KnownWhole, LateSound, Sound, Carries
  <1> QED
    BY <1>1, <1>2, <1>3 DEF Next

(* Whatever the sessions do, a buffer is filled by one session and in order, and what is *)
(* on its way to the canonical account is a whole IDL (idl_write, idl_upgrade).          *)
THEOREM IdlInvariant == Spec => []IdlInv
  BY InitOK, StepOK, PTL DEF Spec

(* The accounts change only when a transaction is executed. *)
LEMMA StepsKeepWhole ==
  IdlInv /\ [Next]_vars => (Whole(acct[Canonical].data) => Whole(acct'[Canonical].data))
  <1> SUFFICES ASSUME IdlInv, [Next]_vars, Whole(acct[Canonical].data)
               PROVE  Whole(acct'[Canonical].data)
    OBVIOUS
  <1>1. Canonical \in Addresses /\ AcctOK
    BY DEF Addresses, IdlInv
  <1>2. ASSUME NEW tx, Sound(tx), acct' = Executed(acct, tx) PROVE Whole(acct'[Canonical].data)
    BY <1>1, <1>2, ExecutedLeaves
  <1>3. ASSUME NEW s \in Sessions, Land(s) PROVE Whole(acct'[Canonical].data)
    <2>1. flight[s] = Tx(s) /\ session[s].pc # "idle" /\ SessionsOK
      BY <1>3 DEF IdlInv, FlightsOK, SessionsOK, InStep, Land
    <2>2. Sound(flight[s])
      BY <1>1, <2>1, TxSound
    <2> QED
      BY <1>2, <1>3, <2>2 DEF Land
  <1>4. ASSUME NEW tx \in late, LandLate(tx) PROVE Whole(acct'[Canonical].data)
    BY <1>2, <1>4 DEF LandLate, IdlInv, LateSound
  <1>5. ASSUME NEW s \in Sessions, Command(s) PROVE acct' = acct
    BY <1>5 DEF Command, IdlInit, IdlWriteBuffer, IdlUpgrade, SetBuffer, SetAuthority, EraseAuthority,
                Fetch, IdlAuthority, Starts
  <1>6. ASSUME NEW s \in Sessions, Step(s) \/ CallFails(s) \/ GivesUp(s) PROVE acct' = acct
    BY <1>6 DEF Step, Send, Proceed, Abort, CallFails, GivesUp
  <1>7. ASSUME NEW tx \in late, Drop(tx) PROVE acct' = acct
    BY <1>7 DEF Drop
  <1>8. UNCHANGED vars => acct' = acct
    BY DEF vars
  <1> QED
    BY <1>3, <1>4, <1>5, <1>6, <1>7, <1>8 DEF Next

(* idl_write, idl_upgrade and __idl_set_buffer: once clients can fetch an IDL from the   *)
(* canonical account they always can, for any number of sessions, wallets, versions and  *)
(* buffers, and whatever transactions are lost or land late.                             *)
THEOREM NeverTorn == Spec => OnceWholeStaysWhole
  BY IdlInvariant, StepsKeepWhole, PTL DEF Spec, OnceWholeStaysWhole
=============================================================================
