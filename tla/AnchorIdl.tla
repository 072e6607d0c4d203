----------------------------- MODULE AnchorIdl -----------------------------
(***************************************************************************)
(* How Anchor keeps the description of a program's interface (the IDL) on   *)
(* the chain.  The instructions inserted into every program (lang/src/idl.rs *)
(* and the generated __idl_* handlers) keep it in one canonical account, and  *)
(* copy it there from buffers; the command line tool (cli/src/lib.rs) sends   *)
(* it in chunks, one transaction each, and gives up at the first that is not  *)
(* confirmed.  The compressed bytes of a version are a sequence of chunks     *)
(* <<version, position>>, and lengths are counted in chunks.  A transaction   *)
(* may be lost, and it may land after the tool has stopped waiting for it.    *)
(***************************************************************************)
EXTENDS Naturals, Sequences, FiniteSets, SequencesExt

CONSTANTS Sessions,      \* terminals in which the tool is run
          Wallets,       \* the keys the tool signs with
          WalletOf,      \* the wallet of the workspace a session runs in
          Versions,      \* the IDLs there are to upload
          Size,          \* the chunks each takes: its length over MAX_WRITE_SIZE
          Buffers,       \* addresses that Keypair::generate may give
          MaxCommands,   \* how many commands are run
          MaxFaults      \* how many calls fail or are given up

ERASED_AUTHORITY == "11111111"
Canonical == "idl"
None == "none"

Addresses == {Canonical} \cup Buffers

ASSUME IdlAssumption ==
  /\ WalletOf \in [Sessions -> Wallets]
  /\ Size \in [Versions -> Nat \ {0}]
  /\ {ERASED_AUTHORITY, None} \cap Wallets = {} /\ Canonical \notin Buffers
  /\ MaxCommands \in Nat /\ MaxFaults \in Nat

VARIABLES acct,      \* the accounts of IDLs on the chain
          session,   \* what each session is doing
          flight,    \* the transaction each session waits for
          late,      \* transactions nobody waits for any more
          known,     \* buffers whose address the tool has printed
          served,    \* whether some command that uploads has reported success
          commands, faults

vars == <<acct, session, flight, late, known, served, commands, faults>>

NoAccount == [authority |-> None, data |-> <<>>, space |-> 0]
Exists(a) == a.authority # None

Bytes(v) == [i \in 1..Size[v] |-> <<v, i>>]

\* fetch_idl: ZlibDecoder reads one stream and leaves what follows it; a stream that is
\* cut off or patched together is an error.
Decodes(data, v) == IsPrefix(Bytes(v), data)
Whole(data) == \E v \in Versions : Decodes(data, v)

-----------------------------------------------------------------------------
(* The instructions of the program.  Each says when it succeeds and what it leaves; a
   transaction that fails leaves nothing. *)

\* has_one = authority; authority: Signer; constraint = authority.key != &ERASED_AUTHORITY
Authorised(a, signer) ==
  Exists(a) /\ a.authority = signer /\ signer # ERASED_AUTHORITY

\* ProgramAccount::exit: an account does not grow, so what does not fit is an error.
Fits(a) == Len(a.data) <= a.space

\* create_account_with_seed fails if the account exists.
IdlCreate(a, tx) ==
  [ok |-> ~Exists(a[Canonical]),
   acct |-> [a EXCEPT ![Canonical] =
               [authority |-> tx.signer, data |-> <<>>, space |-> tx.space]]]

\* The system program's create_account and CreateBuffer, in one transaction.
IdlCreateBuffer(a, tx) ==
  [ok |-> ~Exists(a[tx.addr]),
   acct |-> [a EXCEPT ![tx.addr] =
               [authority |-> tx.signer, data |-> <<>>, space |-> tx.space]]]

\* Variant: a write replaces what was written before.
WriteReplaces(a, tx) ==
  LET written == [a[tx.addr] EXCEPT !.data = <<tx.chunk>>]
  IN [ok |-> Authorised(a[tx.addr], tx.signer) /\ Fits(written),
      acct |-> [a EXCEPT ![tx.addr] = written]]

IdlWrite(a, tx) ==
  LET written == [a[tx.addr] EXCEPT !.data = Append(@, tx.chunk)]
  IN [ok |-> Authorised(a[tx.addr], tx.signer) /\ Fits(written),
      acct |-> [a EXCEPT ![tx.addr] = written]]

IdlSetAuthority(a, tx) ==
  [ok |-> Authorised(a[tx.addr], tx.signer),
   acct |-> [a EXCEPT ![tx.addr].authority = tx.new]]

IdlSetBuffer(a, tx) ==
  LET updated == [a[Canonical] EXCEPT !.data = a[tx.addr].data]
  IN [ok |-> /\ Exists(a[tx.addr])
             /\ a[tx.addr].authority = a[Canonical].authority
             /\ Authorised(a[Canonical], tx.signer)
             /\ Fits(updated),
      acct |-> [a EXCEPT ![Canonical] = updated]]

\* __idl_dispatch
Dispatch(a, tx) ==
  CASE tx.op = "Create" -> IdlCreate(a, tx)
    [] tx.op = "CreateBuffer" -> IdlCreateBuffer(a, tx)
    [] tx.op = "Write" -> IdlWrite(a, tx)
    [] tx.op = "SetAuthority" -> IdlSetAuthority(a, tx)
    [] tx.op = "SetBuffer" -> IdlSetBuffer(a, tx)

Executed(a, tx) == LET r == Dispatch(a, tx) IN IF r.ok THEN r.acct ELSE a

-----------------------------------------------------------------------------
(* The tool: a session's pc names the transaction it sends next; sent says how far that
   transaction is. *)

Idle == [cmd |-> None, pc |-> "idle", sent |-> "no", version |-> None, addr |-> Canonical,
         offset |-> 1, new |-> None, result |-> None]

NoTx == [op |-> None, signer |-> None, addr |-> Canonical, space |-> 0, chunk |-> <<>>,
         new |-> None]

Tx(s) ==
  LET me == session[s]
      signed == [NoTx EXCEPT !.signer = WalletOf[s], !.addr = me.addr]
  IN CASE me.pc = "create" -> [signed EXCEPT !.op = "Create", !.space = 2 * Size[me.version]]
       [] me.pc = "buffer" -> [signed EXCEPT !.op = "CreateBuffer", !.space = Size[me.version]]
       [] me.pc = "write" ->
            [signed EXCEPT !.op = "Write", !.chunk = Bytes(me.version)[me.offset]]
       [] me.pc = "set" -> [signed EXCEPT !.op = "SetBuffer"]
       [] me.pc = "auth" -> [signed EXCEPT !.op = "SetAuthority", !.new = me.new]

Init ==
  /\ acct = [a \in Addresses |-> NoAccount]
  /\ session = [s \in Sessions |-> Idle]
  /\ flight = [s \in Sessions |-> NoTx]
  /\ late = {} /\ known = {} /\ served = FALSE
  /\ commands = 0 /\ faults = 0

Starts(s, me) ==
  /\ session[s].pc = "idle" /\ commands < MaxCommands
  /\ session' = [session EXCEPT ![s] = me]
  /\ commands' = commands + 1
  /\ UNCHANGED <<acct, flight, late, known, served, faults>>

\* anchor idl init
IdlInit(s, v) ==
  Starts(s, [Idle EXCEPT !.cmd = "init", !.pc = "create", !.version = v])

\* A buffer at an address nobody has used.
FreshBuffer(b) ==
  /\ ~Exists(acct[b])
  /\ \A s \in Sessions : session[s].addr # b
  /\ \A tx \in late : tx.addr # b

\* anchor idl write-buffer
IdlWriteBuffer(s, v, b) ==
  /\ FreshBuffer(b)
  /\ Starts(s, [Idle EXCEPT !.cmd = "write_buffer", !.pc = "buffer", !.version = v, !.addr = b])

\* anchor idl set-buffer, with an address that write-buffer printed
SetBuffer(s, b) ==
  /\ b \in known
  /\ Starts(s, [Idle EXCEPT !.cmd = "set_buffer", !.pc = "set", !.addr = b])

\* anchor idl upgrade: write-buffer and set-buffer in one
IdlUpgrade(s, v, b) ==
  /\ FreshBuffer(b)
  /\ Starts(s, [Idle EXCEPT !.cmd = "upgrade", !.pc = "buffer", !.version = v, !.addr = b])

\* anchor idl set-authority
SetAuthority(s, a, w) ==
  /\ a \in known \cup {Canonical}
  /\ Starts(s, [Idle EXCEPT !.cmd = "set_authority", !.pc = "auth", !.addr = a, !.new = w])

\* anchor idl erase-authority; an answer other than y ends it
EraseAuthority(s, yes) ==
  Starts(s, IF yes THEN [Idle EXCEPT !.cmd = "erase", !.pc = "auth", !.new = ERASED_AUTHORITY]
            ELSE [Idle EXCEPT !.cmd = "erase", !.result = "ok"])

\* anchor idl fetch
Fetch(s) ==
  Starts(s, [Idle EXCEPT !.cmd = "fetch",
                         !.result = IF Exists(acct[Canonical]) /\ Whole(acct[Canonical].data)
                                    THEN "ok" ELSE "err"])

\* anchor idl authority
IdlAuthority(s) ==
  Starts(s, [Idle EXCEPT !.cmd = "authority",
                         !.result = IF Exists(acct[Canonical]) THEN "ok" ELSE "err"])

\* send_and_confirm_transaction_with_spinner_and_config
Send(s) ==
  /\ session[s].pc # "idle" /\ session[s].sent = "no"
  /\ flight' = [flight EXCEPT ![s] = Tx(s)]
  /\ session' = [session EXCEPT ![s].sent = "yes"]
  /\ UNCHANGED <<acct, late, known, served, commands, faults>>

\* The transaction a session waits for is executed, and the session learns how it went.
Land(s) ==
  /\ session[s].sent = "yes"
  /\ acct' = Executed(acct, flight[s])
  /\ session' = [session EXCEPT ![s].sent = IF Dispatch(acct, flight[s]).ok THEN "ok" ELSE "err"]
  /\ flight' = [flight EXCEPT ![s] = NoTx]
  /\ UNCHANGED <<late, known, served, commands, faults>>

Ends(s, result) == session' = [session EXCEPT ![s] = [Idle EXCEPT !.cmd = session[s].cmd,
                                                                  !.result = result]]

LastChunk(me) == me.offset >= Size[me.version]

\* The next step of a command whose transaction was confirmed.
Continues(s) ==
  LET me == session[s]
      goto(pc) == [me EXCEPT !.pc = pc, !.sent = "no"]
  IN IF me.pc \in {"create", "buffer"}
     THEN session' = [session EXCEPT ![s] = goto("write")] /\ UNCHANGED <<known, served>>
     ELSE IF me.pc = "write" /\ ~LastChunk(me)
     THEN /\ session' = [session EXCEPT ![s] = [goto("write") EXCEPT !.offset = @ + 1]]
          /\ UNCHANGED <<known, served>>
     ELSE IF me.pc = "write" /\ me.cmd = "upgrade"
     THEN session' = [session EXCEPT ![s] = goto("set")] /\ UNCHANGED <<known, served>>
     ELSE /\ Ends(s, "ok")
          /\ known' = IF me.cmd = "write_buffer" THEN known \cup {me.addr} ELSE known
          /\ served' = (served \/ me.cmd \in {"init", "upgrade", "set_buffer"})

Proceed(s) ==
  /\ session[s].sent = "ok"
  /\ Continues(s)
  /\ UNCHANGED <<acct, flight, late, commands, faults>>

\* Variant: a transaction that failed is sent again.
SendsAgain(s) == session' = [session EXCEPT ![s].sent = "no"]

\* What a failed call does to its command.
Fails(s) == Ends(s, "err")

Abort(s) ==
  /\ session[s].sent = "err"
  /\ Fails(s)
  /\ UNCHANGED <<acct, flight, late, known, served, commands, faults>>

\* A call before the transaction fails: the key file, get_latest_blockhash, the rent.
CallFails(s) ==
  /\ session[s].pc # "idle" /\ session[s].sent = "no" /\ faults < MaxFaults
  /\ faults' = faults + 1
  /\ Fails(s)
  /\ UNCHANGED <<acct, flight, late, known, served, commands>>

\* The tool stops waiting, or is stopped; the transaction is still on its way.
GivesUp(s) ==
  /\ session[s].sent = "yes" /\ faults < MaxFaults
  /\ faults' = faults + 1
  /\ late' = late \cup {flight[s]}
  /\ flight' = [flight EXCEPT ![s] = NoTx]
  /\ Fails(s)
  /\ UNCHANGED <<acct, known, served, commands>>

LandLate(tx) ==
  /\ acct' = Executed(acct, tx) /\ late' = late \ {tx}
  /\ UNCHANGED <<session, flight, known, served, commands, faults>>

Drop(tx) ==
  /\ late' = late \ {tx}
  /\ UNCHANGED <<acct, session, flight, known, served, commands, faults>>

Command(s) ==
  \/ \E v \in Versions : IdlInit(s, v)
  \/ \E v \in Versions, b \in Buffers : IdlWriteBuffer(s, v, b)
  \/ \E v \in Versions, b \in Buffers : IdlUpgrade(s, v, b)
  \/ \E b \in Buffers : SetBuffer(s, b)
  \/ \E a \in Addresses, w \in Wallets : SetAuthority(s, a, w)
  \/ \E yes \in BOOLEAN : EraseAuthority(s, yes)
  \/ Fetch(s)
  \/ IdlAuthority(s)

Step(s) == Send(s) \/ Proceed(s) \/ Abort(s)

Next ==
  \/ \E s \in Sessions : Command(s) \/ Step(s) \/ Land(s) \/ CallFails(s) \/ GivesUp(s)
  \/ \E tx \in late : LandLate(tx) \/ Drop(tx)

Spec == Init /\ [][Next]_vars

\* A session that can go on does, and a transaction that is waited for lands.
FairSpec == Spec /\ \A s \in Sessions : WF_vars(Step(s)) /\ WF_vars(Land(s))

-----------------------------------------------------------------------------
(* Properties *)

\* idl_write, idl_upgrade and __idl_set_buffer: once clients can fetch an IDL they always
\* can.  Chunks that arrive late, commands that break off and two sessions at work at the
\* same time may change which version it is, and never leave a torn one.
OnceWholeStaysWhole ==
  [][Whole(acct[Canonical].data) => Whole(acct'[Canonical].data)]_vars

\* idl_write: every command ends, with an answer to its user.
CommandsEnd == \A s \in Sessions : session[s].pc # "idle" ~> session[s].pc = "idle"
=============================================================================
