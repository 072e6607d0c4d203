------------------------------ MODULE MCFormats ------------------------------
(***************************************************************************)
(* Data as bytes: one account of each kind, and the instructions that       *)
(* clients send.  Obligations have room for three entries and two reserves  *)
(* to use; every instruction is sent by every client, with both payloads    *)
(* and obligations of up to two deposits and two borrows.  The two formats  *)
(* have no state in common, so instructions travel while one account is still *)
(* empty.                                                                   *)
(***************************************************************************)
EXTENDS AccountLayout

CONSTANT MaxReserves

VARIABLES tx, last

Wire == INSTANCE LendingInstruction

FormatsInit == Init /\ Wire!Init

FormatsNext ==
  \/ kind = "market" /\ meant = Nothing /\ Wire!Next /\ UNCHANGED vars
  \/ last = Wire!NoTx /\ tx = Wire!NoTx /\ Next /\ UNCHANGED <<tx, last>>

FormatsSpec == FormatsInit /\ [][FormatsNext]_<<vars, tx, last>>

\* Complete data is decoded as the instruction and the payload that were sent, and
\* data cut short is refused (instruction.rs pack and unpack).
DecodedAsSent == Wire!DecodedAsSent

\* Every builder puts each account where the handler reads it, with the privileges
\* it uses (instruction.rs and the TypeScript builders against processor.rs).
HandlerFindsItsAccounts == Wire!HandlerFindsItsAccounts

=============================================================================
